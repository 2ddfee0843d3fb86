----------------------- MODULE ExecutionResultsProofs -----------------------
(***************************************************************************)
(* Proofs about ExecutionResults, for any results, requests, keys,         *)
(* consumers, retry limit and failures.  A handler past its INSERT has its *)
(* key stored, past its UPDATE its outcome shown; neither is undone.  The  *)
(* steps are proved for calls with results, whatever else the bus carries; *)
(* the theorems are about a bus that carries nothing else, as the dead     *)
(* letters of DeadLetters have handlers of their own.                      *)
(***************************************************************************)
EXTENDS ExecutionResults, EventBusProofs

OnlyResults == Messages = Results

Shown(m) == RequestOf[m] \in Recorded => requestStatus[RequestOf[m]] \in Outcomes
Done(m) == KeyStored(m) /\ Shown(m)

\* What the handler of a result has behind it at each statement.
StatementsDone ==
    \A t \in Tasks : cur[t].msg \in Results =>
        /\ step[t] = "update" => KeyStored(cur[t].msg)
        /\ step[t] = "done" => Done(cur[t].msg)

HandledDone == \A m \in handled \cap Results : Done(m)

\* An outcome shown is that of a result of the request whose key is stored.
OutcomeReported ==
    \A q \in Recorded :
        requestStatus[q] \in Outcomes =>
            \E m \in Results :
                RequestOf[m] = q /\ StatusOf[m] = requestStatus[q] /\ KeyStored(m)

\* The foreign key: a row is one of a recorded request.
RowsRefer == \A m \in results : RequestOf[m] \in Recorded

ResultInv == TypeOK /\ StatementsDone /\ HandledDone /\ OutcomeReported /\ RowsRefer

-----------------------------------------------------------------------------
\* To the bus, the recorder is a handler.
LEMMA ResultsBusStep == [Next]_vars => [BusNext]_busVars
<1> SUFFICES ASSUME [Next]_vars
             PROVE  [BusNext]_busVars
  OBVIOUS
<1>1. ASSUME NEW t \in Tasks, HandlerStep(t)
      PROVE  UNCHANGED busVars \/ HandlerReturns(t) \/ HandlerRaises(t)
  BY <1>1 DEF HandlerStep, Insert, ForeignKeyFails, Update, Finish, Statement, Raise
<1>2. ASSUME NEW t \in Tasks, TaskStep(t)
      PROVE  [BusNext]_busVars
  BY <1>1, <1>2 DEF TaskStep, Begin, BusNext
<1>3. CASE ServerNext
  BY <1>3 DEF BusNext
<1>4. ASSUME NEW q \in Recorded, MarkPublished(q)
      PROVE  UNCHANGED busVars
  BY <1>4 DEF MarkPublished
<1>5. ASSUME NEW p \in Processes, ResultCrash(p)
      PROVE  BusNext
  BY <1>5 DEF ResultCrash, BusNext
<1>6. CASE UNCHANGED vars
  BY <1>6 DEF vars
<1> QED
  BY <1>2, <1>3, <1>4, <1>5, <1>6 DEF Next

\* The recorder implements the bus: an acknowledged result was handled or
\* dead-lettered, like every event.
THEOREM ResultsUseBus == Spec => BusSpec
<1>1. Init => BusInit
  BY DEF Init
<1> QED
  BY <1>1, ResultsBusStep, PTL DEF Spec, BusSpec

\* A result is tried at most MaxDeliver times until it is closed, and closed
\* only after a try handled it or the last one was given up.
THEOREM ResultsKeepDelivery == Spec => KeepsDelivery
BY ResultsUseBus, BusKeepsDelivery, PTL

\* The parts of the type invariant.
LEMMA ResultTypes ==
    ASSUME TypeOK
    PROVE  /\ BusTypeOK
           /\ requestStatus \in [Recorded -> {"REQUESTED", "PUBLISHED"} \cup Outcomes]
           /\ results \subseteq Results
           /\ step \in [Tasks -> {"none", "insert", "update", "done"}]
           /\ phase \in [Tasks -> Phases]
           /\ \A m \in Results :
                /\ RequestOf[m] \in Requests
                /\ StatusOf[m] \in Outcomes
                /\ ResultKey[m] \in ResultKeys
BY ResultAssumption DEF TypeOK, BusTypeOK

\* Where every event is a result, every call is about one.
LEMMA CallsHaveResults ==
    ASSUME TypeOK, OnlyResults, NEW t \in Tasks, phase[t] # "idle"
    PROVE  cur[t].msg \in Results
BY CurrentDelivery DEF TypeOK, OnlyResults

-----------------------------------------------------------------------------
(* What a step may leave to be checked.                                    *)

\* KeyStored keys stay and an outcome is followed by outcomes only.
Kept ==
    /\ results \subseteq results'
    /\ \A q \in Recorded : requestStatus[q] \in Outcomes => requestStatus'[q] \in Outcomes

\* KeyStored results and their outcomes stay.
LEMMA DoneStays ==
    ASSUME Kept, NEW m
    PROVE  /\ KeyStored(m) => KeyStored(m)'
           /\ Done(m) => Done(m)'
BY DEF Kept, KeyStored, Done, Shown

\* A step that advances no handler past a statement.
LEMMA KeptStep ==
    ASSUME ResultInv, Kept, handled' \cap Results \subseteq handled,
           \A t \in Tasks : \/ step'[t] = step[t] /\ cur'[t] = cur[t]
                            \/ step'[t] \in {"none", "insert"}
                            \/ cur'[t].msg \notin Results
    PROVE  StatementsDone' /\ HandledDone'
<1>1. StatementsDone'
  <2> SUFFICES ASSUME NEW t \in Tasks, NEW m \in Results, m = cur'[t].msg
               PROVE  /\ step'[t] = "update" => KeyStored(m)'
                      /\ step'[t] = "done" => Done(m)'
    BY DEF StatementsDone, KeyStored, Done, Shown
  <2>1. CASE step'[t] \in {"none", "insert"}
    BY <2>1
  <2>2. CASE step'[t] = step[t] /\ cur'[t] = cur[t]
    BY <2>2, DoneStays DEF ResultInv, StatementsDone
  <2> QED
    BY <2>1, <2>2
<1>2. HandledDone'
  <2> SUFFICES ASSUME NEW m \in handled \cap Results
               PROVE  Done(m)'
    BY DEF HandledDone
  <2> QED
    BY DoneStays DEF ResultInv, HandledDone
<1> QED
  BY <1>1, <1>2

\* A handler t that stays with its delivery m and goes on to statement s.
LEMMA AdvanceStep ==
    ASSUME ResultInv, Kept, NEW t \in Tasks, NEW s, NEW m, m = cur[t].msg,
           step' = [step EXCEPT ![t] = s], UNCHANGED <<cur, handled>>,
           s = "update" => KeyStored(m)', s = "done" => Done(m)'
    PROVE  StatementsDone' /\ HandledDone'
<1>1. StatementsDone'
  <2> SUFFICES ASSUME NEW u \in Tasks, NEW n \in Results, n = cur[u].msg
               PROVE  /\ step'[u] = "update" => KeyStored(n)'
                      /\ step'[u] = "done" => Done(n)'
    BY DEF StatementsDone, KeyStored, Done, Shown
  <2>1. step \in [Tasks -> {"none", "insert", "update", "done"}]
    BY DEF ResultInv, TypeOK
  <2>2. CASE u = t
    BY <2>1, <2>2
  <2>3. CASE u # t
    BY <2>1, <2>3, DoneStays DEF ResultInv, StatementsDone
  <2> QED
    BY <2>2, <2>3
<1>2. HandledDone'
  <2> SUFFICES ASSUME NEW n \in handled \cap Results
               PROVE  Done(n)'
    BY DEF HandledDone
  <2> QED
    BY DoneStays DEF ResultInv, HandledDone
<1> QED
  BY <1>1, <1>2

\* Where no request changes its status, every outcome keeps its report.
LEMMA SameOutcomes ==
    ASSUME ResultInv, results \subseteq results', requestStatus' = requestStatus
    PROVE  Kept /\ OutcomeReported'
BY DEF ResultInv, OutcomeReported, KeyStored, Kept

\* The types of the recorder's own variables after a step of task t.
LEMMA TaskTypes ==
    ASSUME TypeOK, BusTypeOK', NEW t \in Tasks,
           NEW s \in {"none", "insert", "update", "done"},
           requestStatus' \in [Recorded -> {"REQUESTED", "PUBLISHED"} \cup Outcomes],
           results' \subseteq Results, marking' \subseteq Recorded,
           step' = [step EXCEPT ![t] = s],
           s # "none" <=> phase'[t] = "handling",
           \A u \in Tasks \ {t} : phase'[u] = phase[u]
    PROVE  TypeOK'
BY DEF TypeOK

-----------------------------------------------------------------------------
(* The steps.                                                              *)

\* The insert of a result.
LEMMA InsertStep ==
    ASSUME ResultInv, BusTypeOK', NEW t \in Tasks, cur[t].msg \in Results, Insert(t)
    PROVE  ResultInv'
<1> USE ResultTypes DEF ResultInv
<1> DEFINE m == cur[t].msg
<1>1. /\ step[t] = "insert" /\ phase[t] = "handling"
      /\ requestStatus' = requestStatus /\ marking' = marking
      /\ results \subseteq results' /\ results' \subseteq results \cup {m}
      /\ results' # results => HasRow(t)
  BY DEF Insert, Statement, TypeOK, StoreResult, AlreadyStored
<1>2. Kept /\ OutcomeReported' /\ RowsRefer'
  BY <1>1, SameOutcomes DEF RowsRefer, HasRow
<1>3. CASE KeyStored(m)' /\ step' = [step EXCEPT ![t] = "update"] /\ UNCHANGED busVars
  <2>1. StatementsDone' /\ HandledDone'
    BY <1>2, <1>3, AdvanceStep DEF busVars, KeyStored
  <2>2. TypeOK'
    BY <1>1, <1>3, TaskTypes DEF busVars, TypeOK
  <2> QED
    BY <1>2, <2>1, <2>2
<1>4. CASE Raise(t)
  <2>1. /\ step' = [step EXCEPT ![t] = "none"] /\ UNCHANGED <<cur, handled>>
        /\ phase' = [phase EXCEPT ![t] = "failed"]
    BY <1>4 DEF Raise, HandlerRaises, Goto
  <2>2. StatementsDone' /\ HandledDone'
    BY <1>2, <2>1, AdvanceStep
  <2>3. TypeOK'
    BY <1>1, <2>1, TaskTypes DEF TypeOK
  <2> QED
    BY <1>2, <2>2, <2>3
<1>5. \/ KeyStored(m)' /\ step' = [step EXCEPT ![t] = "update"] /\ UNCHANGED busVars
      \/ Raise(t)
  BY DEF Insert, Statement, Goto, StoreResult, KeyStored, busVars
<1> QED
  BY <1>3, <1>4, <1>5

\* A result without a request makes its call raise.
LEMMA ForeignKeyStep ==
    ASSUME ResultInv, BusTypeOK', NEW t \in Tasks, cur[t].msg \in Results, ForeignKeyFails(t)
    PROVE  ResultInv'
<1> USE ResultTypes DEF ResultInv
<1>1. /\ step' = [step EXCEPT ![t] = "none"] /\ UNCHANGED <<cur, handled>>
      /\ phase' = [phase EXCEPT ![t] = "failed"]
      /\ UNCHANGED <<requestStatus, results, marking>>
  BY DEF ForeignKeyFails, Raise, HandlerRaises, Goto
<1>2. Kept /\ OutcomeReported' /\ RowsRefer'
  BY <1>1, SameOutcomes DEF RowsRefer
<1>3. StatementsDone' /\ HandledDone'
  BY <1>1, <1>2, AdvanceStep
<1>4. TypeOK'
  BY <1>1, TaskTypes DEF TypeOK
<1> QED
  BY <1>2, <1>3, <1>4

\* The status is that of a result whose key is stored.
LEMMA UpdateStep ==
    ASSUME ResultInv, BusTypeOK', NEW t \in Tasks, cur[t].msg \in Results, Update(t)
    PROVE  ResultInv'
<1> USE ResultTypes DEF ResultInv
<1>0. PICK m : m = cur[t].msg
  OBVIOUS
<1>1. /\ step[t] = "update" /\ phase[t] = "handling" /\ marking' = marking
      /\ m \in Results /\ StatusOf[m] \in Outcomes /\ KeyStored(m)
      /\ results' = results
  BY <1>0 DEF Update, Statement, TypeOK, StatementsDone
<1>2. \/ UpdateStatus(RequestOf[m], StatusOf[m]) /\ Goto(t, "done") /\ UNCHANGED busVars
      \/ UpdateStatus(RequestOf[m], StatusOf[m]) /\ Raise(t)
      \/ requestStatus' = requestStatus /\ Raise(t)
  BY <1>0 DEF Update, Statement
<1>3. /\ requestStatus' \in [Recorded -> {"REQUESTED", "PUBLISHED"} \cup Outcomes]
      /\ \A q \in Recorded :
           \/ requestStatus'[q] = requestStatus[q]
           \/ q = RequestOf[m] /\ requestStatus'[q] = StatusOf[m]
  BY <1>1, <1>2 DEF UpdateStatus
<1>4. Kept
  BY <1>1, <1>3 DEF Kept
<1>5. OutcomeReported' /\ RowsRefer'
  BY <1>1, <1>3 DEF OutcomeReported, KeyStored, RowsRefer
<1>6. CASE UpdateStatus(RequestOf[m], StatusOf[m]) /\ Goto(t, "done") /\ UNCHANGED busVars
  <2>1. step' = [step EXCEPT ![t] = "done"] /\ UNCHANGED <<cur, handled, phase>>
    BY <1>6 DEF Goto, busVars
  <2>2. Done(m)'
    BY <1>1, <1>3, <1>6 DEF Done, KeyStored, Shown, UpdateStatus, TypeOK
  <2>3. StatementsDone' /\ HandledDone'
    BY <1>0, <1>4, <2>1, <2>2, AdvanceStep
  <2>4. TypeOK'
    BY <1>1, <1>3, <2>1, TaskTypes DEF TypeOK
  <2> QED
    BY <1>5, <2>3, <2>4
<1>7. CASE Raise(t)
  <2>1. /\ step' = [step EXCEPT ![t] = "none"] /\ UNCHANGED <<cur, handled>>
        /\ phase' = [phase EXCEPT ![t] = "failed"]
    BY <1>7 DEF Raise, HandlerRaises, Goto
  <2>2. StatementsDone' /\ HandledDone'
    BY <1>4, <2>1, AdvanceStep
  <2>3. TypeOK'
    BY <1>1, <1>3, <2>1, TaskTypes DEF TypeOK
  <2> QED
    BY <1>5, <2>2, <2>3
<1> QED
  BY <1>2, <1>6, <1>7

\* A call returns after its last statement.
LEMMA FinishStep ==
    ASSUME ResultInv, BusTypeOK', NEW t \in Tasks, cur[t].msg \in Results, Finish(t)
    PROVE  ResultInv'
<1> USE ResultTypes DEF ResultInv
<1>1. /\ step[t] = "done" /\ step' = [step EXCEPT ![t] = "none"]
      /\ phase' = [phase EXCEPT ![t] = "acking"] /\ cur' = cur
      /\ handled' = handled \cup {cur[t].msg}
      /\ UNCHANGED <<requestStatus, results, marking>>
  BY DEF Finish, HandlerReturns, Goto
<1>2. Kept /\ OutcomeReported' /\ RowsRefer'
  BY <1>1, SameOutcomes DEF RowsRefer
<1>3. Done(cur[t].msg)
  BY <1>1 DEF StatementsDone
<1>4. HandledDone'
  <2> SUFFICES ASSUME NEW m \in handled' \cap Results
               PROVE  Done(m)'
    BY DEF HandledDone
  <2> QED
    BY <1>1, <1>2, <1>3, DoneStays DEF HandledDone
<1>5. StatementsDone'
  BY <1>1 DEF StatementsDone, Done, KeyStored, Shown
<1>6. TypeOK'
  BY <1>1, TaskTypes DEF TypeOK
<1> QED
  BY <1>2, <1>4, <1>5, <1>6

\* A call begins with nothing done.
LEMMA BeginStep ==
    ASSUME ResultInv, BusTypeOK', NEW t \in Tasks, Begin(t)
    PROVE  ResultInv'
<1> USE ResultTypes DEF ResultInv
<1>1. /\ step' = [step EXCEPT ![t] = "insert"] /\ handled' = handled
      /\ phase' = [phase EXCEPT ![t] = "handling"]
      /\ \A u \in Tasks \ {t} : cur'[u] = cur[u]
      /\ UNCHANGED <<requestStatus, results, marking>>
  BY DEF Begin, Take, Goto
<1>2. Kept /\ OutcomeReported' /\ RowsRefer'
  BY <1>1, SameOutcomes DEF RowsRefer
<1>3. StatementsDone' /\ HandledDone'
  BY <1>1, <1>2, KeptStep
<1>4. TypeOK'
  BY <1>1, TaskTypes DEF TypeOK
<1> QED
  BY <1>2, <1>3, <1>4

\* What the bus does around the handler finds it between two deliveries.
LEMMA AroundStep ==
    ASSUME ResultInv, BusTypeOK', UNCHANGED resultVars,
           ServerNext \/ \E t \in Tasks : CallbackStep(t)
    PROVE  ResultInv'
<1> USE ResultTypes DEF ResultInv
<1>1. UNCHANGED <<requestStatus, results, marking, step, handled>>
  BY DEF resultVars, ServerNext, Publish, Deliver, AckWaitExpires, CallbackStep, Nak,
         DeadLetter, DeadLetterFails, Ack
<1>2. \A t \in Tasks : /\ phase'[t] = "handling" <=> phase[t] = "handling"
                       /\ phase[t] = "handling" => cur'[t] = cur[t]
  BY DEF ServerNext, Publish, Deliver, AckWaitExpires, CallbackStep, Nak, DeadLetter,
         DeadLetterFails, Ack, BecomeIdle, BusTypeOK
<1>3. TypeOK'
  BY <1>1, <1>2 DEF TypeOK
<1>4. Kept /\ OutcomeReported' /\ RowsRefer'
  BY <1>1, SameOutcomes DEF RowsRefer
<1>5. \A t \in Tasks : step[t] = "none" \/ cur'[t] = cur[t]
  BY <1>2 DEF TypeOK
<1>6. StatementsDone' /\ HandledDone'
  BY <1>1, <1>4, <1>5, KeptStep
<1> QED
  BY <1>3, <1>4, <1>6

\* The copy engine marks a request: it never takes an outcome back.
LEMMA MarkStep ==
    ASSUME ResultInv, BusTypeOK', NEW q \in Recorded, MarkPublished(q)
    PROVE  ResultInv'
<1> USE ResultTypes DEF ResultInv
<1>1. /\ UNCHANGED <<results, step>> /\ UNCHANGED busVars /\ marking' \subseteq marking
      /\ requestStatus' \in [Recorded -> {"REQUESTED", "PUBLISHED"} \cup Outcomes]
      /\ \A p \in Recorded :
           \/ requestStatus'[p] = requestStatus[p]
           \/ requestStatus[p] = "REQUESTED" /\ requestStatus'[p] = "PUBLISHED"
  BY DEF MarkPublished
<1>2. "REQUESTED" \notin Outcomes /\ "PUBLISHED" \notin Outcomes
  BY DEF Outcomes
<1>3. Kept
  BY <1>1, <1>2 DEF Kept
<1>4. OutcomeReported' /\ RowsRefer'
  BY <1>1, <1>2 DEF OutcomeReported, KeyStored, RowsRefer
<1>5. StatementsDone' /\ HandledDone'
  BY <1>1, <1>3, KeptStep DEF busVars
<1>6. TypeOK'
  BY <1>1 DEF TypeOK, busVars
<1> QED
  BY <1>4, <1>5, <1>6

\* A crash ends calls; what the database has stays.
LEMMA CrashStep ==
    ASSUME ResultInv, BusTypeOK', NEW p \in Processes, ResultCrash(p)
    PROVE  ResultInv'
<1> USE ResultTypes DEF ResultInv
<1>1. /\ UNCHANGED <<requestStatus, results, handled>> /\ marking' = {}
      /\ step' = [t \in Tasks |-> IF Host[t] = p THEN "none" ELSE step[t]]
      /\ cur' = [t \in Tasks |-> IF Host[t] = p THEN NoDelivery ELSE cur[t]]
      /\ phase' = [t \in Tasks |-> IF Host[t] = p THEN "idle" ELSE phase[t]]
  BY DEF ResultCrash, Crash
<1>2. Kept /\ OutcomeReported' /\ RowsRefer'
  BY <1>1, SameOutcomes DEF RowsRefer
<1>3. StatementsDone' /\ HandledDone'
  BY <1>1, <1>2, KeptStep
<1>4. TypeOK'
  BY <1>1 DEF TypeOK
<1> QED
  BY <1>2, <1>3, <1>4

\* The invariant is inductive.
LEMMA ResultStep == OnlyResults /\ ResultInv /\ [Next]_vars => ResultInv'
<1> SUFFICES ASSUME OnlyResults, ResultInv, [Next]_vars
             PROVE  ResultInv'
  OBVIOUS
<1>1. BusTypeOK'
  BY ResultsBusStep, BusTypeStep DEF ResultInv, TypeOK
<1>2. CASE UNCHANGED vars
  <2>1. UNCHANGED <<busVars, requestStatus, results, marking, step>>
    BY <1>2 DEF vars, resultVars
  <2>2. TypeOK'
    BY <1>1, <2>1 DEF ResultInv, TypeOK, busVars
  <2>3. Kept /\ OutcomeReported' /\ RowsRefer'
    BY <2>1, SameOutcomes DEF ResultInv, RowsRefer
  <2>4. StatementsDone' /\ HandledDone'
    BY <2>1, <2>3, KeptStep DEF busVars
  <2> QED
    BY <2>2, <2>3, <2>4 DEF ResultInv
<1>3. ASSUME NEW t \in Tasks, TaskStep(t)
      PROVE  ResultInv'
  <2>1. HandlerStep(t) => cur[t].msg \in Results
    BY CallsHaveResults DEF HandlerStep, Insert, ForeignKeyFails, Update, Finish, ResultInv, TypeOK
  <2> QED
    BY <1>1, <1>3, <2>1, BeginStep, InsertStep, ForeignKeyStep, UpdateStep, FinishStep, AroundStep
       DEF TaskStep, HandlerStep
<1>4. CASE ServerNext /\ UNCHANGED resultVars
  BY <1>1, <1>4, AroundStep
<1>5. ASSUME NEW q \in Recorded, MarkPublished(q)
      PROVE  ResultInv'
  BY <1>1, <1>5, MarkStep
<1>6. ASSUME NEW p \in Processes, ResultCrash(p)
      PROVE  ResultInv'
  BY <1>1, <1>6, CrashStep
<1> QED
  BY <1>2, <1>3, <1>4, <1>5, <1>6 DEF Next

\* Nothing is stored or handled at first.
LEMMA Init_ResultInv == Init => ResultInv
<1> SUFFICES ASSUME Init
             PROVE  ResultInv
  OBVIOUS
<1>1. TypeOK
  BY BusInitTypes DEF Init, TypeOK, BusInit
<1>2. StatementsDone /\ HandledDone /\ OutcomeReported /\ RowsRefer
  BY DEF Init, BusInit, StatementsDone, HandledDone, OutcomeReported, RowsRefer, Outcomes
<1> QED
  BY <1>1, <1>2 DEF ResultInv

\* Without dead letters of the pipeline, the statements a call has behind it
\* are done in every state.
THEOREM ResultInvariant == OnlyResults => (Spec => []ResultInv)
<1> SUFFICES ASSUME OnlyResults
             PROVE  Spec => []ResultInv
  OBVIOUS
<1> QED
  BY Init_ResultInv, ResultStep, PTL DEF Spec

-----------------------------------------------------------------------------
(* The properties.                                                         *)

\* Tables and handlers keep their types.
THEOREM ResultsTypeCorrect == OnlyResults => (Spec => []TypeOK)
BY ResultInvariant, PTL DEF ResultInv

\* record()'s INSERT and UPDATE are two commits, yet an acknowledged result
\* that was not dead-lettered has both, whatever fails between them.
THEOREM AcknowledgedIsRecorded == OnlyResults => (Spec => []AckedIsRecorded)
<1> SUFFICES ASSUME OnlyResults
             PROVE  Spec => []AckedIsRecorded
  OBVIOUS
<1>1. ResultInv /\ AckedIsSettled => AckedIsRecorded
  BY DEF OnlyResults, ResultInv, HandledDone, Done, KeyStored, Shown, AckedIsSettled,
         AckedIsRecorded, Settled
<1>2. Spec => []AckedIsSettled
  BY ResultsUseBus, AckedSettled, PTL
<1> QED
  BY <1>1, <1>2, ResultInvariant, PTL

\* With any keys, an outcome shown was reported by a result of the request
\* whose key is stored, if not as the row of that result: the UPDATE is
\* unconditional, but it follows the INSERT.
THEOREM OutcomesAreReported == OnlyResults => (Spec => []OutcomeReported)
BY ResultInvariant, PTL DEF ResultInv

\* Where keys tell results apart, the row stored with the key of the report
\* is one of the request and has the outcome.
LEMMA ReportIsRow ==
    ASSUME KeysTellResults, OutcomeReported, RowsRefer, results \subseteq Results
    PROVE  OutcomeHasResult
<1> SUFFICES ASSUME NEW q \in Recorded, requestStatus[q] \in Outcomes
             PROVE  \E n \in results : RequestOf[n] = q /\ StatusOf[n] = requestStatus[q]
  BY DEF OutcomeHasResult
<1>1. PICK m \in Results : RequestOf[m] = q /\ StatusOf[m] = requestStatus[q] /\ KeyStored(m)
  BY DEF OutcomeReported
<1>2. PICK n \in results : ResultKey[n] = ResultKey[m]
  BY <1>1 DEF KeyStored
<1>3. RequestOf[n] = RequestOf[m] /\ StatusOf[n] = StatusOf[m]
  BY <1>1, <1>2 DEF KeysTellResults, RowsRefer
<1> QED
  BY <1>1, <1>3

\* If the executor's keys tell results apart, a request shows an outcome only
\* if a row with this request and this outcome is stored.
THEOREM OutcomesHaveResults ==
    OnlyResults /\ KeysTellResults => (Spec => []OutcomeHasResult)
<1> SUFFICES ASSUME OnlyResults, KeysTellResults
             PROVE  Spec => []OutcomeHasResult
  OBVIOUS
<1>1. ResultInv => OutcomeHasResult
  BY ReportIsRow, ResultTypes DEF ResultInv
<1> QED
  BY <1>1, ResultInvariant, PTL

\* No step takes an outcome back, neither mark_published nor another result.
THEOREM OutcomesStay == OnlyResults => (Spec => OutcomeIsNotUnmarked)
<1> SUFFICES ASSUME OnlyResults
             PROVE  Spec => OutcomeIsNotUnmarked
  OBVIOUS
<1>1. ResultInv /\ [Next]_vars =>
        [\A q \in Recorded : requestStatus[q] \in Outcomes => requestStatus'[q] \in Outcomes]_vars
  <2> SUFFICES ASSUME ResultInv, Next, NEW q \in Recorded,
                      requestStatus[q] \in Outcomes
               PROVE  requestStatus'[q] \in Outcomes
    OBVIOUS
  <2> USE ResultTypes DEF ResultInv
  <2>1. ASSUME NEW t \in Tasks, Update(t)
        PROVE  requestStatus'[q] \in Outcomes
    <3>1. cur[t].msg \in Results
      BY <2>1, CallsHaveResults DEF Update, TypeOK
    <3>2. StatusOf[cur[t].msg] \in Outcomes
      BY <3>1
    <3> QED
      BY <2>1, <3>2 DEF Update, Statement, UpdateStatus
  <2>2. ASSUME NEW t \in Tasks, TaskStep(t), ~Update(t)
        PROVE  requestStatus' = requestStatus
    BY <2>2 DEF TaskStep, Begin, HandlerStep, Insert, ForeignKeyFails, Finish, Statement,
                StoreResult, resultVars
  <2>3. ASSUME NEW p \in Recorded, MarkPublished(p)
        PROVE  requestStatus'[q] \in Outcomes
    BY <2>3 DEF MarkPublished, Outcomes
  <2> QED
    BY <2>1, <2>2, <2>3 DEF Next, ResultCrash, TaskStep, HandlerStep, resultVars
<1> QED
  BY <1>1, ResultInvariant, PTL DEF Spec, OutcomeIsNotUnmarked
=============================================================================

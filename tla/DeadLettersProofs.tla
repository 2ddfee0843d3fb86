-------------------------- MODULE DeadLettersProofs --------------------------
(***************************************************************************)
(* Proofs about DeadLetters, for any results, dead letters, consumers,     *)
(* keys, retry limit and failures.  The pipeline is two consumers on one   *)
(* bus, so what is proved of the bus holds of it; a delivery is only ever  *)
(* in the hands of its message's readers, so results meet record() and     *)
(* dead letters the recorder of dead letters.                              *)
(***************************************************************************)
EXTENDS DeadLetters, ExecutionResultsProofs

USE DeadLetterAssumption, ResultAssumption DEF DeadLetterAssumption, ResultAssumption

-----------------------------------------------------------------------------
(* The pipeline implements the bus.                                        *)

LEMMA PipelineBusStep == [PipelineNext]_pipelineVars => [BusNext]_busVars
<1> SUFFICES ASSUME [PipelineNext]_pipelineVars
             PROVE  [BusNext]_busVars
  OBVIOUS
<1>1. ASSUME NEW t \in Tasks, HandlerStep(t)
      PROVE  UNCHANGED busVars \/ HandlerReturns(t) \/ HandlerRaises(t)
  BY <1>1 DEF HandlerStep, Insert, ForeignKeyFails, Update, Finish, Statement, Raise
<1>2. ASSUME NEW t \in Tasks, TaskStep(t)
      PROVE  [BusNext]_busVars
  BY <1>1, <1>2 DEF TaskStep, Begin, BusNext
<1>3. ASSUME NEW t \in Tasks, RecorderStep(t)
      PROVE  [BusNext]_busVars
  BY <1>3 DEF RecorderStep, BeginRecord, Record, Store, Fail, Raise, FinishRecord, Finish,
              BusNext
<1>4. ASSUME NEW m \in Results, Server(Publish(m))
      PROVE  BusNext
  BY <1>4 DEF Server, BusNext, ServerNext
<1>6. ASSUME NEW m \in Messages, Server(Deliver(m) \/ AckWaitExpires(m))
      PROVE  BusNext
  BY <1>6 DEF Server, BusNext, ServerNext
<1>7. CASE UNCHANGED pipelineVars
  BY <1>7 DEF pipelineVars, vars
<1> QED
  BY <1>2, <1>3, <1>4, <1>6, <1>7 DEF PipelineNext, Step

\* The result consumers and the recorder of dead letters use the bus as
\* handle_message prescribes, so neither acknowledges an event that was
\* neither handled nor dead-lettered.
THEOREM PipelineUsesBus == PipelineSpec => BusSpec
<1>1. PipelineInit => BusInit
  BY DEF PipelineInit, Init
<1> QED
  BY <1>1, PipelineBusStep, PTL DEF PipelineSpec, BusSpec

\* While workers live and dead letters are stored, neither a result nor a
\* dead letter leaves the pipeline unnoticed, however often the database
\* refuses a statement.
THEOREM PipelineLosesNothing == Dependable => (PipelineSpec => []NoSilentLoss)
<1> SUFFICES ASSUME Dependable
             PROVE  PipelineSpec => []NoSilentLoss
  OBVIOUS
<1> QED
  BY PipelineUsesBus, NothingLostSilently, PTL

\* Results and dead letters alike are tried until they are handled or, at
\* the limit, given up, and not after they are closed.
THEOREM PipelineKeepsDelivery == PipelineSpec => KeepsDelivery
BY PipelineUsesBus, BusKeepsDelivery, PTL

-----------------------------------------------------------------------------
(* The tables.                                                             *)

\* Dead letter d was made of an event that was given up.
MadeOfFailure(d) == \E m \in deadLettered \cap DOMAIN DeadLetterOf : DeadLetterOf[m] = d

DeadLettersAreFailures == \A d \in DOMAIN MsgId : status[d] # "absent" => MadeOfFailure(d)

RowsHaveFailures ==
    rows \subseteq {MsgId[DeadLetterOf[m]] : m \in deadLettered \cap DOMAIN DeadLetterOf}

\* A recorder past its INSERT has its row.
RecordersStored ==
    \A t \in Recorders :
        /\ step[t] # "update"
        /\ step[t] = "done" => MsgId[cur[t].msg] \in rows

HandledStored == \A d \in handled \ Results : MsgId[d] \in rows

PipelineInv ==
    /\ PipelineTypeOK /\ ResultInv /\ Routed
    /\ DeadLettersAreFailures /\ RowsHaveFailures /\ RecordersStored /\ HandledStored

\* Recorders have dead letters to record, the other tasks results.
LEMMA Consumers ==
    ASSUME PipelineInv, NEW t \in Tasks, phase[t] # "idle"
    PROVE  /\ t \notin Recorders => cur[t].msg \in Results
           /\ t \in Recorders =>
                /\ cur[t].msg \in DOMAIN MsgId /\ cur[t].msg \notin Results
                /\ MsgId[cur[t].msg] \in Keys
                /\ MadeOfFailure(cur[t].msg)
<1>1. cur[t].msg \in Messages
  BY CurrentDelivery DEF PipelineInv, PipelineTypeOK, TypeOK
<1>2. t \in Readers[cur[t].msg] /\ status[cur[t].msg] # "absent"
  BY DEF PipelineInv, Routed
<1>3. CASE cur[t].msg \in Results
  BY <1>2, <1>3
<1>4. CASE cur[t].msg \notin Results
  <2>1. cur[t].msg \in DOMAIN MsgId
    BY <1>1, <1>4
  <2>2. t \in Recorders
    BY <1>2, <2>1
  <2> QED
    BY <1>2, <1>4, <2>1, <2>2 DEF PipelineInv, DeadLettersAreFailures, Keys
<1> QED
  BY <1>3, <1>4

\* Dead letters are never withdrawn, so a row or dead letter that has a
\* failure behind it keeps it.
LEMMA FailuresStay ==
    ASSUME deadLettered \subseteq deadLettered', NEW d, MadeOfFailure(d)
    PROVE  MadeOfFailure(d)'
BY DEF MadeOfFailure

LEMMA RowsKeepFailures ==
    ASSUME PipelineInv, deadLettered \subseteq deadLettered', rows' = rows
    PROVE  RowsHaveFailures'
BY DEF PipelineInv, RowsHaveFailures

\* Steps that store no dead letter in the stream.
LEMMA NoNewDeadLetter ==
    ASSUME PipelineInv, deadLettered \subseteq deadLettered',
           \A d \in DOMAIN MsgId : status'[d] # "absent" => status[d] # "absent"
    PROVE  DeadLettersAreFailures'
<1> SUFFICES ASSUME NEW d \in DOMAIN MsgId, status'[d] # "absent"
             PROVE  MadeOfFailure(d)'
  BY DEF DeadLettersAreFailures
<1>1. MadeOfFailure(d)
  BY DEF PipelineInv, DeadLettersAreFailures
<1> QED
  BY <1>1, FailuresStay

\* What the bus does around a handler touches neither table nor statement.
LEMMA AroundPipeline ==
    ASSUME PipelineInv, BusTypeOK', Routed', DeadLettersAreFailures',
           UNCHANGED <<resultVars, rows, failures, handled>>,
           deadLettered \subseteq deadLettered',
           \A t \in Tasks : /\ phase'[t] = "handling" <=> phase[t] = "handling"
                            /\ phase[t] = "handling" => cur'[t] = cur[t]
    PROVE  PipelineInv'
<1>1. PipelineTypeOK'
  BY DEF PipelineInv, PipelineTypeOK, TypeOK, resultVars
<1>2. RowsHaveFailures'
  BY RowsKeepFailures
<1>3. RecordersStored'
  BY DEF PipelineInv, PipelineTypeOK, TypeOK, RecordersStored, resultVars
<1>4. HandledStored'
  BY DEF PipelineInv, HandledStored
<1>5. ResultInv'
  <2>1. Kept /\ OutcomeReported' /\ RowsRefer'
    BY SameOutcomes DEF PipelineInv, resultVars, ResultInv, RowsRefer
  <2>2. \A t \in Tasks : step[t] = "none" \/ cur'[t] = cur[t]
    BY DEF PipelineInv, PipelineTypeOK, TypeOK
  <2>3. StatementsDone' /\ HandledDone'
    BY <2>1, <2>2, KeptStep DEF PipelineInv, resultVars
  <2> QED
    BY <1>1, <2>1, <2>3 DEF PipelineTypeOK, ResultInv
<1> QED
  BY <1>1, <1>2, <1>3, <1>4, <1>5 DEF PipelineInv

\* A step of a result consumer.
LEMMA ConsumerStep ==
    ASSUME PipelineInv, BusTypeOK', Routed', UNCHANGED <<rows, failures>>,
           NEW t \in Tasks \ Recorders, Begin(t) \/ HandlerStep(t)
    PROVE  PipelineInv'
<1> USE DEF PipelineInv, PipelineTypeOK, TypeOK
<1>0. PICK s \in {"none", "insert", "update", "done"} :
        /\ step' = [step EXCEPT ![t] = s] /\ marking' = marking
        /\ \/ s = "insert" /\ Take(t)
           \/ s \in {"update", "done"} /\ phase[t] = "handling" /\ UNCHANGED busVars
           \/ s = "none" /\ (HandlerReturns(t) \/ HandlerRaises(t))
  <2>1. CASE Begin(t)
    BY <2>1 DEF Begin, Goto
  <2>2. CASE Finish(t) \/ ForeignKeyFails(t)
    BY <2>2 DEF Finish, ForeignKeyFails, Raise, Goto
  <2>3. CASE Insert(t) \/ Update(t)
    <3>1. step[t] # "none" /\ marking' = marking
      BY <2>3 DEF Insert, Update
    <3>2. \/ Raise(t)
          \/ UNCHANGED busVars /\ (Goto(t, "update") \/ Goto(t, "done"))
      BY <2>3 DEF Insert, Update, Statement
    <3> QED
      BY <3>1, <3>2 DEF Raise, Goto
  <2> QED
    BY <2>1, <2>2, <2>3 DEF HandlerStep
<1>1. /\ \A u \in Tasks \ {t} :
           step'[u] = step[u] /\ cur'[u] = cur[u] /\ phase'[u] = phase[u]
      /\ status' = status /\ deadLettered' = deadLettered /\ marking' = marking
  BY <1>0 DEF Take, HandlerReturns, HandlerRaises, busVars, BusTypeOK
<1>2. ResultInv'
  <2>1. CASE Begin(t)
    BY <2>1, BeginStep
  <2>2. CASE HandlerStep(t)
    <3>1. phase[t] = "handling"
      BY <2>2 DEF HandlerStep, Insert, ForeignKeyFails, Update, Finish
    <3>2. cur[t].msg \in Results
      BY <3>1, Consumers
    <3> QED
      BY <2>2, <3>2, InsertStep, ForeignKeyStep, UpdateStep, FinishStep DEF HandlerStep
  <2> QED
    BY <2>1, <2>2
<1>3. PipelineTypeOK'
  BY <1>2 DEF ResultInv
<1>4. handled' = handled \/ \E m \in Results : handled' = handled \cup {m}
  <2>1. CASE Finish(t)
    <3>1. phase[t] = "handling" /\ handled' = handled \cup {cur[t].msg}
      BY <2>1 DEF Finish, HandlerReturns
    <3> QED
      BY <3>1, Consumers
  <2>2. CASE ~Finish(t)
    BY <2>2 DEF Begin, HandlerStep, Insert, ForeignKeyFails, Update, Statement, Take,
                Raise, HandlerRaises, busVars
  <2> QED
    BY <2>1, <2>2
<1>5. DeadLettersAreFailures' /\ RowsHaveFailures'
  BY <1>1, NoNewDeadLetter, RowsKeepFailures
<1>6. RecordersStored'
  BY <1>1 DEF RecordersStored
<1>7. HandledStored'
  BY <1>4 DEF HandledStored
<1> QED
  BY <1>2, <1>3, <1>5, <1>6, <1>7

\* A step of the recorder: the only one that adds a row, the key of the dead
\* letter it was called with.
LEMMA RecordingStep ==
    ASSUME PipelineInv, BusTypeOK', Routed', NEW t \in Recorders,
           BeginRecord(t) \/ Record(t) \/ FinishRecord(t)
    PROVE  PipelineInv'
<1> USE DEF PipelineInv, PipelineTypeOK, TypeOK
<1>0. t \in Tasks
  OBVIOUS
<1>1. PICK s \in {"none", "insert", "done"} :
        /\ step' = [step EXCEPT ![t] = s]
        /\ UNCHANGED <<requestStatus, results, marking>>
        /\ \/ s = "insert" /\ Take(t) /\ UNCHANGED <<rows, failures>>
           \/ s = "done" /\ step[t] = "insert" /\ Store(t) /\ UNCHANGED <<busVars, failures>>
           \/ s = "none" /\ step[t] = "insert" /\ HandlerRaises(t)
                /\ failures' = failures + 1 /\ failures < MaxFailures
                /\ (UNCHANGED rows \/ Store(t))
           \/ s = "none" /\ step[t] = "done" /\ HandlerReturns(t) /\ UNCHANGED <<rows, failures>>
  <2>1. CASE BeginRecord(t)
    BY <2>1 DEF BeginRecord, Goto
  <2>2. CASE FinishRecord(t)
    BY <2>2 DEF FinishRecord, Finish, Goto
  <2>3. CASE Record(t)
    BY <2>3 DEF Record, Fail, Raise, Goto
  <2> QED
    BY <2>1, <2>2, <2>3
<1>2. /\ \A u \in Tasks \ {t} :
           step'[u] = step[u] /\ cur'[u] = cur[u] /\ phase'[u] = phase[u]
      /\ status' = status /\ deadLettered' = deadLettered
      /\ step'[t] # "none" <=> phase'[t] = "handling"
  BY <1>0, <1>1 DEF Take, HandlerReturns, HandlerRaises, busVars, BusTypeOK
<1>3. /\ rows \subseteq rows' /\ rows' \subseteq rows \cup {MsgId[cur[t].msg]}
      /\ rows' # rows => phase[t] = "handling"
      /\ failures' \in 0..MaxFailures
  BY <1>0, <1>1 DEF Store
<1>4. PipelineTypeOK'
  <2>1. rows' \subseteq Keys
    BY <1>0, <1>3, Consumers
  <2> QED
    BY <1>0, <1>1, <1>2, <1>3, <2>1 DEF Keys
<1>5. DeadLettersAreFailures'
  BY <1>2, NoNewDeadLetter
<1>6. RowsHaveFailures'
  <2>1. CASE rows' = rows
    BY <1>2, <2>1, RowsKeepFailures
  <2>2. CASE rows' # rows
    <3>1. MadeOfFailure(cur[t].msg)
      BY <1>0, <1>3, <2>2, Consumers
    <3>2. PICK m \in deadLettered \cap DOMAIN DeadLetterOf : DeadLetterOf[m] = cur[t].msg
      BY <3>1 DEF MadeOfFailure
    <3> QED
      BY <1>2, <1>3, <3>2 DEF RowsHaveFailures
  <2> QED
    BY <2>1, <2>2
<1>7. RecordersStored'
  <2> SUFFICES ASSUME NEW u \in Recorders
               PROVE  step'[u] # "update" /\ (step'[u] = "done" => MsgId[cur'[u].msg] \in rows')
    BY DEF RecordersStored
  <2>1. CASE u = t
    BY <1>0, <1>1, <2>1 DEF Store, busVars
  <2>2. CASE u # t
    BY <1>2, <1>3, <2>2 DEF RecordersStored
  <2> QED
    BY <2>1, <2>2
<1>8. HandledStored'
  <2>1. CASE HandlerReturns(t) /\ step[t] = "done" /\ rows' = rows
    <3>1. MsgId[cur[t].msg] \in rows
      BY <2>1 DEF RecordersStored
    <3> QED
      BY <2>1, <3>1 DEF HandlerReturns, HandledStored
  <2>2. CASE handled' = handled
    BY <1>3, <2>2 DEF HandledStored
  <2> QED
    BY <1>1, <2>1, <2>2 DEF Take, HandlerRaises, busVars
<1>9. ResultInv'
  <2>1. Kept /\ OutcomeReported' /\ RowsRefer'
    BY <1>1, SameOutcomes DEF ResultInv, RowsRefer
  <2>2. \/ cur'[t].msg \notin Results
        \/ step'[t] \in {"none", "insert"}
    <3>1. CASE step'[t] = "done"
      BY <1>0, <1>1, <1>2, <3>1, Consumers DEF busVars, BusTypeOK
    <3>2. CASE step'[t] # "done"
      BY <1>0, <1>1, <3>2
    <3> QED
      BY <3>1, <3>2
  <2>3. handled' \cap Results \subseteq handled
    <3>1. CASE HandlerReturns(t)
      BY <1>0, <3>1, Consumers DEF HandlerReturns
    <3>2. CASE handled' = handled
      BY <3>2
    <3> QED
      BY <1>1, <3>1, <3>2 DEF Take, HandlerRaises, busVars
  <2>4. StatementsDone' /\ HandledDone'
    BY <1>2, <2>1, <2>2, <2>3, KeptStep
  <2> QED
    BY <1>4, <2>1, <2>4 DEF ResultInv
<1> QED
  BY <1>4, <1>5, <1>6, <1>7, <1>8, <1>9

\* handle_message stores the dead letter of an event it gives up.
LEMMA GivingUpStep ==
    ASSUME PipelineInv, NEW t \in Tasks, DeadLetter(t) \/ DeadLetterFails(t)
    PROVE  DeadLettersAreFailures'
<1> DEFINE m == cur[t].msg
<1>1. /\ deadLettered \subseteq deadLettered'
      /\ \/ status' = status
         \/ m \in deadLettered' /\ StoreDeadLetter(m)
  BY DEF DeadLetter, DeadLetterFails
<1>2. CASE status' = status
  BY <1>1, <1>2, NoNewDeadLetter
<1>3. CASE /\ m \in deadLettered' \cap DOMAIN DeadLetterOf
           /\ status' = [status EXCEPT ![DeadLetterOf[m]] = "due"]
  <2> SUFFICES ASSUME NEW d \in DOMAIN MsgId, status'[d] # "absent"
               PROVE  MadeOfFailure(d)'
    BY DEF DeadLettersAreFailures
  <2>1. CASE d = DeadLetterOf[m]
    BY <1>3, <2>1 DEF MadeOfFailure
  <2>2. CASE d # DeadLetterOf[m]
    <3>1. status[d] # "absent"
      BY <1>3, <2>2 DEF PipelineInv, PipelineTypeOK, TypeOK, BusTypeOK
    <3>2. MadeOfFailure(d)
      BY <3>1 DEF PipelineInv, DeadLettersAreFailures
    <3> QED
      BY <1>1, <3>2, FailuresStay
  <2> QED
    BY <2>1, <2>2
<1> QED
  BY <1>1, <1>2, <1>3 DEF StoreDeadLetter

\* The server, and handle_message around its handler.
LEMMA PipelineAroundStep ==
    ASSUME PipelineInv, BusTypeOK', Routed', UNCHANGED <<resultVars, rows, failures>>,
           \/ \E m \in Results : Publish(m)
           \/ \E m \in Messages : Deliver(m) \/ AckWaitExpires(m)
           \/ \E t \in Tasks : CallbackStep(t)
    PROVE  PipelineInv'
<1> USE DEF PipelineInv, PipelineTypeOK, TypeOK, BusTypeOK
<1>1. /\ handled' = handled /\ deadLettered \subseteq deadLettered'
      /\ \A t \in Tasks : /\ phase'[t] = "handling" <=> phase[t] = "handling"
                          /\ phase[t] = "handling" => cur'[t] = cur[t]
  BY DEF Publish, Deliver, AckWaitExpires, CallbackStep, Nak, DeadLetter, DeadLetterFails,
         Ack, BecomeIdle
<1>2. DeadLettersAreFailures'
  <2>1. CASE \E m \in Results : Publish(m)
    BY <1>1, <2>1, NoNewDeadLetter DEF Publish
  <2>2. ASSUME NEW m \in Messages, Deliver(m) \/ AckWaitExpires(m)
        PROVE  DeadLettersAreFailures'
    BY <1>1, <2>2, NoNewDeadLetter DEF Deliver, AckWaitExpires, Requeued
  <2>3. ASSUME NEW t \in Tasks, Nak(t) \/ Ack(t)
        PROVE  DeadLettersAreFailures'
    <3>1. status[cur[t].msg] # "absent"
      BY <2>3 DEF Routed, Nak, Ack
    <3> QED
      BY <1>1, <2>3, <3>1, NoNewDeadLetter DEF Nak, Ack, Requeued
  <2>4. ASSUME NEW t \in Tasks, DeadLetter(t) \/ DeadLetterFails(t)
        PROVE  DeadLettersAreFailures'
    BY <2>4, GivingUpStep
  <2> QED
    BY <2>1, <2>2, <2>3, <2>4 DEF CallbackStep
<1> QED
  BY <1>1, <1>2, AroundPipeline

-----------------------------------------------------------------------------
(* The invariant.                                                          *)

LEMMA PipelineInvInit == PipelineInit => PipelineInv
<1> SUFFICES ASSUME PipelineInit
             PROVE  PipelineInv
  OBVIOUS
<1> USE DEF PipelineInit, Init
<1>1. PipelineTypeOK
  BY BusInitTypes DEF PipelineTypeOK, TypeOK, BusInit
<1>2. Routed /\ DeadLettersAreFailures /\ RowsHaveFailures
  BY DEF BusInit, Routed, DeadLettersAreFailures, RowsHaveFailures
<1>3. RecordersStored /\ HandledStored
  BY DEF BusInit, RecordersStored, HandledStored
<1>4. ResultInv
  BY Init_ResultInv
<1> QED
  BY <1>1, <1>2, <1>3, <1>4 DEF PipelineInv

LEMMA PipelineInvStep == PipelineInv /\ [PipelineNext]_pipelineVars => PipelineInv'
<1> SUFFICES ASSUME PipelineInv, [PipelineNext]_pipelineVars
             PROVE  PipelineInv'
  OBVIOUS
<1>1. BusTypeOK' /\ Routed'
  BY PipelineBusStep, BusTypeStep, RoutedStep DEF PipelineInv, PipelineTypeOK, TypeOK
<1>2. CASE UNCHANGED pipelineVars
  <2>1. UNCHANGED busVars /\ UNCHANGED <<resultVars, rows, failures>>
    BY <1>2 DEF pipelineVars, vars
  <2> QED
    BY <1>1, <2>1, NoNewDeadLetter, AroundPipeline DEF busVars
<1>3. CASE \/ \E m \in Results : Server(Publish(m))
           \/ \E m \in Messages : Server(Deliver(m) \/ AckWaitExpires(m))
  BY <1>1, <1>3, PipelineAroundStep DEF Server
<1>5. ASSUME NEW t \in Tasks, t \in Recorders, RecorderStep(t)
      PROVE  PipelineInv'
  BY <1>1, <1>5, RecordingStep, PipelineAroundStep DEF RecorderStep
<1>6. ASSUME NEW t \in Tasks, t \notin Recorders, TaskStep(t), UNCHANGED <<rows, failures>>
      PROVE  PipelineInv'
  BY <1>1, <1>6, ConsumerStep, PipelineAroundStep DEF TaskStep
<1> QED
  BY <1>2, <1>3, <1>5, <1>6 DEF PipelineNext, Step

\* The tables keep their types: in particular every stored key is that of a
\* dead letter, and no result is written by the recorder of dead letters.
THEOREM PipelineTypeCorrect == PipelineSpec => []PipelineTypeOK
<1>1. PipelineInv => PipelineTypeOK
  BY DEF PipelineInv
<1> QED
  BY <1>1, PipelineInvInit, PipelineInvStep, PTL DEF PipelineSpec

\* dead_letter_events lists failures and nothing else, and an acknowledged
\* dead letter is listed or has itself been dead-lettered: a failing
\* recorder hides no failure.
THEOREM RowsFromFailures == PipelineSpec => []RowsAreFailures
<1>1. PipelineInv /\ AckedIsSettled => RowsAreFailures
  <2> SUFFICES ASSUME PipelineInv, AckedIsSettled, NEW d \in DOMAIN MsgId,
                      status[d] = "acked", d \notin deadLettered
               PROVE  MsgId[d] \in rows
    BY DEF RowsAreFailures, PipelineInv, RowsHaveFailures
  <2>1. d \in handled \ Results
    BY DEF AckedIsSettled, Settled
  <2> QED
    BY <2>1 DEF PipelineInv, HandledStored
<1>2. PipelineSpec => []AckedIsSettled
  BY PipelineUsesBus, AckedSettled, PTL
<1> QED
  BY <1>1, <1>2, PipelineInvInit, PipelineInvStep, PTL DEF PipelineSpec

-----------------------------------------------------------------------------
(* The results of the pipeline.                                            *)

\* The recorder of dead letters shares the bus and the retry limit with the
\* result consumers, yet an acknowledged result that was not dead-lettered
\* is stored and shown, however the statements of either fail.
THEOREM PipelineRecords == PipelineSpec => []AckedIsRecorded
<1>1. PipelineInv /\ AckedIsSettled => AckedIsRecorded
  BY DEF PipelineInv, ResultInv, HandledDone, Done, Shown, AckedIsSettled,
         AckedIsRecorded, Settled
<1>2. PipelineSpec => []AckedIsSettled
  BY PipelineUsesBus, AckedSettled, PTL
<1> QED
  BY <1>1, <1>2, PipelineInvInit, PipelineInvStep, PTL DEF PipelineSpec

\* Dead letters show no outcome: if the executor's keys tell results apart,
\* every outcome of a request is that of a row of this request.
THEOREM PipelineOutcomes == KeysTellResults => (PipelineSpec => []OutcomeHasResult)
<1> SUFFICES ASSUME KeysTellResults
             PROVE  PipelineSpec => []OutcomeHasResult
  OBVIOUS
<1>1. PipelineInv => OutcomeHasResult
  BY ReportIsRow, ResultTypes DEF PipelineInv, ResultInv
<1> QED
  BY <1>1, PipelineInvInit, PipelineInvStep, PTL DEF PipelineSpec

-----------------------------------------------------------------------------
(* Every event of the pipeline is accounted for.                           *)

\* The key of a result or of a dead letter has its row.
InTable(e) == IF e \in Results THEN KeyStored(e) ELSE MsgId[e] \in rows

\* Event e was given up, and if its dead letters are followed, one with the
\* key of its own is in the stream.
GivenUp(e) ==
    /\ e \in deadLettered
    /\ e \in DOMAIN DeadLetterOf => Duplicate(DeadLetterOf[e])

\* A published event is in its table, given up, or still in work: the server
\* has it, or its last delivery is in some task's hands.
EventsAccounted ==
    \A e \in Messages :
        \/ status[e] \in {"absent", "due", "outstanding"}
        \/ InTable(e)
        \/ GivenUp(e)
        \/ InHand(e, MaxDeliver)

\* The safety behind EventuallyRecorded: as long as workers live and dead
\* letters are stored, an event that nobody works on any more is in the table
\* it was meant for, or a dead letter with its key is in the stream, although
\* the stream drops the second one of a key.
THEOREM NothingUnaccounted == Dependable => (PipelineSpec => []EventsAccounted)
<1> SUFFICES ASSUME Dependable
             PROVE  PipelineSpec => []EventsAccounted
  OBVIOUS
<1>1. PipelineInv /\ AckedIsSettled /\ NoSilentLoss /\ DeadLettersSent => EventsAccounted
  <2> SUFFICES ASSUME PipelineInv, AckedIsSettled, NoSilentLoss, DeadLettersSent,
                      NEW e \in Messages, status[e] \in {"acked", "spent"},
                      e \notin deadLettered, ~InHand(e, MaxDeliver)
               PROVE  InTable(e)
    BY DEF PipelineInv, PipelineTypeOK, TypeOK, BusTypeOK, Statuses, EventsAccounted,
           DeadLettersSent, GivenUp
  <2>1. e \in handled
    BY DEF AckedIsSettled, NoSilentLoss, Settled
  <2> QED
    BY <2>1 DEF PipelineInv, ResultInv, HandledDone, Done, HandledStored, InTable
<1>2. PipelineSpec => []AckedIsSettled
  BY PipelineUsesBus, AckedSettled, PTL
<1>3. PipelineSpec => []NoSilentLoss
  BY PipelineLosesNothing
<1>4. PipelineSpec => []DeadLettersSent
  BY PipelineUsesBus, DeadLettersAreSent, PTL
<1> QED
  BY <1>1, <1>2, <1>3, <1>4, PipelineInvInit, PipelineInvStep, PTL DEF PipelineSpec
==============================================================================

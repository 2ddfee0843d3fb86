-------------------------- MODULE ExecutionResults --------------------------
(***************************************************************************)
(* How execution results reach the database: one durable consumer per      *)
(* result subject (accepted, rejected, filled, failed), all with the same  *)
(* handler, write the result rows and the status of the request they       *)
(* answer, while the copy engine's trade handler may still be about to     *)
(* mark that request PUBLISHED.                                            *)
(*                                                                         *)
(* record() runs two statements on one connection, outside a transaction.  *)
(* Failures beside those of EventBus: "db_refused" and "db_unanswered", a  *)
(* statement that raises before or after having run.                       *)
(***************************************************************************)
EXTENDS EventBus

CONSTANTS Results,      \* the result events among Messages
          Requests,     \* ids of published execution requests
          Recorded,     \* those whose row exists; a retried publish has none
          ResultKeys,   \* idempotency keys of results
          RequestOf,    \* RequestOf[m]: the request result event m answers
          StatusOf,     \* StatusOf[m]: the status it reports
          ResultKey     \* ResultKey[m]: its idempotency key

Outcomes == {"ACCEPTED", "REJECTED", "FILLED", "FAILED"}

ASSUME ResultAssumption ==
    /\ Results \subseteq Messages
    /\ Recorded \subseteq Requests
    /\ RequestOf \in [Results -> Requests]
    /\ StatusOf \in [Results -> Outcomes]
    /\ ResultKey \in [Results -> ResultKeys]

VARIABLES
    requestStatus,  \* request_status of each recorded request
    results,        \* copy_execution_results: the results with a row
    marking,        \* requests whose mark_published has not run yet
    step            \* the handler's next statement in each task

resultVars == <<requestStatus, results, marking, step>>
vars == <<busVars, resultVars>>

TypeOK ==
    /\ BusTypeOK
    /\ requestStatus \in [Recorded -> {"REQUESTED", "PUBLISHED"} \cup Outcomes]
    /\ results \subseteq Results
    /\ marking \subseteq Recorded
    /\ step \in [Tasks -> {"none", "insert", "update", "done"}]
    /\ \A t \in Tasks : step[t] # "none" <=> phase[t] = "handling"

\* The requests are in the stream; their rows say REQUESTED.
Init ==
    /\ BusInit
    /\ requestStatus = [q \in Recorded |-> "REQUESTED"]
    /\ results = {}
    /\ marking = Recorded
    /\ step = [t \in Tasks |-> "none"]

Goto(t, s) == step' = [step EXCEPT ![t] = s]

RaiseInPlace(t) == HandlerRaises(t) /\ UNCHANGED step

Raise(t) == HandlerRaises(t) /\ Goto(t, "none")

\* One statement: its effect and the next step, or an exception.
Statement(t, Effect, next) ==
    \/ Effect /\ Goto(t, next) /\ UNCHANGED busVars
    \/ "db_refused" \in Faults /\ UNCHANGED <<requestStatus, results>> /\ Raise(t)
    \/ "db_unanswered" \in Faults /\ Effect /\ Raise(t)

Begin(t) ==
    /\ Take(t)
    /\ Goto(t, "insert")
    /\ UNCHANGED <<requestStatus, results, marking>>

\* The row with the key of m is there, from m or from another result.
KeyStored(m) == \E n \in results : ResultKey[n] = ResultKey[m]

AlreadyStored(t) == KeyStored(cur[t].msg)
HasRow(t) == RequestOf[cur[t].msg] \in Recorded

StoreResult(m) ==
    /\ results' = IF KeyStored(m) THEN results ELSE results \cup {m}
    /\ UNCHANGED requestStatus

InsertThenSkipDuplicate(t) ==
    /\ step[t] = "insert"
    /\ HasRow(t) \/ AlreadyStored(t)
    /\ Statement(t, StoreResult(cur[t].msg), IF AlreadyStored(t) THEN "done" ELSE "update")
    /\ UNCHANGED marking

InsertErrorsIgnored(t) ==
    /\ step[t] = "insert"
    /\ StoreResult(cur[t].msg) \/ UNCHANGED <<results, requestStatus>>
    /\ Goto(t, "update")
    /\ UNCHANGED <<busVars, marking>>

\* INSERT ... ON CONFLICT (idempotency_key) DO NOTHING.
Insert(t) ==
    /\ step[t] = "insert"
    /\ HasRow(t) \/ AlreadyStored(t)
    /\ Statement(t, StoreResult(cur[t].msg), "update")
    /\ UNCHANGED marking

\* The new result of a request without a row breaks the foreign key.
ForeignKeyFails(t) ==
    /\ step[t] = "insert"
    /\ ~HasRow(t) /\ ~AlreadyStored(t)
    /\ Raise(t)
    /\ UNCHANGED <<requestStatus, results, marking>>

UpdateStatus(q, s) ==
    requestStatus' = IF q \in Recorded
                     THEN [requestStatus EXCEPT ![q] = s] ELSE requestStatus

\* UPDATE ... SET request_status = $2 WHERE id = $1, whatever it was before.
Update(t) ==
    /\ step[t] = "update"
    /\ Statement(t,
         UpdateStatus(RequestOf[cur[t].msg], StatusOf[cur[t].msg]) /\ UNCHANGED results,
         "done")
    /\ UNCHANGED marking

Finish(t) ==
    /\ step[t] = "done"
    /\ HandlerReturns(t)
    /\ Goto(t, "none")
    /\ UNCHANGED <<requestStatus, results, marking>>

MarkUnguarded(q) ==
    /\ q \in marking
    /\ marking' = marking \ {q}
    /\ requestStatus' = [requestStatus EXCEPT ![q] = "PUBLISHED"]
    /\ UNCHANGED <<busVars, results, step>>

\* The trade handler's mark_published, which may come after any result.
MarkPublished(q) ==
    /\ q \in marking
    /\ marking' = marking \ {q}
    /\ requestStatus' = IF requestStatus[q] = "REQUESTED"
                        THEN [requestStatus EXCEPT ![q] = "PUBLISHED"]
                        ELSE requestStatus
    /\ UNCHANGED <<busVars, results, step>>

\* A crash takes the pending marks of the process with it.
ResultCrash(p) ==
    /\ Crash(p)
    /\ step' = [t \in Tasks |-> IF Host[t] = p THEN "none" ELSE step[t]]
    /\ marking' = {}
    /\ UNCHANGED <<requestStatus, results>>

HandlerStep(t) == Insert(t) \/ ForeignKeyFails(t) \/ Update(t) \/ Finish(t)

TaskStep(t) ==
    \/ Begin(t)
    \/ HandlerStep(t)
    \/ CallbackStep(t) /\ UNCHANGED resultVars

Next ==
    \/ ServerNext /\ UNCHANGED resultVars
    \/ \E t \in Tasks : TaskStep(t)
    \/ \E q \in Recorded : MarkPublished(q)
    \/ \E p \in Processes : ResultCrash(p)

Spec == Init /\ [][Next]_vars

-----------------------------------------------------------------------------
(* Properties.                                                             *)

\* Every acknowledged result has a row with its key and has been written to
\* its request, if that is recorded, though the two statements are not one
\* transaction, unless it is dead-lettered.
AckedIsRecorded ==
    \A m \in Results :
        status[m] = "acked" /\ m \notin deadLettered =>
            /\ KeyStored(m)
            /\ RequestOf[m] \in Recorded => requestStatus[RequestOf[m]] \in Outcomes

\* Results of recorded requests that differ in request or status differ in
\* key.  Keys are the executor's, which is not in the repository; a second
\* result of one key is dropped by the INSERT while the UPDATE shows its
\* status.
KeysTellResults ==
    \A m, n \in Results :
        ResultKey[m] = ResultKey[n] /\ {RequestOf[m], RequestOf[n]} \subseteq Recorded =>
            RequestOf[m] = RequestOf[n] /\ StatusOf[m] = StatusOf[n]

\* A request never shows an outcome for which no row of
\* copy_execution_results has this request and this status, if the executor
\* gives such keys (KeysTellResults, of which the run's are an instance).
OutcomeHasResult ==
    \A q \in Recorded :
        requestStatus[q] \in Outcomes =>
            \E m \in results : RequestOf[m] = q /\ StatusOf[m] = requestStatus[q]

\* mark_published never hides an outcome that was faster.
OutcomeIsNotUnmarked ==
    [][\A q \in Recorded :
         requestStatus[q] \in Outcomes => requestStatus'[q] \in Outcomes]_vars
=============================================================================

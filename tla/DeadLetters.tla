----------------------------- MODULE DeadLetters -----------------------------
(***************************************************************************)
(* From a result event to the operators' list of dead letters: the result  *)
(* consumers, the dead letters handle_message publishes for them, and the  *)
(* consumer that records dead letters (workers/copy_engine,                *)
(* dead_letters.py), whose own failures are dead-lettered to the subject   *)
(* it consumes.                                                            *)
(*                                                                         *)
(* MaxFailures is a bound: an outage of the database that long.  The code  *)
(* has none; while the database refuses, each dead letter that uses up its *)
(* deliveries leaves another.  mark_published, which touches none of this, *)
(* is left to ExecutionResults.                                            *)
(***************************************************************************)
EXTENDS ExecutionResults

CONSTANTS Recorders,   \* tasks subscribed to the dead-letter subject
          MaxFailures  \* bound: record attempts that fail in one run

ASSUME DeadLetterAssumption ==
    /\ Recorders \subseteq Tasks /\ MaxFailures \in Nat
    /\ DOMAIN MsgId = Messages \ Results
    /\ \A d \in DOMAIN MsgId : Readers[d] \subseteq Recorders
    /\ \A m \in Results : Readers[m] \cap Recorders = {}

VARIABLES rows,     \* dead_letter_events: the keys stored
          failures  \* record attempts that have failed

pipelineVars == <<vars, rows, failures>>

\* The Msg-Id of a dead letter is its idempotency key.
Keys == {MsgId[d] : d \in DOMAIN MsgId}

PipelineTypeOK ==
    /\ TypeOK
    /\ rows \subseteq Keys
    /\ failures \in 0..MaxFailures

PipelineInit == Init /\ rows = {} /\ failures = 0

-----------------------------------------------------------------------------
BeginRecord(t) ==
    /\ Take(t)
    /\ Goto(t, "insert")
    /\ UNCHANGED <<requestStatus, results, marking, rows, failures>>

Store(t) == rows' = rows \cup {MsgId[cur[t].msg]}

Fail(t) ==
    /\ failures < MaxFailures
    /\ failures' = failures + 1
    /\ Raise(t)

RecordErrorsIgnored(t) ==
    /\ step[t] = "insert"
    /\ \/ Store(t) /\ UNCHANGED failures
       \/ failures < MaxFailures /\ failures' = failures + 1 /\ UNCHANGED rows
    /\ Goto(t, "done")
    /\ UNCHANGED <<busVars, requestStatus, results, marking>>

\* INSERT ... ON CONFLICT (idempotency_key) DO NOTHING.
Record(t) ==
    /\ step[t] = "insert"
    /\ \/ Store(t) /\ Goto(t, "done") /\ UNCHANGED <<busVars, failures>>
       \/ "db_refused" \in Faults /\ UNCHANGED rows /\ Fail(t)
       \/ "db_unanswered" \in Faults /\ Store(t) /\ Fail(t)
    /\ UNCHANGED <<requestStatus, results, marking>>

FinishRecord(t) == Finish(t) /\ UNCHANGED <<rows, failures>>

RecorderStep(t) ==
    \/ BeginRecord(t)
    \/ Record(t)
    \/ FinishRecord(t)
    \/ CallbackStep(t) /\ UNCHANGED <<resultVars, rows, failures>>

Server(A) == A /\ UNCHANGED <<resultVars, rows, failures>>

Step(t) ==
    IF t \in Recorders THEN RecorderStep(t)
                       ELSE TaskStep(t) /\ UNCHANGED <<rows, failures>>

PipelineNext ==
    \/ \E m \in Results : Server(Publish(m))
    \/ \E m \in Messages : Server(Deliver(m) \/ AckWaitExpires(m))
    \/ \E t \in Tasks : Step(t)

PipelineFairness ==
    /\ \A m \in Messages :
         /\ WF_pipelineVars(Server(Deliver(m)))
         /\ WF_pipelineVars(Server(AckWaitExpires(m)))
    /\ \A t \in Tasks : WF_pipelineVars(Step(t))

PipelineSpec == PipelineInit /\ [][PipelineNext]_pipelineVars /\ PipelineFairness

-----------------------------------------------------------------------------
(* Properties.                                                             *)

\* A row is the key of an event that was given up, and an acknowledged dead
\* letter has its row or a dead letter of its own.
RowsAreFailures ==
    /\ rows \subseteq {MsgId[DeadLetterOf[m]] : m \in deadLettered \cap DOMAIN DeadLetterOf}
    /\ \A d \in DOMAIN MsgId :
         status[d] = "acked" => MsgId[d] \in rows \/ d \in deadLettered

\* The key of m's dead letter is listed, or that of its own dead letter.
Listed(m) ==
    \/ m \in DOMAIN DeadLetterOf /\ MsgId[DeadLetterOf[m]] \in rows
    \/ /\ m \in DOMAIN DeadLetterOf
       /\ DeadLetterOf[m] \in DOMAIN DeadLetterOf
       /\ MsgId[DeadLetterOf[DeadLetterOf[m]]] \in rows

\* A published result ends up in its table, or its key in the operators'
\* list, although the list fills from the database that refuses and a dead
\* letter is published once: one that the stream drops has its key listed by
\* the dead letter it duplicates.
EventuallyRecorded ==
    \A m \in Results : status[m] = "due" ~> KeyStored(m) \/ Listed(m)
==============================================================================

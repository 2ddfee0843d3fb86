------------------------------ MODULE EventBus ------------------------------
(***************************************************************************)
(* One durable JetStream push consumer per subject, as the shared event    *)
(* bus configures it, and handle_message, the callback wrapped around      *)
(* every handler (packages/shared_events, bus.py).                         *)
(*                                                                         *)
(* A task is one subscription callback of one worker process: nats-py      *)
(* awaits it for one delivery after the other, in arrival order.  Every    *)
(* subject has exactly one durable, so the delivery state is kept per      *)
(* message.  Readers[m] has more than one task when an old worker that     *)
(* lost its connection comes back beside its replacement: both are then    *)
(* subscribed to the durable's deliver subject.                            *)
(*                                                                         *)
(* Failures covered, each only when its name is in Faults:                 *)
(*   "crash"          a worker process dies and is restarted               *)
(*   "delivery_lost"  a delivery reaches no reader                         *)
(*   "ack_lost"       an ack or a nak does not reach the server            *)
(*   "dlq_lost"       publishing the dead letter raises, nothing stored    *)
(*   "dlq_ambiguous"  publishing the dead letter raises, but it is stored  *)
(*   "dedupe_expiry"  the stream's 120 s duplicate window passes           *)
(* A handler may always raise, and an acknowledgement may always be late.  *)
(***************************************************************************)
EXTENDS Naturals, Sequences

CONSTANTS Messages,    \* events that may be published
          Tasks,       \* subscription callbacks
          Processes,   \* worker processes
          Host,        \* Host[t]: the process task t runs in
          Readers,     \* Readers[m]: the tasks subscribed to m's subject
          MaxDeliver,  \* EventRetryPolicy.max_deliver
          DeadLetterOf,\* DeadLetterOf[m]: the event a dead letter of m becomes,
                       \* for those m whose dead letters a module follows
          MsgId,       \* MsgId[d]: the Nats-Msg-Id of dead letter d
          Faults       \* the failures that may happen

ASSUME BusAssumption ==
    /\ Host \in [Tasks -> Processes]
    /\ Readers \in [Messages -> SUBSET Tasks]
    /\ MaxDeliver \in Nat \ {0}
    /\ DOMAIN MsgId \subseteq Messages
    /\ \A m \in DOMAIN DeadLetterOf : DeadLetterOf[m] \in DOMAIN MsgId

Deliveries == [msg : Messages, attempt : 1..MaxDeliver]
NoDelivery == [msg |-> "none", attempt |-> 0]

VARIABLES
    status,        \* what the server knows of each message
    delivered,     \* how often the server has delivered each message
    inbox,         \* deliveries queued in each subscription
    phase,         \* where handle_message is in each task
    cur,           \* the delivery each busy task works on
    handled,       \* history: messages for which a handler call returned
    deadLettered   \* messages whose dead letter the stream has accepted

busVars == <<status, delivered, inbox, phase, cur, handled, deadLettered>>

Statuses == {"absent", "due", "outstanding", "acked", "spent"}
Phases   == {"idle", "handling", "failed", "acking"}

BusTypeOK ==
    /\ status \in [Messages -> Statuses]
    /\ delivered \in [Messages -> 0..MaxDeliver]
    /\ inbox \in [Tasks -> Seq(Deliveries)]
    /\ phase \in [Tasks -> Phases]
    /\ cur \in [Tasks -> Deliveries \cup {NoDelivery}]
    /\ handled \subseteq Messages
    /\ deadLettered \subseteq Messages
    /\ \A t \in Tasks : phase[t] # "idle" => cur[t] \in Deliveries

BusInit ==
    /\ status = [m \in Messages |-> "absent"]
    /\ delivered = [m \in Messages |-> 0]
    /\ inbox = [t \in Tasks |-> << >>]
    /\ phase = [t \in Tasks |-> "idle"]
    /\ cur = [t \in Tasks |-> NoDelivery]
    /\ handled = {}
    /\ deadLettered = {}

-----------------------------------------------------------------------------
(* The server.                                                             *)

\* publish_json stores the event in the stream.
Publish(m) ==
    /\ status[m] = "absent"
    /\ status' = [status EXCEPT ![m] = "due"]
    /\ UNCHANGED <<delivered, inbox, phase, cur, handled, deadLettered>>

\* The server pushes a due message to the readers connected at that moment.
Deliver(m) ==
    /\ status[m] = "due"
    /\ delivered[m] < MaxDeliver
    /\ \E R \in SUBSET Readers[m] :
         /\ R # {} \/ "delivery_lost" \in Faults
         /\ inbox' = [t \in Tasks |->
              IF t \in R
              THEN Append(inbox[t], [msg |-> m, attempt |-> delivered[m] + 1])
              ELSE inbox[t]]
    /\ status' = [status EXCEPT ![m] = "outstanding"]
    /\ delivered' = [delivered EXCEPT ![m] = @ + 1]
    /\ UNCHANGED <<phase, cur, handled, deadLettered>>

\* An unacknowledged message is redelivered until max_deliver is used up.
Requeued(m) ==
    [status EXCEPT ![m] = IF delivered[m] < MaxDeliver THEN "due" ELSE "spent"]

\* ack_wait passes without an acknowledgement.
AckWaitExpires(m) ==
    /\ status[m] = "outstanding"
    /\ status' = Requeued(m)
    /\ UNCHANGED <<delivered, inbox, phase, cur, handled, deadLettered>>

-----------------------------------------------------------------------------
(* handle_message, in task t.                                              *)

Take(t) ==
    /\ phase[t] = "idle"
    /\ inbox[t] # << >>
    /\ phase' = [phase EXCEPT ![t] = "handling"]
    /\ cur' = [cur EXCEPT ![t] = Head(inbox[t])]
    /\ inbox' = [inbox EXCEPT ![t] = Tail(@)]
    /\ UNCHANGED <<status, delivered, handled, deadLettered>>

HandlerReturns(t) ==
    /\ phase[t] = "handling"
    /\ phase' = [phase EXCEPT ![t] = "acking"]
    /\ handled' = handled \cup {cur[t].msg}
    /\ UNCHANGED <<status, delivered, inbox, cur, deadLettered>>

HandlerRaises(t) ==
    /\ phase[t] = "handling"
    /\ phase' = [phase EXCEPT ![t] = "failed"]
    /\ UNCHANGED <<status, delivered, inbox, cur, handled, deadLettered>>

\* The callback is over: the task waits for its next delivery.
BecomeIdle(t) ==
    /\ phase' = [phase EXCEPT ![t] = "idle"]
    /\ cur' = [cur EXCEPT ![t] = NoDelivery]

IsLastAttemptOffByOne(t) == cur[t].attempt + 1 >= MaxDeliver

IsLastAttemptTooLate(t) == cur[t].attempt > MaxDeliver

IsLastAttempt(t) == cur[t].attempt >= MaxDeliver

\* Not the last attempt: nak, which the server may never see.
Nak(t) ==
    /\ phase[t] = "failed"
    /\ ~IsLastAttempt(t)
    /\ BecomeIdle(t)
    /\ \/ status' = IF status[cur[t].msg] = "outstanding"
                    THEN Requeued(cur[t].msg) ELSE status
       \/ "ack_lost" \in Faults /\ UNCHANGED status
    /\ UNCHANGED <<delivered, inbox, handled, deadLettered>>

\* The stream has, or had in the duplicate window, a dead letter with the
\* Msg-Id of d.
Duplicate(d) == \E e \in DOMAIN MsgId : MsgId[e] = MsgId[d] /\ status[e] # "absent"

\* The one publish of m's dead letter: the stream stores a new event, or
\* drops a duplicate for good.
StoreDeadLetter(m) ==
    \/ /\ m \in DOMAIN DeadLetterOf
       /\ status[DeadLetterOf[m]] = "absent"
       /\ ~Duplicate(DeadLetterOf[m]) \/ "dedupe_expiry" \in Faults
       /\ status' = [status EXCEPT ![DeadLetterOf[m]] = "due"]
    \/ /\ m \in DOMAIN DeadLetterOf => Duplicate(DeadLetterOf[m])
       /\ UNCHANGED status

\* The last attempt failed: publish a dead letter, then acknowledge.
DeadLetter(t) ==
    /\ phase[t] = "failed"
    /\ IsLastAttempt(t)
    /\ StoreDeadLetter(cur[t].msg)
    /\ deadLettered' = deadLettered \cup {cur[t].msg}
    /\ phase' = [phase EXCEPT ![t] = "acking"]
    /\ UNCHANGED <<delivered, inbox, cur, handled>>

DeadLetterFailsSwallowed(t) ==
    /\ phase[t] = "failed"
    /\ IsLastAttempt(t)
    /\ "dlq_lost" \in Faults
    /\ phase' = [phase EXCEPT ![t] = "acking"]
    /\ UNCHANGED <<status, delivered, inbox, cur, handled, deadLettered>>

\* Publishing the dead letter raises out of the callback: neither ack nor nak.
DeadLetterFails(t) ==
    /\ phase[t] = "failed"
    /\ IsLastAttempt(t)
    /\ \/ "dlq_lost" \in Faults /\ UNCHANGED <<status, deadLettered>>
       \/ /\ "dlq_ambiguous" \in Faults
          /\ StoreDeadLetter(cur[t].msg)
          /\ deadLettered' = deadLettered \cup {cur[t].msg}
    /\ BecomeIdle(t)
    /\ UNCHANGED <<delivered, inbox, handled>>

\* An ack of any delivery settles the message, even one the server has
\* queued again or given up.
Ack(t) ==
    /\ phase[t] = "acking"
    /\ BecomeIdle(t)
    /\ \/ status' = [status EXCEPT ![cur[t].msg] = "acked"]
       \/ "ack_lost" \in Faults /\ UNCHANGED status
    /\ UNCHANGED <<delivered, inbox, handled, deadLettered>>

\* A process dies with everything its tasks hold in memory; the restarted
\* process subscribes to the same durables.
Crash(p) ==
    /\ "crash" \in Faults
    /\ inbox' = [t \in Tasks |-> IF Host[t] = p THEN << >> ELSE inbox[t]]
    /\ phase' = [t \in Tasks |-> IF Host[t] = p THEN "idle" ELSE phase[t]]
    /\ cur' = [t \in Tasks |-> IF Host[t] = p THEN NoDelivery ELSE cur[t]]
    /\ UNCHANGED <<status, delivered, handled, deadLettered>>

-----------------------------------------------------------------------------

ServerNext == \E m \in Messages : Publish(m) \/ Deliver(m) \/ AckWaitExpires(m)

\* What a task does around its handler.
CallbackStep(t) == Nak(t) \/ DeadLetter(t) \/ DeadLetterFails(t) \/ Ack(t)

BusNext ==
    \/ ServerNext
    \/ \E t \in Tasks :
         Take(t) \/ HandlerReturns(t) \/ HandlerRaises(t) \/ CallbackStep(t)
    \/ \E p \in Processes : Crash(p)

BusSpec == BusInit /\ [][BusNext]_busVars

-----------------------------------------------------------------------------
(* Properties.                                                             *)

Settled(m) == m \in handled \cup deadLettered

\* The delivery [msg |-> m, attempt |-> a] is still in some task's hands.
InHand(m, a) ==
    LET d == [msg |-> m, attempt |-> a] IN
    \E t \in Tasks :
        \/ phase[t] # "idle" /\ cur[t] = d
        \/ \E i \in DOMAIN inbox[t] : inbox[t][i] = d

\* handle_message acknowledges an event only after its handler returned or
\* its dead letter was stored: no event leaves the consumer unnoticed.
AckedIsSettled == \A m \in Messages : status[m] = "acked" => Settled(m)

\* maybe_dead_letter_message waits for the last permitted delivery: a
\* passing failure never turns into a dead letter.
DeadLetterOnlyAtLimit ==
    \A m \in deadLettered : delivered[m] = MaxDeliver

\* A message the server will not deliver again has been handled or
\* dead-lettered, or its last delivery is still being worked on.
NoSilentLoss ==
    \A m \in Messages :
        status[m] = "spent" => Settled(m) \/ InHand(m, MaxDeliver)

\* How far the server is with each event, as EventDelivery tells it.
Stage ==
    [m \in Messages |-> CASE status[m] = "absent" -> "unsent"
                          [] status[m] = "acked" -> "closed"
                          [] OTHER -> "open"]

Delivery == INSTANCE EventDelivery
            WITH Events <- Messages, Limit <- MaxDeliver, stage <- Stage,
                 tries <- delivered, givenUp <- deadLettered

\* At least once, at most max_deliver times, and no more once acknowledged:
\* late deliveries, naks and acks of other tries open no closed event again.
KeepsDelivery == Delivery!DeliverySpec
=============================================================================

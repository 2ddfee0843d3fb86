--------------------------- MODULE EventBusProofs ---------------------------
(* What holds of the bus for any messages, readers and retry limit.        *)
EXTENDS EventBus, TLAPS, SequenceTheorems

USE BusAssumption DEF BusAssumption

\* A busy task works on a delivery of some message.
LEMMA CurrentDelivery ==
    ASSUME BusTypeOK, NEW t \in Tasks, phase[t] # "idle"
    PROVE  /\ cur[t] \in Deliveries
           /\ cur[t].msg \in Messages
           /\ cur[t].attempt \in 1..MaxDeliver
<1>1. cur[t] \in Deliveries
  BY DEF BusTypeOK
<1> QED
  BY <1>1 DEF Deliveries

\* What Deliver does to the subscriptions, each of them growing by one
\* delivery or staying as it is.
LEMMA DeliverEffect ==
    ASSUME NEW m \in Messages, BusTypeOK, Deliver(m)
    PROVE  LET d == [msg |-> m, attempt |-> delivered[m] + 1] IN
           /\ d \in Deliveries
           /\ \E R \in SUBSET Readers[m] :
                /\ R # {} \/ "delivery_lost" \in Faults
                /\ inbox' = [t \in Tasks |->
                     IF t \in R THEN Append(inbox[t], d) ELSE inbox[t]]
<1>1. delivered[m] + 1 \in 1..MaxDeliver
  BY DEF BusTypeOK, Deliver
<1> QED
  BY <1>1 DEF Deliver, Deliveries

\* Publishing a dead letter makes an absent event due or changes nothing.
LEMMA StoredDeadLetter ==
    ASSUME BusTypeOK, NEW m \in Messages, StoreDeadLetter(m)
    PROVE  \/ status' = status
           \/ \E d \in Messages :
                status[d] = "absent" /\ status' = [status EXCEPT ![d] = "due"]
BY DEF StoreDeadLetter

\* A task whose last attempt failed works on a message, which stays as it is
\* unless it is absent; the server's status changes as StoredDeadLetter says.
LEMMA DeadLetterStatus ==
    ASSUME BusTypeOK, NEW t \in Tasks, DeadLetter(t) \/ DeadLetterFails(t)
    PROVE  \/ status' = status
           \/ \E d \in Messages :
                status[d] = "absent" /\ status' = [status EXCEPT ![d] = "due"]
BY CurrentDelivery, StoredDeadLetter DEF DeadLetter, DeadLetterFails

\* Every variable of the bus keeps its type.
LEMMA BusTypeStep == BusTypeOK /\ [BusNext]_busVars => BusTypeOK'
<1> SUFFICES ASSUME BusTypeOK, [BusNext]_busVars
             PROVE  BusTypeOK'
  OBVIOUS
<1> USE DEF BusTypeOK, Statuses, Phases
<1>1. ASSUME NEW m \in Messages, Publish(m)
      PROVE  BusTypeOK'
  BY <1>1 DEF Publish
<1>2. ASSUME NEW m \in Messages, Deliver(m)
      PROVE  BusTypeOK'
  <2>1. delivered' \in [Messages -> 0..MaxDeliver] /\ status' \in [Messages -> Statuses]
    BY <1>2 DEF Deliver
  <2> DEFINE d == [msg |-> m, attempt |-> delivered[m] + 1]
  <2>2. d \in Deliveries
    BY <1>2, DeliverEffect
  <2>3. PICK R \in SUBSET Readers[m] :
          inbox' = [t \in Tasks |->
            IF t \in R THEN Append(inbox[t], d) ELSE inbox[t]]
    BY <1>2 DEF Deliver
  <2> HIDE DEF d
  <2>4. inbox' \in [Tasks -> Seq(Deliveries)]
    BY <2>2, <2>3
  <2> QED
    BY <1>2, <2>1, <2>4 DEF Deliver
<1>3. ASSUME NEW m \in Messages, AckWaitExpires(m)
      PROVE  BusTypeOK'
  BY <1>3 DEF AckWaitExpires, Requeued
<1>4. ASSUME NEW t \in Tasks, Take(t)
      PROVE  BusTypeOK'
  <2>1. Head(inbox[t]) \in Deliveries /\ Tail(inbox[t]) \in Seq(Deliveries)
    BY <1>4, HeadTailProperties DEF Take
  <2> QED
    BY <1>4, <2>1 DEF Take
<1>5. ASSUME NEW t \in Tasks, HandlerReturns(t) \/ HandlerRaises(t)
      PROVE  BusTypeOK'
  BY <1>5, CurrentDelivery DEF HandlerReturns, HandlerRaises
<1>6. ASSUME NEW t \in Tasks, Nak(t)
      PROVE  BusTypeOK'
  BY <1>6, CurrentDelivery DEF Nak, BecomeIdle, Requeued
<1>7. ASSUME NEW t \in Tasks, DeadLetter(t) \/ DeadLetterFails(t)
      PROVE  BusTypeOK'
  <2>1. status' \in [Messages -> Statuses]
    BY <1>7, DeadLetterStatus
  <2>2. /\ delivered' = delivered /\ inbox' = inbox /\ handled' = handled
        /\ deadLettered' \subseteq Messages
    BY <1>7, CurrentDelivery DEF DeadLetter, DeadLetterFails
  <2>3. /\ phase' \in [Tasks -> Phases]
        /\ cur' \in [Tasks -> Deliveries \cup {NoDelivery}]
        /\ \A u \in Tasks : phase'[u] # "idle" => cur'[u] \in Deliveries
    BY <1>7, CurrentDelivery DEF DeadLetter, DeadLetterFails, BecomeIdle
  <2> QED
    BY <2>1, <2>2, <2>3
<1>8. ASSUME NEW t \in Tasks, Ack(t)
      PROVE  BusTypeOK'
  BY <1>8, CurrentDelivery DEF Ack, BecomeIdle
<1>9. ASSUME NEW p \in Processes, Crash(p)
      PROVE  BusTypeOK'
  BY <1>9, EmptySeq DEF Crash
<1>10. CASE UNCHANGED busVars
  BY <1>10 DEF busVars
<1> QED
  BY <1>1, <1>2, <1>3, <1>4, <1>5, <1>6, <1>7, <1>8, <1>9, <1>10
  DEF BusNext, ServerNext, CallbackStep

\* The bus starts well typed.
LEMMA BusInitTypes == BusInit => BusTypeOK
BY EmptySeq DEF BusInit, BusTypeOK, Statuses, Phases

\* Type correctness of the bus: every variable keeps its type and a busy task
\* always has a delivery to work on.
THEOREM BusTypeCorrect == BusSpec => []BusTypeOK
BY BusInitTypes, BusTypeStep, PTL DEF BusSpec

-----------------------------------------------------------------------------
(* Acknowledgements and dead letters.                                      *)

\* A callback about to acknowledge has a reason to.
AckingIsSettled ==
    \A t \in Tasks : phase[t] = "acking" => Settled(cur[t].msg)

\* No task holds a delivery the server has not counted.
AttemptsCounted ==
    \A t \in Tasks :
        /\ phase[t] # "idle" => cur[t].attempt <= delivered[cur[t].msg]
        /\ \A i \in DOMAIN inbox[t] :
             inbox[t][i].attempt <= delivered[inbox[t][i].msg]

AckInv == AckedIsSettled /\ AckingIsSettled

\* An ack is sent only by a callback in phase "acking", which it enters with
\* the handler's return or the stored dead letter; both sets only grow.
LEMMA AckInvStep == BusTypeOK /\ AckInv /\ [BusNext]_busVars => AckInv'
<1> SUFFICES ASSUME BusTypeOK, AckInv, [BusNext]_busVars
             PROVE  AckInv'
  OBVIOUS
<1> USE DEF BusTypeOK, AckInv, AckedIsSettled, AckingIsSettled, Settled, Statuses, Phases
<1>1. ASSUME NEW m \in Messages, Publish(m) \/ Deliver(m) \/ AckWaitExpires(m)
      PROVE  AckInv'
  BY <1>1 DEF Publish, Deliver, AckWaitExpires, Requeued
<1>2. ASSUME NEW t \in Tasks, Take(t) \/ HandlerReturns(t) \/ HandlerRaises(t)
      PROVE  AckInv'
  BY <1>2, CurrentDelivery DEF Take, HandlerReturns, HandlerRaises
<1>3. ASSUME NEW t \in Tasks, Nak(t)
      PROVE  AckInv'
  BY <1>3, CurrentDelivery DEF Nak, BecomeIdle, Requeued
<1>4. ASSUME NEW t \in Tasks, DeadLetter(t) \/ DeadLetterFails(t)
      PROVE  AckInv'
  <2>1. \A m \in Messages : status'[m] = "acked" => status[m] = "acked"
    BY <1>4, DeadLetterStatus
  <2> QED
    BY <1>4, <2>1, CurrentDelivery DEF DeadLetter, DeadLetterFails, BecomeIdle
<1>5. ASSUME NEW t \in Tasks, Ack(t)
      PROVE  AckInv'
  BY <1>5, CurrentDelivery DEF Ack, BecomeIdle
<1>6. ASSUME NEW p \in Processes, Crash(p)
      PROVE  AckInv'
  BY <1>6 DEF Crash
<1>7. CASE UNCHANGED busVars
  BY <1>7 DEF busVars
<1> QED
  BY <1>1, <1>2, <1>3, <1>4, <1>5, <1>6, <1>7 DEF BusNext, ServerNext, CallbackStep

\* Whatever fails, an event is acknowledged only after its handler returned
\* or its dead letter was stored.
THEOREM AckedSettled == BusSpec => []AckedIsSettled
<1>1. BusInit => AckInv
  BY DEF BusInit, AckInv, AckedIsSettled, AckingIsSettled
<1>2. AckInv => AckedIsSettled
  BY DEF AckInv
<1> QED
  BY <1>1, <1>2, AckInvStep, BusTypeCorrect, PTL DEF BusSpec

LimitInv == AttemptsCounted /\ DeadLetterOnlyAtLimit

\* The count of deliveries never falls and the deliveries in hand are counted.
LEMMA LimitInvStep == BusTypeOK /\ LimitInv /\ [BusNext]_busVars => LimitInv'
<1> SUFFICES ASSUME BusTypeOK, LimitInv, [BusNext]_busVars
             PROVE  LimitInv'
  OBVIOUS
<1> USE DEF BusTypeOK, LimitInv, AttemptsCounted, DeadLetterOnlyAtLimit
<1>1. ASSUME NEW m \in Messages, Publish(m) \/ AckWaitExpires(m)
      PROVE  LimitInv'
  BY <1>1 DEF Publish, AckWaitExpires
<1>2. ASSUME NEW m \in Messages, Deliver(m)
      PROVE  LimitInv'
  <2> DEFINE d == [msg |-> m, attempt |-> delivered[m] + 1]
  <2>1. PICK R \in SUBSET Readers[m] :
          inbox' = [t \in Tasks |->
            IF t \in R THEN Append(inbox[t], d) ELSE inbox[t]]
    BY <1>2 DEF Deliver
  <2>2. /\ delivered' = [delivered EXCEPT ![m] = @ + 1]
        /\ UNCHANGED <<phase, cur, deadLettered>>
        /\ delivered[m] < MaxDeliver
    BY <1>2 DEF Deliver
  <2>3. \A x \in Messages :
          delivered[x] \in Nat /\ delivered'[x] \in Nat /\ delivered[x] <= delivered'[x]
    BY <2>2
  <2>4. DeadLetterOnlyAtLimit'
    BY <2>2
  <2>5. ASSUME NEW t \in Tasks, phase'[t] # "idle"
        PROVE  cur'[t].attempt <= delivered'[cur'[t].msg]
    BY <2>2, <2>3, <2>5, CurrentDelivery
  <2>6. ASSUME NEW t \in Tasks, NEW i \in DOMAIN inbox'[t]
        PROVE  inbox'[t][i].attempt <= delivered'[inbox'[t][i].msg]
    <3>1. inbox[t] \in Seq(Deliveries)
      OBVIOUS
    <3>2. ASSUME i \in DOMAIN inbox[t], inbox'[t][i] = inbox[t][i]
          PROVE  inbox'[t][i].attempt <= delivered'[inbox'[t][i].msg]
      <4>1. inbox[t][i] \in Deliveries
        BY <3>1, <3>2
      <4>2. inbox[t][i].msg \in Messages /\ inbox[t][i].attempt \in Nat
        BY <4>1 DEF Deliveries
      <4>3. inbox[t][i].attempt <= delivered[inbox[t][i].msg]
        BY <3>2
      <4> DEFINE x == inbox[t][i].msg
                 a == inbox[t][i].attempt
      <4>4. delivered[x] \in Nat /\ delivered'[x] \in Nat /\ delivered[x] <= delivered'[x]
        BY <2>3, <4>2
      <4>5. a \in Nat /\ a <= delivered[x]
        BY <4>2, <4>3
      <4>6. a <= delivered'[x]
        <5> HIDE DEF a, x
        <5> QED
          BY <4>4, <4>5
      <4> QED
        BY <3>2, <4>6
    <3>3. ASSUME inbox'[t][i] = d
          PROVE  inbox'[t][i].attempt <= delivered'[inbox'[t][i].msg]
      <4>1. d.msg = m /\ d.attempt = delivered[m] + 1 /\ delivered'[m] = delivered[m] + 1
        BY <2>2
      <4>2. delivered[m] \in Nat
        OBVIOUS
      <4>3. /\ inbox'[t][i].msg = m
            /\ inbox'[t][i].attempt = delivered[m] + 1
        BY <3>3, <4>1 DEF d
      <4> HIDE DEF d, BusTypeOK, LimitInv, AttemptsCounted, DeadLetterOnlyAtLimit
      <4>4. delivered[m] + 1 <= delivered'[m]
        BY <4>1, <4>2
      <4> QED
        BY <4>3, <4>4, Zenon
    <3>4. \/ i \in DOMAIN inbox[t] /\ inbox'[t][i] = inbox[t][i]
          \/ inbox'[t][i] = d
      <4> HIDE DEF d
      <4>1. CASE t \in R
        BY <2>1, <3>1, <4>1, AppendProperties
      <4>2. CASE t \notin R
        BY <2>1, <4>2
      <4> QED
        BY <4>1, <4>2
    <3> QED
      BY <3>2, <3>3, <3>4
  <2> QED
    BY <2>4, <2>5, <2>6
<1>3. ASSUME NEW t \in Tasks, Take(t)
      PROVE  LimitInv'
  <2>1. inbox[t] \in Seq(Deliveries) /\ inbox[t] # << >>
    BY <1>3 DEF Take
  <2>2. /\ Head(inbox[t]) = inbox[t][1]
        /\ 1 \in DOMAIN inbox[t]
        /\ \A i \in DOMAIN Tail(inbox[t]) :
             i + 1 \in DOMAIN inbox[t] /\ Tail(inbox[t])[i] = inbox[t][i + 1]
    BY <2>1, HeadTailProperties
  <2> QED
    BY <1>3, <2>2 DEF Take
<1>4. ASSUME NEW t \in Tasks,
             HandlerReturns(t) \/ HandlerRaises(t) \/ Nak(t) \/ Ack(t)
      PROVE  LimitInv'
  BY <1>4 DEF HandlerReturns, HandlerRaises, Nak, Ack, BecomeIdle
<1>5. ASSUME NEW t \in Tasks, DeadLetter(t) \/ DeadLetterFails(t)
      PROVE  LimitInv'
  <2>1. cur[t].msg \in Messages /\ cur[t].attempt \in 1..MaxDeliver
    BY <1>5, CurrentDelivery DEF DeadLetter, DeadLetterFails
  <2>2. delivered[cur[t].msg] = MaxDeliver
    <3>1. phase[t] = "failed" /\ cur[t].attempt >= MaxDeliver
      BY <1>5 DEF DeadLetter, DeadLetterFails, IsLastAttempt
    <3>2. cur[t].attempt <= delivered[cur[t].msg]
      BY <3>1
    <3>3. delivered[cur[t].msg] \in 0..MaxDeliver
      BY <2>1
    <3> QED
      BY <2>1, <3>1, <3>2, <3>3
  <2> QED
    BY <1>5, <2>2 DEF DeadLetter, DeadLetterFails, BecomeIdle
<1>6. ASSUME NEW p \in Processes, Crash(p)
      PROVE  LimitInv'
  BY <1>6 DEF Crash
<1>7. CASE UNCHANGED busVars
  BY <1>7 DEF busVars
<1> QED
  BY <1>1, <1>2, <1>3, <1>4, <1>5, <1>6, <1>7 DEF BusNext, ServerNext, CallbackStep

\* Whatever fails, a dead letter is written on the last permitted delivery and
\* not before: a passing failure is retried.
THEOREM DeadLetterAtLimit == BusSpec => []DeadLetterOnlyAtLimit
<1>1. BusInit => LimitInv
  BY DEF BusInit, LimitInv, AttemptsCounted, DeadLetterOnlyAtLimit
<1>2. LimitInv => DeadLetterOnlyAtLimit
  BY DEF LimitInv
<1> QED
  BY <1>1, <1>2, LimitInvStep, BusTypeCorrect, PTL DEF BusSpec

-----------------------------------------------------------------------------
(* A task never sees one delivery twice.                                   *)

\* What a step does to the deliveries queued for task t: they stay, the first
\* is taken, all are gone, or a new one is appended.
LEMMA InboxChange ==
    ASSUME BusTypeOK, [BusNext]_busVars, NEW t \in Tasks
    PROVE  \/ \E s \in {0, 1} : \A j \in DOMAIN inbox'[t] :
                j + s \in DOMAIN inbox[t] /\ inbox'[t][j] = inbox[t][j + s]
           \/ \E m \in Messages :
                /\ delivered'[m] = delivered[m] + 1
                /\ \A j \in DOMAIN inbox'[t] :
                     \/ j \in DOMAIN inbox[t] /\ inbox'[t][j] = inbox[t][j]
                     \/ /\ \A i \in DOMAIN inbox'[t] : i <= j
                        /\ inbox'[t][j].msg = m /\ inbox'[t][j].attempt = delivered[m] + 1
<1> USE DEF BusTypeOK
<1>1. CASE inbox'[t] = inbox[t]
  <2>1. \A j \in DOMAIN inbox[t] : j \in Nat
    OBVIOUS
  <2>2. \A j \in DOMAIN inbox'[t] : j + 0 \in DOMAIN inbox[t] /\ inbox'[t][j] = inbox[t][j + 0]
    BY <1>1, <2>1
  <2> QED
    BY <2>2
<1>2. ASSUME NEW m \in Messages, Deliver(m)
      PROVE  /\ delivered'[m] = delivered[m] + 1
             /\ \A j \in DOMAIN inbox'[t] :
                  \/ j \in DOMAIN inbox[t] /\ inbox'[t][j] = inbox[t][j]
                  \/ /\ \A i \in DOMAIN inbox'[t] : i <= j
                     /\ inbox'[t][j].msg = m /\ inbox'[t][j].attempt = delivered[m] + 1
  <2> DEFINE d == [msg |-> m, attempt |-> delivered[m] + 1]
  <2>1. delivered'[m] = delivered[m] + 1
    BY <1>2 DEF Deliver
  <2>2. inbox'[t] = Append(inbox[t], d) \/ inbox'[t] = inbox[t]
    BY <1>2 DEF Deliver
  <2>3. inbox[t] \in Seq(Deliveries) /\ d.msg = m /\ d.attempt = delivered[m] + 1
    OBVIOUS
  <2> HIDE DEF d
  <2>4. CASE inbox'[t] = Append(inbox[t], d)
    <3>1. ASSUME NEW j \in DOMAIN inbox'[t]
          PROVE  \/ j \in DOMAIN inbox[t] /\ inbox'[t][j] = inbox[t][j]
                 \/ (\A i \in DOMAIN inbox'[t] : i <= j) /\ inbox'[t][j] = d
      BY <2>3, <2>4
    <3> QED
      BY <2>1, <2>3, <3>1
  <2> QED
    BY <2>1, <2>2, <2>4
<1>3. CASE Take(t)
  <2>1. inbox'[t] = Tail(inbox[t]) /\ inbox[t] \in Seq(Deliveries) /\ inbox[t] # << >>
    BY <1>3 DEF Take
  <2>2. \A j \in DOMAIN inbox'[t] :
          j + 1 \in DOMAIN inbox[t] /\ inbox'[t][j] = inbox[t][j + 1]
    BY <2>1, HeadTailProperties
  <2> QED
    BY <2>2
<1>4. CASE inbox'[t] = << >>
  <2>1. DOMAIN inbox'[t] = {}
    BY <1>4
  <2> QED
    BY <2>1
<1>5. \/ inbox'[t] = inbox[t] \/ inbox'[t] = << >>
      \/ Take(t) \/ \E m \in Messages : Deliver(m)
  BY DEF BusNext, ServerNext, CallbackStep, Publish, AckWaitExpires, Take, HandlerReturns,
         HandlerRaises, Nak, DeadLetter, DeadLetterFails, Ack, Crash, busVars
<1> QED
  BY <1>1, <1>2, <1>3, <1>4, <1>5

\* Deliveries of one message are queued with rising attempts.
Rising ==
    \A t \in Tasks : \A i, j \in DOMAIN inbox[t] :
        i < j /\ inbox[t][i].msg = inbox[t][j].msg => inbox[t][i].attempt < inbox[t][j].attempt

\* Task t has had the delivery of m with number a, and will not see it again.
Past(t, m, a) ==
    /\ a <= delivered[m]
    /\ \A i \in DOMAIN inbox[t] : inbox[t][i].msg = m => a < inbox[t][i].attempt

CurPast == \A t \in Tasks : phase[t] # "idle" => Past(t, cur[t].msg, cur[t].attempt)

OrderInv == LimitInv /\ Rising /\ CurPast

\* A queued delivery has the types of its parts.
LEMMA InboxTypes ==
    ASSUME BusTypeOK, NEW t \in Tasks, NEW i \in DOMAIN inbox[t]
    PROVE  /\ i \in Nat /\ inbox[t][i].msg \in Messages /\ inbox[t][i].attempt \in Nat
           /\ delivered[inbox[t][i].msg] \in Nat
<1>1. inbox[t] \in Seq(Deliveries)
  BY DEF BusTypeOK
<1>2. i \in Nat /\ inbox[t][i] \in Deliveries
  BY <1>1
<1> QED
  BY <1>2 DEF Deliveries, BusTypeOK

\* The delivery counter never falls.
LEMMA DeliveredGrows ==
    ASSUME BusTypeOK, [BusNext]_busVars, NEW m \in Messages
    PROVE  delivered[m] \in Nat /\ delivered'[m] \in Nat /\ delivered[m] <= delivered'[m]
<1> USE DEF BusTypeOK
<1>1. delivered' = delivered \/ \E x \in Messages : delivered' = [delivered EXCEPT ![x] = @ + 1]
  BY DEF BusNext, ServerNext, CallbackStep, Publish, AckWaitExpires, Take, HandlerReturns,
         HandlerRaises, Nak, DeadLetter, DeadLetterFails, Ack, Crash, busVars, Deliver
<1>2. delivered \in [Messages -> 0..MaxDeliver] /\ MaxDeliver \in Nat
  BY BusAssumption
<1>3. CASE delivered' = delivered
  BY <1>2, <1>3
<1>4. ASSUME NEW x \in Messages, delivered' = [delivered EXCEPT ![x] = @ + 1]
      PROVE  delivered[m] \in Nat /\ delivered'[m] \in Nat /\ delivered[m] <= delivered'[m]
  <2>1. CASE x = m
    BY <1>2, <1>4, <2>1
  <2>2. CASE x # m
    BY <1>2, <1>4, <2>2
  <2> QED
    BY <2>1, <2>2
<1> QED
  BY <1>1, <1>3, <1>4

\* A delivery a task has had stays in its past.
LEMMA PastKept ==
    ASSUME BusTypeOK, [BusNext]_busVars, NEW t \in Tasks, NEW m \in Messages, NEW a \in Nat,
           Past(t, m, a)
    PROVE  Past(t, m, a)'
<1>1. a <= delivered'[m] /\ delivered[m] \in Nat
  BY DeliveredGrows DEF Past
<1>2. ASSUME NEW j \in DOMAIN inbox'[t], inbox'[t][j].msg = m
      PROVE  a < inbox'[t][j].attempt
  <2>1. CASE \E i \in DOMAIN inbox[t] : inbox'[t][j] = inbox[t][i]
    BY <1>2, <2>1 DEF Past
  <2>2. CASE inbox'[t][j].attempt = delivered[m] + 1
    BY <1>1, <2>2 DEF Past
  <2> QED
    BY <1>2, <2>1, <2>2, InboxChange
<1> QED
  BY <1>1, <1>2 DEF Past

\* A delivery gets the next number of its message and goes to the end of a
\* queue, so queues stay in order and a taken delivery is never seen again.
LEMMA OrderInvStep == BusTypeOK /\ OrderInv /\ [BusNext]_busVars => OrderInv'
<1> SUFFICES ASSUME BusTypeOK, OrderInv, [BusNext]_busVars
             PROVE  OrderInv'
  OBVIOUS
<1>1. LimitInv'
  BY LimitInvStep DEF OrderInv
<1>2. Rising'
  <2> SUFFICES ASSUME NEW t \in Tasks, NEW i \in DOMAIN inbox'[t], NEW j \in DOMAIN inbox'[t],
                      i < j, inbox'[t][i].msg = inbox'[t][j].msg
               PROVE  inbox'[t][i].attempt < inbox'[t][j].attempt
    BY DEF Rising
  <2>1. ASSUME NEW s \in {0, 1},
               \A k \in DOMAIN inbox'[t] :
                 k + s \in DOMAIN inbox[t] /\ inbox'[t][k] = inbox[t][k + s]
        PROVE  inbox'[t][i].attempt < inbox'[t][j].attempt
    <3>1. BusTypeOK'
      BY BusTypeStep
    <3>2. i \in Nat /\ j \in Nat
      BY <3>1 DEF BusTypeOK
    <3>3. i + s < j + s
      BY <3>2
    <3> QED
      BY <2>1, <3>3 DEF OrderInv, Rising
  <2>2. ASSUME NEW m \in Messages, delivered'[m] = delivered[m] + 1,
               \A k \in DOMAIN inbox'[t] :
                 \/ k \in DOMAIN inbox[t] /\ inbox'[t][k] = inbox[t][k]
                 \/ /\ \A l \in DOMAIN inbox'[t] : l <= k
                    /\ inbox'[t][k].msg = m /\ inbox'[t][k].attempt = delivered[m] + 1
        PROVE  inbox'[t][i].attempt < inbox'[t][j].attempt
    <3>0. \/ j \in DOMAIN inbox[t] /\ inbox'[t][j] = inbox[t][j]
          \/ inbox'[t][j].msg = m /\ inbox'[t][j].attempt = delivered[m] + 1
      BY <2>2
    <3>1. CASE i \in DOMAIN inbox[t] /\ inbox'[t][i] = inbox[t][i]
      <4>1. CASE j \in DOMAIN inbox[t] /\ inbox'[t][j] = inbox[t][j]
        BY <3>1, <4>1 DEF OrderInv, Rising
      <4>2. CASE inbox'[t][j].msg = m /\ inbox'[t][j].attempt = delivered[m] + 1
        <5>0. inbox[t][i].msg = m
          BY <3>1, <4>2
        <5>1. inbox[t][i].attempt <= delivered[m] /\ delivered[m] \in Nat
                /\ inbox[t][i].attempt \in Nat
          BY <3>1, <5>0, InboxTypes DEF OrderInv, LimitInv, AttemptsCounted
        <5>2. inbox'[t][i].attempt < inbox'[t][j].attempt
          BY <3>1, <4>2, <5>1
        <5> QED
          BY <5>2
      <4> QED
        BY <3>0, <4>1, <4>2
    <3>2. CASE \A l \in DOMAIN inbox'[t] : l <= i
      <4>1. BusTypeOK'
        BY BusTypeStep
      <4>2. i \in Nat /\ j \in Nat
        BY <4>1 DEF BusTypeOK
      <4> QED
        BY <3>2, <4>2
    <3> QED
      BY <2>2, <3>1, <3>2
  <2> QED
    BY <2>1, <2>2, InboxChange
<1>3. CurPast'
  <2> SUFFICES ASSUME NEW t \in Tasks, phase'[t] # "idle"
               PROVE  Past(t, cur[t].msg, cur[t].attempt)'
    BY DEF CurPast
  <2>1. CASE Take(t)
    <3>1. inbox'[t] = Tail(inbox[t]) /\ inbox[t] \in Seq(Deliveries) /\ inbox[t] # << >>
          /\ cur'[t] = Head(inbox[t]) /\ delivered' = delivered
      BY <2>1 DEF Take, BusTypeOK
    <3>2. /\ 1 \in DOMAIN inbox[t] /\ cur'[t] = inbox[t][1]
          /\ \A j \in DOMAIN inbox'[t] :
               j + 1 \in DOMAIN inbox[t] /\ inbox'[t][j] = inbox[t][j + 1] /\ 1 < j + 1
      BY <3>1, HeadTailProperties
    <3>3. cur'[t].attempt <= delivered'[cur'[t].msg]
      BY <3>1, <3>2 DEF OrderInv, LimitInv, AttemptsCounted
    <3> QED
      BY <3>2, <3>3 DEF OrderInv, Rising, Past
  <2>2. CASE ~Take(t)
    <3>1. cur'[t] = cur[t] /\ phase[t] # "idle"
      <4> USE <2>2 DEF BusTypeOK
      <4>1. CASE UNCHANGED <<phase, cur>>
        BY <4>1
      <4>2. ASSUME NEW u \in Tasks,
                   Take(u) \/ HandlerReturns(u) \/ HandlerRaises(u) \/ CallbackStep(u)
            PROVE  cur'[t] = cur[t] /\ phase[t] # "idle"
        BY <4>2 DEF CallbackStep, Take, HandlerReturns, HandlerRaises, Nak, DeadLetter,
                    DeadLetterFails, Ack, BecomeIdle
      <4>3. ASSUME NEW p \in Processes, Crash(p)
            PROVE  cur'[t] = cur[t] /\ phase[t] # "idle"
        BY <4>3 DEF Crash
      <4> QED
        BY <4>1, <4>2, <4>3 DEF BusNext, ServerNext, Publish, Deliver, AckWaitExpires, busVars
    <3>2. cur[t].msg \in Messages /\ cur[t].attempt \in Nat
      BY <3>1, CurrentDelivery
    <3>3. Past(t, cur[t].msg, cur[t].attempt)
      BY <3>1 DEF OrderInv, CurPast
    <3>4. PICK m \in Messages, a \in Nat : m = cur[t].msg /\ a = cur[t].attempt
      BY <3>2
    <3>5. Past(t, m, a)'
      BY <3>3, <3>4, PastKept
    <3> QED
      BY <3>1, <3>4, <3>5 DEF Past
  <2> QED
    BY <2>1, <2>2
<1> QED
  BY <1>1, <1>2, <1>3 DEF OrderInv

\* No delivery has been made at first.
LEMMA OrderInvInit == BusInit => OrderInv
BY DEF BusInit, OrderInv, LimitInv, AttemptsCounted, DeadLetterOnlyAtLimit, Rising, CurPast

-----------------------------------------------------------------------------
(* No silent loss, while worker processes live, deliveries reach a reader  *)
(* and dead letters are stored.                                            *)

Dependable == Faults \cap {"crash", "delivery_lost", "dlq_lost"} = {}

\* Task t has the delivery d queued or in work.
HasInHand(t, d) ==
    \/ phase[t] # "idle" /\ cur[t] = d
    \/ \E i \in DOMAIN inbox[t] : inbox[t][i] = d

Last(m) == [msg |-> m, attempt |-> MaxDeliver]

\* A message delivered for the last time is settled or that last delivery
\* is in some task's hands.
LastCovered ==
    \A m \in Messages :
        delivered[m] = MaxDeliver =>
            Settled(m) \/ \E t \in Tasks : HasInHand(t, Last(m))

SpentIsLast == \A m \in Messages : status[m] = "spent" => delivered[m] = MaxDeliver

\* Outside Deliver, Take and the end of a callback, tasks keep what they have.
LEMMA HandsKept ==
    ASSUME NEW t \in Tasks, NEW d, HasInHand(t, d),
           inbox'[t] = inbox[t], cur'[t] = cur[t],
           phase'[t] = phase[t] \/ phase'[t] # "idle"
    PROVE  HasInHand(t, d)'
BY DEF HasInHand

\* A delivery queued behind others moves up, and the first one is taken.
LEMMA HandsTake ==
    ASSUME BusTypeOK, NEW t \in Tasks, NEW u \in Tasks, NEW d,
           Take(u), HasInHand(t, d)
    PROVE  HasInHand(t, d)'
<1> USE DEF BusTypeOK
<1>1. CASE t # u
  BY <1>1 DEF Take, HasInHand
<1>2. CASE t = u
  <2>1. inbox[t] \in Seq(Deliveries) /\ inbox[t] # << >> /\ phase[t] = "idle"
    BY <1>2 DEF Take
  <2>2. PICK i \in DOMAIN inbox[t] : inbox[t][i] = d
    BY <2>1 DEF HasInHand
  <2>3. CASE i = 1
    <3>1. cur'[t] = d /\ phase'[t] = "handling"
      BY <1>2, <2>1, <2>2, <2>3, HeadTailProperties DEF Take
    <3> QED
      BY <3>1 DEF HasInHand
  <2>4. CASE i # 1
    <3>1. inbox'[t] = Tail(inbox[t])
      BY <1>2 DEF Take
    <3>2. i - 1 \in DOMAIN Tail(inbox[t]) /\ Tail(inbox[t])[i - 1] = d
      BY <2>1, <2>2, <2>4, HeadTailProperties
    <3> QED
      BY <3>1, <3>2 DEF HasInHand
  <2> QED
    BY <2>3, <2>4
<1> QED
  BY <1>1, <1>2

\* Deliver only appends, and it hands the new delivery to a reader.
LEMMA HandsDeliver ==
    ASSUME BusTypeOK, Dependable, NEW m \in Messages, Deliver(m)
    PROVE  /\ \A t \in Tasks, d \in Deliveries : HasInHand(t, d) => HasInHand(t, d)'
           /\ delivered'[m] = MaxDeliver => \E t \in Tasks : HasInHand(t, Last(m))'
<1> DEFINE new == [msg |-> m, attempt |-> delivered[m] + 1]
<1>1. PICK R \in SUBSET Readers[m] :
        /\ R # {} \/ "delivery_lost" \in Faults
        /\ inbox' = [t \in Tasks |->
             IF t \in R THEN Append(inbox[t], new) ELSE inbox[t]]
  BY DEF Deliver
<1>2. UNCHANGED <<phase, cur>> /\ \A t \in Tasks : inbox[t] \in Seq(Deliveries)
  BY DEF Deliver, BusTypeOK
<1>3. new \in Deliveries
  BY DeliverEffect
<1>4. delivered'[m] = MaxDeliver => new = Last(m)
  BY DEF Deliver, Last, BusTypeOK
<1> HIDE DEF new
<1>5. \A t \in R :
        /\ \A i \in DOMAIN inbox[t] : i \in DOMAIN inbox'[t] /\ inbox'[t][i] = inbox[t][i]
        /\ Len(inbox[t]) + 1 \in DOMAIN inbox'[t]
        /\ inbox'[t][Len(inbox[t]) + 1] = new
  BY <1>1, <1>2, <1>3, AppendProperties, LenProperties
<1>6. ASSUME NEW t \in Tasks, NEW d \in Deliveries, HasInHand(t, d)
      PROVE  HasInHand(t, d)'
  <2>1. CASE t \in R
    BY <1>2, <1>5, <1>6, <2>1 DEF HasInHand
  <2>2. CASE t \notin R
    BY <1>1, <1>2, <1>6, <2>2 DEF HasInHand
  <2> QED
    BY <2>1, <2>2
<1>7. ASSUME delivered'[m] = MaxDeliver
      PROVE  \E t \in Tasks : HasInHand(t, Last(m))'
  <2>1. R # {}
    BY <1>1 DEF Dependable
  <2>2. PICK t \in R : TRUE
    BY <2>1
  <2>3. t \in Tasks
    BY <1>1
  <2>4. \E i \in DOMAIN inbox'[t] : inbox'[t][i] = Last(m)
    BY <1>4, <1>5, <1>7, <2>2
  <2> QED
    BY <2>3, <2>4 DEF HasInHand
<1> QED
  BY <1>6, <1>7

CoverInv == SpentIsLast /\ LastCovered

\* Settled messages stay settled.
LEMMA SettledKept ==
    ASSUME NEW m, Settled(m), handled \subseteq handled',
           deadLettered \subseteq deadLettered'
    PROVE  Settled(m)'
BY DEF Settled

\* The last delivery leaves a task's hands only through the acknowledgement
\* of a settled message or the dead letter that settles it.
LEMMA CoverInvStep ==
    ASSUME Dependable, BusTypeOK, AckInv, CoverInv, [BusNext]_busVars
    PROVE  CoverInv'
<1> USE DEF BusTypeOK, CoverInv, SpentIsLast, LastCovered
<1>1. SpentIsLast'
  <2>1. ASSUME NEW m \in Messages, Publish(m) \/ AckWaitExpires(m)
        PROVE  SpentIsLast'
    BY <2>1 DEF Publish, AckWaitExpires, Requeued
  <2>2. ASSUME NEW m \in Messages, Deliver(m)
        PROVE  SpentIsLast'
    BY <2>2 DEF Deliver
  <2>3. ASSUME NEW t \in Tasks, Nak(t) \/ Ack(t)
        PROVE  SpentIsLast'
    BY <2>3, CurrentDelivery DEF Nak, Ack, Requeued
  <2>4. CASE UNCHANGED <<status, delivered>>
    BY <2>4
  <2>5. ASSUME NEW t \in Tasks, DeadLetter(t) \/ DeadLetterFails(t)
        PROVE  SpentIsLast'
    BY <2>5, DeadLetterStatus DEF DeadLetter, DeadLetterFails
  <2> QED
    BY <2>1, <2>2, <2>3, <2>4, <2>5
    DEF BusNext, busVars, ServerNext, CallbackStep, Take, HandlerReturns,
        HandlerRaises, Crash
<1>2. handled \subseteq handled' /\ deadLettered \subseteq deadLettered'
  BY DEF BusNext, busVars, ServerNext, CallbackStep, Publish, Deliver,
         AckWaitExpires, Take, HandlerReturns, HandlerRaises, Nak,
         DeadLetter, DeadLetterFails, Ack, BecomeIdle, Crash
<1> SUFFICES ASSUME NEW x \in Messages, delivered'[x] = MaxDeliver
             PROVE  Settled(x)' \/ \E t \in Tasks : HasInHand(t, Last(x))'
  BY <1>1
<1>3. CASE delivered[x] = MaxDeliver /\ Settled(x)
  BY <1>2, <1>3, SettledKept
<1>4. CASE \E t \in Tasks : HasInHand(t, Last(x))
  <2>1. PICK t \in Tasks : HasInHand(t, Last(x))
    BY <1>4
  <2>2. Last(x) \in Deliveries
    BY DEF Last, Deliveries
  <2>3. ASSUME NEW m \in Messages, Publish(m) \/ AckWaitExpires(m)
        PROVE  HasInHand(t, Last(x))'
    BY <2>1, <2>3, HandsKept DEF Publish, AckWaitExpires
  <2>4. ASSUME NEW m \in Messages, Deliver(m)
        PROVE  HasInHand(t, Last(x))'
    BY <2>1, <2>2, <2>4, HandsDeliver
  <2>5. ASSUME NEW u \in Tasks, Take(u)
        PROVE  HasInHand(t, Last(x))'
    BY <2>1, <2>5, HandsTake
  <2>6. ASSUME NEW u \in Tasks,
               HandlerReturns(u) \/ HandlerRaises(u) \/ DeadLetter(u)
        PROVE  HasInHand(t, Last(x))'
    <3>1. /\ inbox'[t] = inbox[t] /\ cur'[t] = cur[t]
          /\ phase'[t] = phase[t] \/ phase'[t] # "idle"
      BY <2>6 DEF HandlerReturns, HandlerRaises, DeadLetter
    <3> QED
      BY <2>1, <3>1, HandsKept
  <2>7. ASSUME NEW u \in Tasks, Nak(u) \/ DeadLetterFails(u) \/ Ack(u)
        PROVE  Settled(x)' \/ HasInHand(t, Last(x))'
    <3>1. inbox' = inbox
      BY <2>7 DEF Nak, DeadLetterFails, Ack
    <3>2. CASE t # u \/ cur[t] # Last(x)
      <4>1. CASE t # u
        <5>1. cur'[t] = cur[t] /\ phase'[t] = phase[t]
          BY <2>7, <4>1 DEF Nak, DeadLetterFails, Ack, BecomeIdle
        <5> QED
          BY <2>1, <3>1, <5>1, HandsKept
      <4>2. CASE cur[t] # Last(x)
        BY <2>1, <3>1, <4>2 DEF HasInHand
      <4> QED
        BY <3>2, <4>1, <4>2
    <3>3. CASE t = u /\ cur[t] = Last(x)
      <4>1. cur[t].msg = x /\ cur[t].attempt = MaxDeliver
        BY <3>3 DEF Last
      <4>2. CASE Nak(u)
        BY <3>3, <4>1, <4>2 DEF Nak, IsLastAttempt
      <4>3. CASE DeadLetterFails(u)
        BY <3>3, <4>1, <4>3 DEF DeadLetterFails, Dependable, Settled
      <4>4. CASE Ack(u)
        <5>1. Settled(x)
          BY <3>3, <4>1, <4>4 DEF Ack, AckInv, AckingIsSettled
        <5> QED
          BY <1>2, <5>1, SettledKept
      <4> QED
        BY <2>7, <4>2, <4>3, <4>4
    <3> QED
      BY <3>2, <3>3
  <2>8. ASSUME NEW p \in Processes, Crash(p)
        PROVE  FALSE
    BY <2>8 DEF Crash, Dependable
  <2>9. CASE UNCHANGED busVars
    BY <2>1, <2>9, HandsKept DEF busVars
  <2> QED
    BY <2>1, <2>3, <2>4, <2>5, <2>6, <2>7, <2>8, <2>9
    DEF BusNext, ServerNext, CallbackStep
<1>5. CASE delivered[x] # MaxDeliver
  <2>1. PICK m \in Messages : Deliver(m)
    BY <1>5 DEF BusNext, busVars, ServerNext, CallbackStep, Publish,
         AckWaitExpires, Take, HandlerReturns, HandlerRaises, Nak,
         DeadLetter, DeadLetterFails, Ack, Crash
  <2>2. m = x
    BY <1>5, <2>1 DEF Deliver
  <2> QED
    BY <2>1, <2>2, HandsDeliver
<1> QED
  BY <1>3, <1>4, <1>5

\* As long as workers do not die, deliveries reach a reader and dead letters
\* are stored, a message the server has given up was handled or dead-lettered,
\* or its last delivery is still being worked on, however often handlers
\* raise, acks get lost and acknowledgements come late.
THEOREM NothingLostSilently == Dependable => (BusSpec => []NoSilentLoss)
<1> SUFFICES ASSUME Dependable
             PROVE  BusSpec => []NoSilentLoss
  OBVIOUS
<1>1. BusInit => CoverInv /\ AckInv
  BY DEF BusInit, CoverInv, SpentIsLast, LastCovered, AckInv, AckedIsSettled,
         AckingIsSettled
<1>2. BusTypeOK /\ AckInv /\ CoverInv /\ [BusNext]_busVars => CoverInv'
  BY CoverInvStep
<1>3. CoverInv => NoSilentLoss
  BY DEF CoverInv, SpentIsLast, LastCovered, NoSilentLoss, InHand, HasInHand, Last
<1> QED
  BY <1>1, <1>2, <1>3, AckInvStep, BusTypeCorrect, PTL DEF BusSpec

-----------------------------------------------------------------------------
(* Deliveries reach readers only.                                          *)

\* Every delivery in hand is one of a stored message to one of its readers.
Routed ==
    \A t \in Tasks :
        /\ phase[t] # "idle" =>
             t \in Readers[cur[t].msg] /\ status[cur[t].msg] # "absent"
        /\ \A i \in DOMAIN inbox[t] :
             t \in Readers[inbox[t][i].msg] /\ status[inbox[t][i].msg] # "absent"

\* A published event is never unpublished.
LEMMA PresentStays ==
    ASSUME BusTypeOK, [BusNext]_busVars, NEW m \in Messages, status[m] # "absent"
    PROVE  status'[m] # "absent"
<1> USE DEF BusTypeOK, Statuses
<1>1. ASSUME NEW x \in Messages, Publish(x) \/ Deliver(x) \/ AckWaitExpires(x)
      PROVE  status'[m] # "absent"
  BY <1>1 DEF Publish, Deliver, AckWaitExpires, Requeued
<1>2. ASSUME NEW t \in Tasks, Nak(t) \/ Ack(t)
      PROVE  status'[m] # "absent"
  BY <1>2, CurrentDelivery DEF Nak, Ack, Requeued
<1>3. CASE status' = status
  BY <1>3
<1>4. ASSUME NEW t \in Tasks, DeadLetter(t) \/ DeadLetterFails(t)
      PROVE  status'[m] # "absent"
  BY <1>4, DeadLetterStatus
<1> QED
  BY <1>1, <1>2, <1>3, <1>4 DEF BusNext, busVars, ServerNext, CallbackStep, Take,
     HandlerReturns, HandlerRaises, Crash

\* The dead letter of an event given up, or an earlier one of its key, is in
\* the stream.
DeadLettersSent ==
    \A m \in deadLettered \cap DOMAIN DeadLetterOf : Duplicate(DeadLetterOf[m])

\* An event is marked given up in the step that stores its dead letter or
\* finds one of its key, and no event leaves the stream.
LEMMA DeadLettersSentStep ==
    BusTypeOK /\ DeadLettersSent /\ [BusNext]_busVars => DeadLettersSent'
<1> SUFFICES ASSUME BusTypeOK, DeadLettersSent, [BusNext]_busVars,
                    NEW m \in deadLettered' \cap DOMAIN DeadLetterOf
             PROVE  Duplicate(DeadLetterOf[m])'
  BY DEF DeadLettersSent
<1>1. CASE m \in deadLettered
  BY <1>1, PresentStays DEF DeadLettersSent, Duplicate
<1>2. CASE m \notin deadLettered
  <2>1. PICK t \in Tasks : cur[t].msg = m /\ StoreDeadLetter(m)
    BY <1>2 DEF BusNext, busVars, ServerNext, CallbackStep, Publish, Deliver, AckWaitExpires,
       Take, HandlerReturns, HandlerRaises, Nak, DeadLetter, DeadLetterFails, Ack, Crash
  <2>2. CASE status' = [status EXCEPT ![DeadLetterOf[m]] = "due"]
    BY <2>2 DEF Duplicate, BusTypeOK
  <2>3. CASE Duplicate(DeadLetterOf[m]) /\ status' = status
    BY <2>3 DEF Duplicate
  <2> QED
    BY <2>1, <2>2, <2>3 DEF StoreDeadLetter
<1> QED
  BY <1>1, <1>2

\* The publish of a dead letter and the decision to acknowledge are one step
\* of the callback: an event counts as given up only with a dead letter of
\* its key in the stream, be it that the stream drops the second one.
THEOREM DeadLettersAreSent == BusSpec => []DeadLettersSent
<1>1. BusInit => DeadLettersSent
  BY DEF BusInit, DeadLettersSent
<1> QED
  BY <1>1, DeadLettersSentStep, BusTypeCorrect, PTL DEF BusSpec

\* Deliver chooses among the readers; later steps only move deliveries.
LEMMA RoutedStep == BusTypeOK /\ Routed /\ [BusNext]_busVars => Routed'
<1> SUFFICES ASSUME BusTypeOK, Routed, [BusNext]_busVars, NEW t \in Tasks
             PROVE  /\ phase'[t] # "idle" =>
                         t \in Readers[cur'[t].msg] /\ status'[cur'[t].msg] # "absent"
                    /\ \A i \in DOMAIN inbox'[t] :
                         /\ t \in Readers[inbox'[t][i].msg]
                         /\ status'[inbox'[t][i].msg] # "absent"
  BY DEF Routed
<1>1. ASSUME NEW d \in Deliveries, t \in Readers[d.msg], status[d.msg] # "absent"
      PROVE  t \in Readers[d.msg] /\ status'[d.msg] # "absent"
  BY <1>1, PresentStays DEF Deliveries
<1>2. /\ inbox[t] \in Seq(Deliveries)
      /\ \A i \in DOMAIN inbox[t] : inbox[t][i] \in Deliveries
      /\ phase[t] # "idle" => cur[t] \in Deliveries
  BY DEF BusTypeOK
<1>3. /\ phase[t] # "idle" => t \in Readers[cur[t].msg] /\ status'[cur[t].msg] # "absent"
      /\ \A i \in DOMAIN inbox[t] :
           t \in Readers[inbox[t][i].msg] /\ status'[inbox[t][i].msg] # "absent"
  BY <1>1, <1>2 DEF Routed
<1>4. ASSUME NEW m \in Messages, Deliver(m)
      PROVE  \A i \in DOMAIN inbox'[t] :
               t \in Readers[inbox'[t][i].msg] /\ status'[inbox'[t][i].msg] # "absent"
  <2> DEFINE new == [msg |-> m, attempt |-> delivered[m] + 1]
  <2>1. PICK R \in SUBSET Readers[m] :
          inbox' = [u \in Tasks |-> IF u \in R THEN Append(inbox[u], new) ELSE inbox[u]]
    BY <1>4 DEF Deliver
  <2>2. status'[m] # "absent"
    BY <1>4, PresentStays DEF Deliver
  <2>3. new.msg = m /\ new \in Deliveries
    BY <1>4, DeliverEffect
  <2> HIDE DEF new
  <2>4. CASE t \in R
    <3>1. \A i \in DOMAIN inbox'[t] :
            inbox'[t][i] = new \/ (i \in DOMAIN inbox[t] /\ inbox'[t][i] = inbox[t][i])
      BY <1>2, <2>1, <2>3, <2>4, AppendProperties, LenProperties
    <3> QED
      BY <1>3, <2>2, <2>3, <2>4, <3>1
  <2>5. CASE t \notin R
    BY <1>3, <2>1, <2>5
  <2> QED
    BY <2>4, <2>5
<1>5. CASE Take(t)
  <2>1. /\ phase[t] = "idle" /\ inbox[t] # << >> /\ cur'[t] = Head(inbox[t])
        /\ inbox'[t] = Tail(inbox[t])
    BY <1>5 DEF Take, BusTypeOK
  <2>2. /\ 1 \in DOMAIN inbox[t] /\ cur'[t] = inbox[t][1]
        /\ \A i \in DOMAIN inbox'[t] :
             i + 1 \in DOMAIN inbox[t] /\ inbox'[t][i] = inbox[t][i + 1]
    BY <1>2, <2>1, HeadTailProperties
  <2> QED
    BY <1>3, <2>2
<1>6. ASSUME NEW p \in Processes, Crash(p)
      PROVE  \/ phase'[t] = "idle" /\ inbox'[t] = << >>
             \/ inbox'[t] = inbox[t] /\ cur'[t] = cur[t] /\ phase'[t] = phase[t]
  BY <1>6 DEF Crash
<1>7. ASSUME \A m \in Messages : ~Deliver(m), ~Take(t), \A p \in Processes : ~Crash(p)
      PROVE  /\ inbox'[t] = inbox[t]
             /\ phase'[t] # "idle" => phase[t] # "idle" /\ cur'[t] = cur[t]
  BY <1>7 DEF BusNext, busVars, BusTypeOK, ServerNext, CallbackStep, Publish, AckWaitExpires,
     Take, HandlerReturns, HandlerRaises, Nak, DeadLetter, DeadLetterFails, Ack, BecomeIdle
<1>8. ASSUME NEW m \in Messages, Deliver(m)
      PROVE  phase' = phase /\ cur' = cur
  BY <1>8 DEF Deliver
<1> QED
  BY <1>3, <1>4, <1>5, <1>6, <1>7, <1>8

-----------------------------------------------------------------------------
(* The bus keeps what EventDelivery promises.                              *)

\* The invariants the step below needs: a callback acknowledges what was
\* handled or given up, no task is ahead of the server's count, and every
\* delivery in hand is one of a published event.
DeliveryInv == BusTypeOK /\ AckInv /\ LimitInv /\ Routed

\* The delivery a busy task works on was counted and its event is published.
LEMMA CurrentIsCounted ==
    ASSUME DeliveryInv, NEW t \in Tasks, phase[t] # "idle"
    PROVE  /\ cur[t].msg \in Messages
           /\ delivered[cur[t].msg] > 0
           /\ status[cur[t].msg] # "absent"
           /\ IsLastAttempt(t) => delivered[cur[t].msg] = MaxDeliver
<1>1. /\ cur[t].msg \in Messages /\ cur[t].attempt \in 1..MaxDeliver
      /\ delivered[cur[t].msg] \in 0..MaxDeliver
  BY CurrentDelivery DEF DeliveryInv, BusTypeOK
<1>2. cur[t].attempt <= delivered[cur[t].msg] /\ status[cur[t].msg] # "absent"
  BY DEF DeliveryInv, LimitInv, AttemptsCounted, Routed
<1> QED
  BY <1>1, <1>2 DEF IsLastAttempt

\* What EventDelivery sees.
deliveryView == <<Stage, delivered, handled, deadLettered>>

\* An event of which no part changes is unchanged, one of which a single part
\* moves as EventDelivery allows takes that step.
LEMMA EventSteps ==
    ASSUME NEW e \in Messages
    PROVE  LET SameHandled == (e \in handled') <=> (e \in handled)
               SameGivenUp == (e \in deadLettered') <=> (e \in deadLettered)
           IN  (\/ /\ Stage'[e] = Stage[e] /\ delivered'[e] = delivered[e] /\ SameHandled
                   /\ SameGivenUp \/ (delivered[e] = MaxDeliver /\ e \in deadLettered')
                \/ /\ Stage'[e] = Stage[e] /\ delivered'[e] = delivered[e] /\ SameGivenUp
                   /\ delivered[e] > 0 /\ e \in handled'
                \/ /\ Stage[e] = "open" /\ Stage'[e] = Stage[e] /\ SameHandled /\ SameGivenUp
                   /\ delivered[e] < MaxDeliver /\ delivered'[e] = delivered[e] + 1
                \/ /\ Stage[e] = "unsent" /\ Stage'[e] = "open" /\ SameHandled /\ SameGivenUp
                   /\ delivered'[e] = delivered[e]
                \/ /\ Stage[e] = "open" /\ Stage'[e] = "closed" /\ SameHandled /\ SameGivenUp
                   /\ delivered'[e] = delivered[e] /\ e \in handled \cup deadLettered)
               => Delivery!EventNext(e) \/ UNCHANGED Delivery!Event(e)
<1> DEFINE h == handled \cap {e}
           g == deadLettered \cap {e}
<1>1. /\ Delivery!Event(e) = [stage |-> Stage[e], tries |-> delivered[e],
                              handled |-> h, givenUp |-> g]
      /\ Delivery!Event(e)' = [stage |-> Stage'[e], tries |-> delivered'[e],
                               handled |-> h', givenUp |-> g']
  BY DEF Delivery!Event
<1>2. /\ ((e \in handled') <=> (e \in handled)) => h' = h
      /\ ((e \in deadLettered') <=> (e \in deadLettered)) => g' = g
      /\ e \in handled' => h' = {e}
      /\ e \in deadLettered' => g' = {e}
  OBVIOUS
<1> HIDE DEF h, g
<1>3. ASSUME Stage'[e] = Stage[e], delivered'[e] = delivered[e], h' = h, g' = g
      PROVE  UNCHANGED Delivery!Event(e)
  BY <1>1, <1>3
<1>4. ASSUME Stage'[e] = Stage[e], delivered'[e] = delivered[e], h' = h, g' = {e},
             delivered[e] = MaxDeliver
      PROVE  Delivery!GiveUp(e)
  <2>1. Delivery!Event(e)' = [Delivery!Event(e) EXCEPT !.givenUp = g']
    BY <1>1, <1>4, Z3
  <2> QED
    BY <1>4, <2>1, Zenon DEF Delivery!GiveUp
<1>5. ASSUME Stage'[e] = Stage[e], delivered'[e] = delivered[e], h' = {e}, g' = g,
             delivered[e] > 0
      PROVE  Delivery!Handle(e)
  <2>1. Delivery!Event(e)' = [Delivery!Event(e) EXCEPT !.handled = h']
    BY <1>1, <1>5, Z3
  <2> QED
    BY <1>5, <2>1, Zenon DEF Delivery!Handle
<1>6. ASSUME Stage[e] = "open", Stage'[e] = Stage[e], h' = h, g' = g,
             delivered[e] < MaxDeliver, delivered'[e] = delivered[e] + 1
      PROVE  Delivery!Try(e)
  BY <1>1, <1>6 DEF Delivery!Try
<1>7. ASSUME Stage[e] = "unsent", Stage'[e] = "open", h' = h, g' = g,
             delivered'[e] = delivered[e]
      PROVE  Delivery!Send(e)
  BY <1>1, <1>7 DEF Delivery!Send
<1>8. ASSUME Stage[e] = "open", Stage'[e] = "closed", h' = h, g' = g,
             delivered'[e] = delivered[e], e \in handled \cup deadLettered
      PROVE  Delivery!Close(e)
  BY <1>1, <1>8 DEF Delivery!Close
<1> QED
  BY <1>2, <1>3, <1>4, <1>5, <1>6, <1>7, <1>8 DEF Delivery!EventNext

\* An event whose status stays, or changes between open ones, keeps its stage.
LEMMA StageKept ==
    ASSUME NEW e \in Messages,
           \/ status'[e] = status[e]
           \/ {status[e], status'[e]} \cap {"absent", "acked"} = {}
    PROVE  Stage'[e] = Stage[e]
BY DEF Stage

\* Publish sends the event, Deliver tries it, a handler that returns handles
\* it, a dead letter, also one whose answer is lost, gives it up and may send
\* another event, and an acknowledgement closes it, the first one at least;
\* nothing else is seen.
LEMMA DeliveryStep ==
    DeliveryInv /\ [BusNext]_busVars => [Delivery!DeliveryNext]_deliveryView
<1> SUFFICES ASSUME DeliveryInv, BusTypeOK, [BusNext]_busVars, NEW e \in Messages
             PROVE  Delivery!EventNext(e) \/ UNCHANGED Delivery!Event(e)
  BY DEF DeliveryInv, Delivery!DeliveryNext
<1> USE DEF BusTypeOK
<1>1. ASSUME NEW m \in Messages, Publish(m)
      PROVE  Delivery!EventNext(e) \/ UNCHANGED Delivery!Event(e)
  <2>1. CASE e = m
    BY <1>1, <2>1, EventSteps DEF Publish, Stage
  <2>2. CASE e # m
    BY <1>1, <2>2, EventSteps, StageKept DEF Publish
  <2> QED
    BY <2>1, <2>2
<1>2. ASSUME NEW m \in Messages, Deliver(m)
      PROVE  Delivery!EventNext(e) \/ UNCHANGED Delivery!Event(e)
  <2>1. CASE e = m
    BY <1>2, <2>1, EventSteps DEF Deliver, Stage
  <2>2. CASE e # m
    BY <1>2, <2>2, EventSteps, StageKept DEF Deliver
  <2> QED
    BY <2>1, <2>2
<1>3. ASSUME NEW m \in Messages, AckWaitExpires(m)
      PROVE  Delivery!EventNext(e) \/ UNCHANGED Delivery!Event(e)
  BY <1>3, EventSteps, StageKept DEF AckWaitExpires, Requeued
<1>4. ASSUME NEW t \in Tasks, HandlerReturns(t)
      PROVE  Delivery!EventNext(e) \/ UNCHANGED Delivery!Event(e)
  <2>1. delivered[cur[t].msg] > 0
    BY <1>4, CurrentIsCounted DEF HandlerReturns
  <2> QED
    BY <1>4, <2>1, EventSteps, StageKept DEF HandlerReturns
<1>5. ASSUME NEW t \in Tasks, Nak(t)
      PROVE  Delivery!EventNext(e) \/ UNCHANGED Delivery!Event(e)
  <2>1. cur[t].msg \in Messages
    BY <1>5, CurrentIsCounted DEF Nak
  <2> QED
    BY <1>5, <2>1, EventSteps, StageKept DEF Nak, Requeued
<1>6. ASSUME NEW t \in Tasks, DeadLetter(t) \/ DeadLetterFails(t)
      PROVE  Delivery!EventNext(e) \/ UNCHANGED Delivery!Event(e)
  <2> DEFINE m == cur[t].msg
  <2>1. m \in Messages /\ delivered[m] = MaxDeliver /\ status[m] # "absent"
    BY <1>6, CurrentIsCounted DEF DeadLetter, DeadLetterFails
  <2>2. /\ deadLettered' = deadLettered \cup {m} \/ deadLettered' = deadLettered
        /\ UNCHANGED <<delivered, handled>>
    BY <1>6 DEF DeadLetter, DeadLetterFails
  <2>3. CASE e = m
    <3>1. status'[e] = status[e]
      BY <1>6, <2>1, <2>3, DeadLetterStatus
    <3> QED
      BY <2>1, <2>2, <2>3, <3>1, EventSteps, StageKept
  <2>4. CASE e # m
    <3>1. (e \in deadLettered') <=> (e \in deadLettered)
      BY <2>2, <2>4
    <3>2. Stage'[e] = Stage[e] \/ (Stage[e] = "unsent" /\ Stage'[e] = "open")
      BY <1>6, DeadLetterStatus DEF Stage
    <3> QED
      BY <2>2, <3>1, <3>2, EventSteps
  <2> QED
    BY <2>3, <2>4
<1>7. ASSUME NEW t \in Tasks, Ack(t)
      PROVE  Delivery!EventNext(e) \/ UNCHANGED Delivery!Event(e)
  <2> DEFINE m == cur[t].msg
  <2>1. m \in Messages /\ status[m] # "absent" /\ m \in handled \cup deadLettered
    BY <1>7, CurrentIsCounted DEF Ack, DeliveryInv, AckInv, AckingIsSettled, Settled
  <2>2. CASE e = m /\ status'[m] = "acked"
    <3>1. /\ Stage'[e] = "closed"
          /\ Stage[e] = "open" \/ Stage[e] = "closed"
      BY <2>1, <2>2 DEF Stage
    <3> QED
      BY <1>7, <2>1, <2>2, <3>1, EventSteps DEF Ack
  <2>3. CASE status'[e] = status[e]
    BY <1>7, <2>3, EventSteps, StageKept DEF Ack
  <2> QED
    BY <1>7, <2>1, <2>2, <2>3 DEF Ack
<1>8. CASE UNCHANGED <<status, delivered, handled, deadLettered>>
  BY <1>8, EventSteps, StageKept
<1> QED
  BY <1>1, <1>2, <1>3, <1>4, <1>5, <1>6, <1>7, <1>8
  DEF BusNext, ServerNext, CallbackStep, Take, HandlerRaises, Crash, busVars

\* Over the bus an event is tried at most MaxDeliver times until it is
\* closed, is closed only when a handler returned or every try was used and a
\* dead letter stored, and is not tried again after that, whatever crashes,
\* lost acknowledgements and late deliveries lie in between.
THEOREM BusKeepsDelivery == BusSpec => KeepsDelivery
<1>1. BusInit => Delivery!DeliveryInit
  BY DEF BusInit, Stage, Delivery!DeliveryInit
<1>2. BusInit => AckInv /\ LimitInv /\ Routed
  BY DEF BusInit, AckInv, AckedIsSettled, AckingIsSettled, LimitInv, AttemptsCounted,
     DeadLetterOnlyAtLimit, Routed
<1>3. BusTypeOK /\ AckInv /\ LimitInv /\ Routed /\ [BusNext]_busVars
      => [Delivery!DeliveryNext]_deliveryView
  BY DeliveryStep DEF DeliveryInv
<1> QED
  BY <1>1, <1>2, <1>3, BusTypeCorrect, AckInvStep, LimitInvStep, RoutedStep, PTL
  DEF BusSpec, KeepsDelivery, Delivery!DeliverySpec, deliveryView
=============================================================================

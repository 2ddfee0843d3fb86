-------------------------- MODULE CopyEngineProofs --------------------------
(* What holds of the copy engine for any relationships, events, number of  *)
(* workers, retry limit and failures.                                      *)
EXTENDS CopyEngine, EventBusProofs

USE EngineAssumption DEF EngineAssumption

\* Every statement of a handler call either goes on or makes the call raise.
LEMMA HandlerBusStep ==
    ASSUME NEW t \in Tasks, HandlerStep(t)
    PROVE  UNCHANGED busVars \/ HandlerReturns(t) \/ HandlerRaises(t)
<1>1. CASE List(t)
  BY <1>1 DEF List, Statement, Raise
<1>2. CASE Reject(t) \/ Release(t) \/ Finish(t)
  BY <1>2 DEF Reject, Release, Finish, Raise
<1>3. CASE Reserved(t) \/ PublishRequest(t) \/ PublishRequestFails(t)
  BY <1>3 DEF Reserved, PublishRequest, PublishRequestFails
<1>4. CASE Mark(t)
  BY <1>4 DEF Mark, Statement, Raise
<1>5. ASSUME NEW r \in Rels, Reserve(t, r) \/ Record(t, r)
      PROVE  UNCHANGED busVars \/ HandlerReturns(t) \/ HandlerRaises(t)
  BY <1>5 DEF Reserve, Record, Statement, Raise
<1> QED
  BY <1>1, <1>2, <1>3, <1>4, <1>5 DEF HandlerStep

\* To the bus, the engine is a handler.
LEMMA EngineBusStep == [Next]_vars => [BusNext]_busVars
<1> SUFFICES ASSUME [Next]_vars
             PROVE  [BusNext]_busVars
  OBVIOUS
<1>1. CASE ServerNext
  BY <1>1 DEF BusNext
<1>2. ASSUME NEW t \in Tasks, TaskStep(t)
      PROVE  [BusNext]_busVars
  <2>1. CASE Begin(t)
    BY <2>1 DEF Begin, BusNext
  <2>2. CASE HandlerStep(t)
    BY <2>2, HandlerBusStep DEF BusNext
  <2>3. CASE CallbackStep(t)
    BY <2>3 DEF BusNext
  <2> QED
    BY <1>2, <2>1, <2>2, <2>3 DEF TaskStep
<1>3. ASSUME NEW r \in Rels, Toggle(r)
      PROVE  [BusNext]_busVars
  BY <1>3 DEF Toggle
<1>4. ASSUME NEW k \in Keys, WindowPasses(k)
      PROVE  [BusNext]_busVars
  BY <1>4 DEF WindowPasses
<1>5. ASSUME NEW req \in inFlight, RequestArrives(req)
      PROVE  [BusNext]_busVars
  BY <1>5 DEF RequestArrives
<1>6. ASSUME NEW p \in Processes, EngineCrash(p)
      PROVE  [BusNext]_busVars
  BY <1>6 DEF EngineCrash, BusNext
<1>7. CASE UNCHANGED vars
  BY <1>7 DEF vars
<1> QED
  BY <1>1, <1>2, <1>3, <1>4, <1>5, <1>6, <1>7 DEF Next

\* The engine implements the bus: everything proved of BusSpec holds of it.
THEOREM EngineUsesBus == Spec => BusSpec
<1>1. Init => BusInit
  BY DEF Init
<1> QED
  BY <1>1, EngineBusStep, PTL DEF Spec, BusSpec

\* The engine acknowledges a trade event only after a handler call for it
\* returned or its dead letter was stored.
COROLLARY EngineAckedSettled == Spec => []AckedIsSettled
BY EngineUsesBus, AckedSettled

\* A trade event is tried at most MaxDeliver times until it is closed, and
\* closed only after a try handled it or the last one was given up.
THEOREM EngineKeepsDelivery == Spec => KeepsDelivery
BY EngineUsesBus, BusKeepsDelivery, PTL

\* While workers live, deliveries reach a reader and dead letters are stored,
\* no trade event the server gives up is lost without a trace.
THEOREM EngineLosesNothing == Dependable => (Spec => []NoSilentLoss)
<1> SUFFICES ASSUME Dependable
             PROVE  Spec => []NoSilentLoss
  OBVIOUS
<1> QED
  BY EngineUsesBus, NothingLostSilently, PTL

-----------------------------------------------------------------------------
(* Type correctness.                                                       *)

\* The key and the request id of a relationship a busy task looks at.
LEMMA CurrentKey ==
    ASSUME BusTypeOK, NEW t \in Tasks, phase[t] # "idle", NEW r \in Rels
    PROVE  KeyOf(t, r) \in Keys /\ IdOf(t, r) \in Ids
BY CurrentDelivery DEF KeyOf, Key, IdOf, Keys, Ids

\* What a publishing task publishes, and what is in flight, is a request.
LEMMA RequestTypes ==
    ASSUME TypeOK
    PROVE  /\ \A t \in Tasks : step[t] \in {"publish", "release", "mark"} =>
                /\ RequestOf(t) = <<KeyOf(t, at[t]), IdOf(t, at[t])>>
                /\ KeyOf(t, at[t]) \in Keys
                /\ IdOf(t, at[t]) \in Ids
           /\ \A req \in inFlight :
                /\ req = <<req[1], req[2]>>
                /\ req[1] \in Keys
                /\ req[2] \in Ids
<1>1. ASSUME NEW t \in Tasks, step[t] \in {"publish", "release", "mark"}
      PROVE  KeyOf(t, at[t]) \in Keys /\ IdOf(t, at[t]) \in Ids
  <2>1. phase[t] # "idle" /\ at[t] \in Rels
    BY <1>1 DEF TypeOK, EngineTypeOK
  <2> QED
    BY <2>1, CurrentKey DEF TypeOK
<1>2. \A req \in inFlight : req = <<req[1], req[2]>> /\ req[1] \in Keys /\ req[2] \in Ids
  BY DEF TypeOK, EngineTypeOK
<1> QED
  BY <1>1, <1>2 DEF RequestOf

\* Storing a request keeps the types of the stream.
LEMMA StoreTypes ==
    ASSUME TypeOK, NEW k \in Keys, NEW id \in Ids, StoreRequest(<<k, id>>)
    PROVE  orders' \subseteq Keys \X Ids /\ remembered' \subseteq Keys
BY DEF TypeOK, EngineTypeOK, StoreRequest

\* A call that dies while it publishes leaves requests in flight.
LEMMA CrashTypes ==
    ASSUME TypeOK, NEW p \in Processes, EngineCrash(p)
    PROVE  inFlight' \subseteq Keys \X Ids
BY RequestTypes DEF TypeOK, EngineTypeOK, EngineCrash

\* A raising call leaves nothing of itself behind in the task.
LEMMA RaiseTypes ==
    ASSUME TypeOK, NEW t \in Tasks, Raise(t), reserved' \subseteq Keys,
           rowId' \in [Keys -> Ids \cup {NoId}],
           rowStatus' \in [Keys -> {"none", "REQUESTED", "PUBLISHED"}],
           UNCHANGED busOut
    PROVE  EngineTypeOK'
BY DEF TypeOK, BusTypeOK, EngineTypeOK, Raise, Forget, HandlerRaises, busOut, Steps, Phases

\* The insert of a request row, and the update that marks it.
LEMMA RowTypes ==
    ASSUME EngineTypeOK, NEW k \in Keys, NEW id \in Ids,
           InsertRow(k, id) \/ MarkRow(k, id)
    PROVE  /\ rowId' \in [Keys -> Ids \cup {NoId}]
           /\ rowStatus' \in [Keys -> {"none", "REQUESTED", "PUBLISHED"}]
           /\ reserved' = reserved
BY DEF EngineTypeOK, InsertRow, MarkRow

\* Every step of a handler call keeps the types of the engine's variables.
LEMMA HandlerTypeStep ==
    ASSUME TypeOK, NEW t \in Tasks, HandlerStep(t)
    PROVE  EngineTypeOK'
<1> USE DEF TypeOK, EngineTypeOK, Steps
<1>1. CASE List(t)
  <2>0. phase[t] = "handling"
    BY <1>1 DEF List
  <2>1. CASE Raise(t) /\ UNCHANGED dbVars
    BY <1>1, <2>1, RaiseTypes DEF List, dbVars
  <2>2. CASE ~Raise(t) \/ ~UNCHANGED dbVars
    <3> DEFINE found == Follows[cur[t].msg] \cap enabled
    <3>1. /\ Goto(t, "reserve")
          /\ todo' = [todo EXCEPT ![t] = found]
          /\ owed' = owed \cup (({cur[t].msg} \ handled) \X found)
          /\ UNCHANGED <<enabled, batch, at, busVars, dbVars, busOut>>
      BY <1>1, <2>2 DEF List, Statement
    <3>2. found \subseteq Rels /\ cur[t].msg \in Messages
      BY <2>0, CurrentDelivery
    <3>3. owed' \subseteq Messages \X Rels
      BY <3>1, <3>2
    <3> QED
      BY <2>0, <3>1, <3>2, <3>3 DEF Goto, busVars, dbVars, busOut
  <2> QED
    BY <2>1, <2>2
<1>2. CASE Reject(t)
  BY <1>2, RaiseTypes DEF Reject, dbVars
<1>3. CASE Release(t)
  BY <1>3, RaiseTypes DEF Release
<1>4. CASE Finish(t)
  BY <1>4 DEF Finish, Forget, HandlerReturns, BusTypeOK, dbVars, busOut
<1>5. CASE Reserved(t)
  BY <1>5 DEF Reserved, Goto, busVars, dbVars, busOut
<1>6. CASE PublishRequest(t) \/ PublishRequestFails(t)
  <2>1. at[t] \in Rels /\ phase[t] = "handling"
    BY <1>6 DEF PublishRequest, PublishRequestFails
  <2>2. KeyOf(t, at[t]) \in Keys /\ IdOf(t, at[t]) \in Ids
    BY <2>1, CurrentKey
  <2>3. /\ StoreRequest(<<KeyOf(t, at[t]), IdOf(t, at[t])>>) \/ UNCHANGED <<orders, remembered>>
        /\ \/ UNCHANGED inFlight
           \/ inFlight' = inFlight \cup {<<KeyOf(t, at[t]), IdOf(t, at[t])>>}
    BY <1>6 DEF PublishRequest, PublishRequestFails, RequestOf, busOut
  <2>4. /\ orders' \subseteq Keys \X Ids
        /\ remembered' \subseteq Keys
        /\ inFlight' \subseteq Keys \X Ids
    BY <2>2, <2>3, StoreTypes
  <2> QED
    BY <1>6, <2>1, <2>4 DEF PublishRequest, PublishRequestFails, Goto, busVars, dbVars
<1>7. CASE Mark(t)
  <2>1. KeyOf(t, at[t]) \in Keys /\ IdOf(t, at[t]) \in Ids
    BY <1>7, CurrentKey DEF Mark
  <2>2. CASE Raise(t)
    <3>1. UNCHANGED dbVars \/ MarkRow(KeyOf(t, at[t]), IdOf(t, at[t]))
      BY <1>7, <2>2 DEF Mark, Statement
    <3> QED
      BY <1>7, <2>1, <2>2, <3>1, RaiseTypes, RowTypes DEF Mark, dbVars
  <2>3. CASE ~Raise(t)
    <3>1. /\ MarkRow(KeyOf(t, at[t]), IdOf(t, at[t]))
          /\ Goto(t, "record")
          /\ at' = [at EXCEPT ![t] = NoRel]
          /\ UNCHANGED <<enabled, todo, batch, owed, busVars, busOut>>
      BY <1>7, <2>3 DEF Mark, Statement
    <3> QED
      BY <1>7, <2>1, <3>1, RowTypes DEF Mark, Goto, busVars, busOut
  <2> QED
    BY <2>2, <2>3
<1>8. ASSUME NEW r \in Rels, Reserve(t, r)
      PROVE  EngineTypeOK'
  <2>1. KeyOf(t, r) \in Keys
    BY <1>8, CurrentKey DEF Reserve
  <2>2. CASE Raise(t)
    BY <1>8, <2>1, <2>2, RaiseTypes DEF Reserve, Statement, dbVars
  <2>3. CASE ~Raise(t)
    BY <1>8, <2>1, <2>3 DEF Reserve, Statement, busVars, dbVars, busOut
  <2> QED
    BY <2>2, <2>3
<1>9. ASSUME NEW r \in Rels, Record(t, r)
      PROVE  EngineTypeOK'
  <2>1. KeyOf(t, r) \in Keys /\ IdOf(t, r) \in Ids
    BY <1>9, CurrentKey DEF Record
  <2>2. CASE Raise(t)
    <3>1. UNCHANGED dbVars \/ InsertRow(KeyOf(t, r), IdOf(t, r))
      BY <1>9, <2>2 DEF Record, Statement
    <3> QED
      BY <1>9, <2>1, <2>2, <3>1, RaiseTypes, RowTypes DEF Record, dbVars
  <2>3. CASE ~Raise(t)
    <3>1. /\ InsertRow(KeyOf(t, r), IdOf(t, r))
          /\ Goto(t, "publish")
          /\ batch' = [batch EXCEPT ![t] = @ \ {r}]
          /\ at' = [at EXCEPT ![t] = r]
          /\ UNCHANGED <<enabled, todo, owed, busVars, busOut>>
      BY <1>9, <2>3 DEF Record, Statement
    <3> QED
      BY <1>9, <2>1, <3>1, RowTypes DEF Record, Goto, busVars, busOut
  <2> QED
    BY <2>2, <2>3
<1> QED
  BY <1>1, <1>2, <1>3, <1>4, <1>5, <1>6, <1>7, <1>8, <1>9 DEF HandlerStep

\* Every step of the engine keeps the types.
LEMMA TypeStep == TypeOK /\ [Next]_vars => TypeOK'
<1> SUFFICES ASSUME TypeOK, [Next]_vars
             PROVE  EngineTypeOK'
  BY BusTypeStep, EngineBusStep DEF TypeOK
<1> USE DEF TypeOK, EngineTypeOK
<1>1. CASE ServerNext /\ UNCHANGED engineVars
  BY <1>1 DEF ServerNext, Publish, Deliver, AckWaitExpires, engineVars, dbVars, busOut
<1>2. ASSUME NEW t \in Tasks, Begin(t)
      PROVE  EngineTypeOK'
  BY <1>2 DEF Begin, Take, Goto, Steps, dbVars, busOut, BusTypeOK
<1>3. ASSUME NEW t \in Tasks, CallbackStep(t), UNCHANGED engineVars
      PROVE  EngineTypeOK'
  BY <1>3 DEF CallbackStep, Nak, DeadLetter, DeadLetterFails, Ack, BecomeIdle,
              engineVars, dbVars, busOut, BusTypeOK
<1>4. ASSUME NEW r \in Rels, Toggle(r)
      PROVE  EngineTypeOK'
  BY <1>4 DEF Toggle, busVars, dbVars, busOut
<1>5. ASSUME NEW k \in Keys, WindowPasses(k)
      PROVE  EngineTypeOK'
  BY <1>5 DEF WindowPasses, busVars, dbVars
<1>6. ASSUME NEW p \in Processes, EngineCrash(p)
      PROVE  EngineTypeOK'
  BY <1>6, CrashTypes DEF EngineCrash, Crash, Forget, dbVars, BusTypeOK, Steps
<1>7. ASSUME NEW req \in inFlight, RequestArrives(req)
      PROVE  EngineTypeOK'
  <2>1. orders' \subseteq Keys \X Ids /\ remembered' \subseteq Keys
    BY <1>7, RequestTypes, StoreTypes DEF RequestArrives
  <2> QED
    BY <1>7, <2>1 DEF RequestArrives, busVars, dbVars
<1>8. CASE UNCHANGED vars
  BY <1>8 DEF vars, busVars, engineVars, dbVars, busOut
<1> QED
  BY <1>1, <1>2, <1>3, <1>4, <1>5, <1>6, <1>7, <1>8, HandlerTypeStep DEF Next, TaskStep

\* Type correctness of the engine: every variable keeps its type, and a task
\* is inside the handler exactly while its callback awaits it.
THEOREM TypeCorrect == Spec => []TypeOK
<1>1. Init => BusTypeOK
  BY BusInitTypes DEF Init
<1>2. Init => EngineTypeOK
  BY DEF Init, BusInit, EngineTypeOK, Steps
<1>3. Init => TypeOK
  BY <1>1, <1>2 DEF TypeOK
<1> QED
  BY <1>3, TypeStep, PTL DEF Spec

-----------------------------------------------------------------------------
(* Who holds a key.                                                        *)

\* A task outside the handler, or before its first reservation, holds
\* nothing; the relationship it publishes for has left the batch.
BatchApart ==
    \A t \in Tasks :
        /\ step[t] \in {"none", "list"} => batch[t] = {}
        /\ step[t] \in {"publish", "release", "mark"} => at[t] \notin batch[t]

\* Two relationships of one call have different keys.
LEMMA KeysDiffer ==
    ASSUME NEW t, NEW r, NEW s, KeyOf(t, r) = KeyOf(t, s)
    PROVE  r = s
BY DEF KeyOf, Key

\* While a task's call does not touch its batch, its delivery or its place,
\* it holds what it held.
LEMMA HoldsKept ==
    ASSUME NEW u, NEW k, UNCHANGED <<batch, cur, step, at>>
    PROVE  Holds(u, k)' <=> Holds(u, k)
BY DEF Holds, KeyOf, Key

\* After raising, a call holds nothing; the other calls keep what they held.
LEMMA RaiseHolds ==
    ASSUME TypeOK, NEW t \in Tasks, Raise(t), NEW u \in Tasks, NEW k, Holds(u, k)'
    PROVE  u # t /\ Holds(u, k)
BY DEF TypeOK, BusTypeOK, EngineTypeOK, Raise, HandlerRaises, Forget, Holds, KeyOf, Key

\* The three ways a step of one call t changes who holds what: nobody gains a
\* key; t gains a key that was not reserved; or t, leaving, frees the one key
\* it holds for publishing.
Loses == /\ \A u \in Tasks, k \in Keys : Holds(u, k)' => Holds(u, k)
         /\ reserved \subseteq reserved'

Gains(t, key) ==
    /\ key \in Keys \ reserved
    /\ reserved' = reserved \cup {key}
    /\ \A u \in Tasks, k \in Keys :
         Holds(u, k)' => Holds(u, k) \/ (u = t /\ k = key)

Frees(t, key) ==
    /\ Holds(t, key)
    /\ reserved \ {key} \subseteq reserved'
    /\ \A u \in Tasks, k \in Keys : Holds(u, k)' => u # t /\ Holds(u, k)

\* Each step of a handler call is of one of the three kinds.
LEMMA HandlerHolds ==
    ASSUME TypeOK, BatchApart, NEW t \in Tasks, HandlerStep(t)
    PROVE  Loses \/ \E k \in Keys : Gains(t, k) \/ Frees(t, k)
<1> USE DEF TypeOK, BusTypeOK, EngineTypeOK
<1>1. ASSUME Raise(t), reserved \subseteq reserved'
      PROVE  Loses
  BY <1>1, RaiseHolds DEF Loses
<1>2. CASE List(t) \/ Reject(t) \/ Reserved(t)
  <2>1. CASE Raise(t)
    BY <1>1, <1>2, <2>1 DEF List, Reject, Reserved, Statement, dbVars, HandlerRaises, Raise
  <2>2. CASE ~Raise(t)
    <3>1. /\ UNCHANGED <<batch, cur, at, reserved>>
          /\ step[t] \in {"list", "reserve"}
          /\ step' = [step EXCEPT ![t] = "reserve"] \/ step' = [step EXCEPT ![t] = "record"]
      BY <1>2, <2>2 DEF List, Reject, Reserved, Statement, Goto, dbVars, busVars
    <3> QED
      BY <3>1 DEF Loses, Holds, KeyOf, Key
  <2> QED
    BY <2>1, <2>2
<1>3. CASE PublishRequest(t) \/ PublishRequestFails(t)
  <2>1. /\ UNCHANGED <<batch, cur, at, reserved>>
        /\ step[t] = "publish"
        /\ step' = [step EXCEPT ![t] = "mark"] \/ step' = [step EXCEPT ![t] = "release"]
    BY <1>3 DEF PublishRequest, PublishRequestFails, Goto, busVars, dbVars
  <2> QED
    BY <2>1 DEF Loses, Holds, KeyOf, Key
<1>4. CASE Release(t)
  <2>1. phase[t] = "handling" /\ at[t] \in Rels /\ step[t] = "release"
    BY <1>4 DEF Release
  <2>2. KeyOf(t, at[t]) \in Keys /\ Holds(t, KeyOf(t, at[t]))
    BY <2>1, CurrentKey DEF Holds
  <2>3. reserved \ {KeyOf(t, at[t])} \subseteq reserved'
    BY <1>4 DEF Release
  <2>4. \A u \in Tasks, k \in Keys : Holds(u, k)' => u # t /\ Holds(u, k)
    BY <1>4, RaiseHolds DEF Release
  <2> QED
    BY <2>2, <2>3, <2>4 DEF Frees
<1>5. CASE Mark(t)
  <2>1. CASE Raise(t)
    BY <1>1, <1>5, <2>1 DEF Mark, Statement, dbVars, MarkRow
  <2>2. CASE ~Raise(t)
    <3>1. /\ UNCHANGED <<batch, cur, reserved>>
          /\ step' = [step EXCEPT ![t] = "record"]
          /\ at' = [at EXCEPT ![t] = NoRel]
      BY <1>5, <2>2 DEF Mark, Statement, MarkRow, Goto, busVars
    <3> QED
      BY <3>1 DEF Loses, Holds, KeyOf, Key
  <2> QED
    BY <2>1, <2>2
<1>6. CASE Finish(t)
  BY <1>6 DEF Finish, Forget, HandlerReturns, dbVars, Loses, Holds, KeyOf, Key
<1>7. ASSUME NEW r \in Rels, Record(t, r)
      PROVE  Loses
  <2>1. CASE Raise(t)
    <3>1. reserved' = reserved
      <4>1. UNCHANGED dbVars \/ InsertRow(KeyOf(t, r), IdOf(t, r))
        BY <1>7, <2>1 DEF Record, Statement
      <4> QED
        BY <4>1 DEF dbVars, InsertRow
    <3> QED
      BY <1>1, <2>1, <3>1
  <2>2. CASE ~Raise(t)
    <3>1. /\ UNCHANGED <<cur, reserved>>
          /\ r \in batch[t]
          /\ batch' = [batch EXCEPT ![t] = @ \ {r}]
          /\ step' = [step EXCEPT ![t] = "publish"]
          /\ at' = [at EXCEPT ![t] = r]
      BY <1>7, <2>2 DEF Record, Statement, InsertRow, Goto, busVars
    <3> QED
      BY <3>1 DEF Loses, Holds, KeyOf, Key
  <2> QED
    BY <2>1, <2>2
<1>8. ASSUME NEW r \in Rels, Reserve(t, r)
      PROVE  Loses \/ Gains(t, KeyOf(t, r))
  <2>1. CASE Raise(t)
    <3>1. reserved \subseteq reserved'
      <4>1. \/ UNCHANGED dbVars
            \/ reserved' = reserved \cup {KeyOf(t, r)}
        BY <1>8, <2>1 DEF Reserve, Statement
      <4> QED
        BY <4>1 DEF dbVars
    <3> QED
      BY <1>1, <2>1, <3>1
  <2>2. CASE ~Raise(t)
    <3>1. /\ UNCHANGED <<cur, step, at>>
          /\ reserved' = reserved \cup {KeyOf(t, r)}
          /\ batch' = [batch EXCEPT ![t] =
                         IF KeyOf(t, r) \in reserved THEN @ ELSE @ \cup {r}]
      BY <1>8, <2>2 DEF Reserve, Statement, busVars
    <3>2. KeyOf(t, r) \in Keys
      BY <1>8, CurrentKey DEF Reserve
    <3>3. CASE KeyOf(t, r) \in reserved
      BY <3>1, <3>3, HoldsKept DEF Loses
    <3>4. CASE KeyOf(t, r) \notin reserved
      <4>1. ASSUME NEW u \in Tasks, NEW k \in Keys, Holds(u, k)'
            PROVE  Holds(u, k) \/ (u = t /\ k = KeyOf(t, r))
        BY <3>1, <3>4, <4>1 DEF Holds, KeyOf, Key
      <4> QED
        BY <3>1, <3>2, <3>4, <4>1 DEF Gains
    <3> QED
      BY <3>3, <3>4
  <2> QED
    BY <2>1, <2>2
<1> QED
  <2>1. \A r \in Rels : Reserve(t, r) => KeyOf(t, r) \in Keys
    BY CurrentKey DEF Reserve
  <2> QED
    BY <1>2, <1>3, <1>4, <1>5, <1>6, <1>7, <1>8, <2>1 DEF HandlerStep

\* BatchApart is kept by every step.
LEMMA BatchApartStep == TypeOK /\ BatchApart /\ [Next]_vars => BatchApart'
<1> SUFFICES ASSUME TypeOK, BatchApart, [Next]_vars
             PROVE  BatchApart'
  OBVIOUS
<1> USE DEF TypeOK, BusTypeOK, EngineTypeOK, BatchApart
<1>1. CASE UNCHANGED <<step, batch, at>>
  BY <1>1
<1>2. ASSUME NEW t \in Tasks, Raise(t)
      PROVE  BatchApart'
  BY <1>2 DEF Raise, Forget
<1>3. ASSUME NEW t \in Tasks, NEW s \in {"record", "mark", "release"},
             UNCHANGED <<batch, at>>, step' = [step EXCEPT ![t] = s],
             step[t] \in {"reserve", "publish"},
             s # "record" => step[t] = "publish"
      PROVE  BatchApart'
  BY <1>3
<1>4. ASSUME NEW t \in Tasks, HandlerStep(t), ~Raise(t)
      PROVE  BatchApart'
  <2>1. CASE List(t)
    BY <1>4, <2>1 DEF List, Statement, Goto
  <2>2. CASE Reject(t) \/ Release(t)
    BY <1>4, <2>2 DEF Reject, Release
  <2>3. CASE Reserved(t)
    BY <1>3, <2>3 DEF Reserved, Goto
  <2>4. CASE PublishRequest(t) \/ PublishRequestFails(t)
    BY <2>4 DEF PublishRequest, PublishRequestFails, Goto
  <2>5. CASE Mark(t)
    BY <1>4, <2>5 DEF Mark, Statement, Goto
  <2>6. CASE Finish(t)
    BY <2>6 DEF Finish, Forget
  <2>7. ASSUME NEW r \in Rels, Reserve(t, r)
        PROVE  BatchApart'
    BY <1>4, <2>7 DEF Reserve, Statement
  <2>8. ASSUME NEW r \in Rels, Record(t, r)
        PROVE  BatchApart'
    <3>1. /\ batch' = [batch EXCEPT ![t] = @ \ {r}]
          /\ step' = [step EXCEPT ![t] = "publish"]
          /\ at' = [at EXCEPT ![t] = r]
      BY <1>4, <2>8 DEF Record, Statement, Goto
    <3> QED
      BY <3>1
  <2> QED
    BY <1>4, <2>1, <2>2, <2>3, <2>4, <2>5, <2>6, <2>7, <2>8 DEF HandlerStep
<1>5. ASSUME NEW t \in Tasks, Begin(t)
      PROVE  BatchApart'
  BY <1>5 DEF Begin, Take, Goto
<1>6. ASSUME NEW p \in Processes, EngineCrash(p)
      PROVE  BatchApart'
  BY <1>6 DEF EngineCrash, Forget
<1> QED
  BY <1>1, <1>2, <1>4, <1>5, <1>6
  DEF Next, TaskStep, Toggle, WindowPasses, RequestArrives, engineVars, vars

\* Each step of the engine is of one of the three kinds.
LEMMA NextHolds ==
    ASSUME TypeOK, BatchApart, [Next]_vars
    PROVE  Loses \/ \E t \in Tasks, k \in Keys : Gains(t, k) \/ Frees(t, k)
<1> USE DEF TypeOK, BusTypeOK, EngineTypeOK, BatchApart
<1>1. CASE UNCHANGED <<batch, cur, step, at, reserved>>
  BY <1>1, HoldsKept DEF Loses
<1>2. ASSUME NEW t \in Tasks, Begin(t)
      PROVE  Loses
  <2>1. /\ phase[t] = "idle" /\ step[t] = "none" /\ batch[t] = {}
        /\ step' = [step EXCEPT ![t] = "list"]
        /\ \A u \in Tasks : u # t => cur'[u] = cur[u]
        /\ UNCHANGED <<batch, at, reserved>>
    BY <1>2 DEF Begin, Take, Goto, dbVars
  <2> QED
    BY <2>1 DEF Loses, Holds, KeyOf, Key
<1>3. ASSUME NEW t \in Tasks, CallbackStep(t), UNCHANGED engineVars
      PROVE  Loses
  <2>1. step[t] = "none" /\ batch[t] = {}
    BY <1>3 DEF CallbackStep, Nak, DeadLetter, DeadLetterFails, Ack
  <2>2. /\ UNCHANGED <<batch, step, at, reserved>>
        /\ \A u \in Tasks : u # t => cur'[u] = cur[u]
    BY <1>3 DEF engineVars, dbVars, CallbackStep, Nak, DeadLetter,
                DeadLetterFails, Ack, BecomeIdle
  <2> QED
    BY <2>1, <2>2 DEF Loses, Holds, KeyOf, Key
<1>4. ASSUME NEW p \in Processes, EngineCrash(p)
      PROVE  Loses
  BY <1>4 DEF EngineCrash, Crash, Forget, Loses, Holds, KeyOf, Key, dbVars
<1>5. CASE ServerNext /\ UNCHANGED engineVars
  BY <1>1, <1>5 DEF ServerNext, Publish, Deliver, AckWaitExpires, engineVars, dbVars
<1>6. CASE \/ \E r \in Rels : Toggle(r)
           \/ \E k \in Keys : WindowPasses(k)
           \/ \E req \in inFlight : RequestArrives(req)
           \/ UNCHANGED vars
  BY <1>1, <1>6 DEF Toggle, WindowPasses, RequestArrives, vars, busVars, engineVars, dbVars
<1> QED
  BY <1>2, <1>3, <1>4, <1>5, <1>6, HandlerHolds DEF Next, TaskStep

HoldInv == BatchApart /\ OneHolder

\* Only the holder of a key frees it, and only a key that is not reserved is
\* gained, so a key never has two holders.
LEMMA HoldInvStep == TypeOK /\ HoldInv /\ [Next]_vars => HoldInv'
<1> SUFFICES ASSUME TypeOK, HoldInv, [Next]_vars
             PROVE  OneHolder'
  BY BatchApartStep DEF HoldInv
<1> USE DEF HoldInv, OneHolder
<1>1. CASE Loses
  BY <1>1 DEF Loses
<1>2. ASSUME NEW t \in Tasks, NEW k \in Keys, Gains(t, k)
      PROVE  OneHolder'
  BY <1>2 DEF Gains
<1>3. ASSUME NEW t \in Tasks, NEW k \in Keys, Frees(t, k)
      PROVE  OneHolder'
  BY <1>3 DEF Frees
<1> QED
  BY <1>1, <1>2, <1>3, NextHolds

\* Nobody holds anything at first.
LEMMA HoldInvInit == Init => HoldInv
BY DEF Init, HoldInv, BatchApart, OneHolder, Holds

\* Whatever fails and however many workers are given the same event: at most
\* one handler call at a time may record, publish or release the request of
\* one key, and that key is reserved all the while.
THEOREM HolderUnique == Spec => []OneHolder
<1>1. HoldInv => OneHolder
  BY DEF HoldInv
<1> QED
  BY <1>1, HoldInvInit, HoldInvStep, TypeCorrect, PTL DEF Spec

-----------------------------------------------------------------------------
(* No copy is ordered twice.                                               *)

\* Every request a call has sent and no longer waits for, arrived or not.
Sent == orders \cup inFlight

SentFor(k) == \E id \in Ids : <<k, id>> \in Sent

\* If a publish that raises has sent nothing, the key of a request sent stays
\* reserved and nobody is given it again.
SentIsClosed ==
    \A k \in Keys : SentFor(k) => k \in reserved /\ \A t \in Tasks : ~Holds(t, k)

SentOnce ==
    \A k \in Keys, i, j \in Ids : <<k, i>> \in Sent /\ <<k, j>> \in Sent => i = j

\* If the duplicate window never passes, the stream remembers every key.
OrderedIsRemembered == \A k \in Keys : Ordered(k) => k \in remembered

\* The stream stores one request and remembers its key, or stores nothing.
\* What it stores is for a key it did not remember, and comes from a call that
\* publishes or was in flight.
LEMMA StreamChange ==
    ASSUME TypeOK, [Next]_vars
    PROVE  \/ orders' = orders /\ remembered' \subseteq remembered
           \/ \E k \in Keys, id \in Ids :
                /\ k \notin remembered
                /\ orders' = orders \cup {<<k, id>>}
                /\ remembered' = remembered \cup {k}
                /\ \/ /\ <<k, id>> \in inFlight
                      /\ RequestArrives(<<k, id>>)
                   \/ \E t \in Tasks :
                        /\ step[t] = "publish"
                        /\ at[t] \in Rels
                        /\ k = KeyOf(t, at[t])
                        /\ id = IdOf(t, at[t])
                        /\ PublishRequest(t)
<1> USE DEF busOut
<1>1. ASSUME NEW k \in Keys, NEW id \in Ids, StoreRequest(<<k, id>>)
      PROVE  \/ UNCHANGED <<orders, remembered>>
             \/ /\ k \notin remembered
                /\ orders' = orders \cup {<<k, id>>}
                /\ remembered' = remembered \cup {k}
  BY <1>1 DEF StoreRequest
<1>2. CASE \E req \in inFlight : RequestArrives(req)
  <2>1. PICK k \in Keys, id \in Ids : <<k, id>> \in inFlight /\ RequestArrives(<<k, id>>)
    BY <1>2, RequestTypes
  <2>2. StoreRequest(<<k, id>>)
    BY <2>1 DEF RequestArrives
  <2> QED
    BY <1>1, <2>1, <2>2
<1>3. CASE \E t \in Tasks : PublishRequest(t)
  <2>1. PICK t \in Tasks : PublishRequest(t)
    BY <1>3
  <2>2. StoreRequest(RequestOf(t)) /\ step[t] = "publish"
    BY <2>1 DEF PublishRequest
  <2>3. at[t] \in Rels
    BY <2>2 DEF TypeOK, EngineTypeOK
  <2>4. PICK k \in Keys, id \in Ids : k = KeyOf(t, at[t]) /\ id = IdOf(t, at[t])
    BY <2>2, RequestTypes
  <2>5. StoreRequest(<<k, id>>)
    BY <2>2, <2>4 DEF RequestOf
  <2> QED
    BY <1>1, <2>1, <2>2, <2>3, <2>4, <2>5
<1>4. CASE ~(\E req \in inFlight : RequestArrives(req)) /\ ~\E t \in Tasks : PublishRequest(t)
  <2>1. CASE \E t \in Tasks : HandlerStep(t)
    BY <1>4, <2>1 DEF HandlerStep, List, Reject, Reserved, Release, Mark, Finish,
                      Reserve, Record, PublishRequestFails
  <2>2. CASE ~\E t \in Tasks : HandlerStep(t)
    BY <1>4, <2>2 DEF Next, TaskStep, Begin, Toggle, WindowPasses, EngineCrash, engineVars, vars
  <2> QED
    BY <2>1, <2>2
<1> QED
  BY <1>2, <1>3, <1>4

\* What the stream remembers it has stored.
RememberedIsOrdered == \A k \in remembered : Ordered(k)

\* RememberedIsOrdered is kept by every step.
LEMMA RememberedIsOrderedStep ==
    ASSUME TypeOK, RememberedIsOrdered, [Next]_vars
    PROVE  RememberedIsOrdered'
BY StreamChange DEF RememberedIsOrdered, Ordered

\* A first order for a key is its only one.
LEMMA FirstOrder ==
    ASSUME NoDuplicateOrder, NEW key \in Keys, NEW id \in Ids, ~Ordered(key),
           orders' = orders \cup {<<key, id>>}
    PROVE  /\ NoDuplicateOrder'
           /\ \A k \in Keys : Ordered(k)' => Ordered(k) \/ k = key
BY DEF NoDuplicateOrder, Ordered

\* Without a change of the stream, no key becomes ordered.
LEMMA SameOrders ==
    ASSUME NoDuplicateOrder, orders' = orders
    PROVE  /\ NoDuplicateOrder'
           /\ \A k \in Keys : Ordered(k)' <=> Ordered(k)
BY DEF NoDuplicateOrder, Ordered

\* Publishing moves one call from "publish" to "mark" and releases nothing.
LEMMA PublishHolds ==
    ASSUME TypeOK, HoldInv, NEW t \in Tasks, PublishRequest(t)
    PROVE  /\ reserved' = reserved
           /\ Holds(t, KeyOf(t, at[t]))
           /\ \A k \in Keys : Holds(t, k)' => k # KeyOf(t, at[t])
           /\ \A u \in Tasks, k \in Keys : Holds(u, k)' => Holds(u, k)
<1>1. /\ step[t] = "publish"
      /\ step' = [step EXCEPT ![t] = "mark"]
      /\ UNCHANGED <<batch, at, cur, reserved>>
  BY DEF PublishRequest, Goto, busVars, dbVars
<1>2. step'[t] = "mark" /\ at[t] \notin batch[t]
  BY <1>1 DEF TypeOK, EngineTypeOK, HoldInv, BatchApart
<1>3. \A k \in Keys : Holds(t, k)' => k # KeyOf(t, at[t])
  BY <1>1, <1>2, KeysDiffer DEF Holds, KeyOf, Key
<1> QED
  BY <1>1, <1>3 DEF TypeOK, EngineTypeOK, Holds, KeyOf, Key

\* A crashing call leaves its request in flight and holds its key no more.
LEMMA CrashHolds ==
    ASSUME TypeOK, NEW p \in Processes, EngineCrash(p)
    PROVE  /\ reserved' = reserved
           /\ \A t \in Tasks, k \in Keys : Holds(t, k)' => Holds(t, k) /\ Host[t] # p
           /\ \A s \in inFlight' : \/ s \in inFlight
                                   \/ \E t \in Tasks : /\ Host[t] = p
                                                       /\ step[t] = "publish"
                                                       /\ s = RequestOf(t)
<1>1. /\ UNCHANGED reserved
      /\ \A s \in inFlight' : \/ s \in inFlight
                              \/ \E t \in Tasks : /\ Host[t] = p
                                                  /\ step[t] = "publish"
                                                  /\ s = RequestOf(t)
  BY DEF EngineCrash, dbVars
<1>2. ASSUME NEW t \in Tasks, NEW k \in Keys, Holds(t, k)'
      PROVE  Holds(t, k) /\ Host[t] # p
  BY <1>2 DEF EngineCrash, Crash, Forget, Holds, KeyOf, Key, TypeOK, BusTypeOK, EngineTypeOK
<1> QED
  BY <1>1, <1>2

\* A request is newly sent by a call that held its key until this step.
LEMMA SentGrows ==
    ASSUME "publish_ambiguous" \notin Faults, TypeOK, HoldInv, [Next]_vars
    PROVE  \A s \in Sent' \ Sent :
             \E t \in Tasks : /\ step[t] = "publish"
                              /\ s = RequestOf(t)
                              /\ Holds(t, s[1])
                              /\ ~Holds(t, s[1])'
                              /\ reserved' = reserved
                              /\ \A u \in Tasks, k \in Keys : Holds(u, k)' => Holds(u, k)
<1> USE DEF Sent
<1>1. ASSUME NEW t \in Tasks, step[t] = "publish"
      PROVE  /\ RequestOf(t)[1] = KeyOf(t, at[t])
             /\ KeyOf(t, at[t]) \in Keys
             /\ Holds(t, KeyOf(t, at[t]))
  BY <1>1, RequestTypes DEF Holds
<1>2. CASE orders' # orders
  <2>1. PICK k \in Keys, id \in Ids :
          /\ orders' = orders \cup {<<k, id>>}
          /\ \/ /\ <<k, id>> \in inFlight
                /\ RequestArrives(<<k, id>>)
             \/ \E t \in Tasks :
                  /\ step[t] = "publish"
                  /\ k = KeyOf(t, at[t])
                  /\ id = IdOf(t, at[t])
                  /\ PublishRequest(t)
    BY <1>2, StreamChange
  <2>2. CASE <<k, id>> \in inFlight /\ RequestArrives(<<k, id>>)
    <3>1. Sent' \subseteq Sent
      BY <2>1, <2>2 DEF RequestArrives
    <3> QED
      BY <3>1
  <2>3. ASSUME NEW t \in Tasks, step[t] = "publish", k = KeyOf(t, at[t]),
               id = IdOf(t, at[t]), PublishRequest(t)
        PROVE  \A s \in Sent' \ Sent :
                 /\ s = RequestOf(t)
                 /\ Holds(t, s[1])
                 /\ ~Holds(t, s[1])'
                 /\ reserved' = reserved
                 /\ \A u \in Tasks, l \in Keys : Holds(u, l)' => Holds(u, l)
    <3>1. \A s \in Sent' \ Sent : s = RequestOf(t)
      BY <2>1, <2>3 DEF PublishRequest, RequestOf
    <3> QED
      BY <1>1, <2>3, <3>1, PublishHolds
  <2> QED
    BY <2>1, <2>2, <2>3
<1>3. CASE orders' = orders
  <2>1. ASSUME NEW p \in Processes, EngineCrash(p), NEW s \in Sent' \ Sent
        PROVE  \E t \in Tasks : /\ step[t] = "publish"
                                /\ s = RequestOf(t)
                                /\ Holds(t, s[1])
                                /\ ~Holds(t, s[1])'
                                /\ reserved' = reserved
                                /\ \A u \in Tasks, k \in Keys : Holds(u, k)' => Holds(u, k)
    <3>1. PICK t \in Tasks : Host[t] = p /\ step[t] = "publish" /\ s = RequestOf(t)
      BY <1>3, <2>1, CrashHolds
    <3>2. s[1] \in Keys /\ Holds(t, s[1])
      BY <1>1, <3>1
    <3> QED
      BY <2>1, <3>1, <3>2, CrashHolds
  <2>2. CASE ~\E p \in Processes : EngineCrash(p)
    <3>1. inFlight' \subseteq inFlight
      <4>1. CASE \E t \in Tasks : HandlerStep(t)
        BY <4>1 DEF HandlerStep, List, Reject, Reserved, Release, Mark, Finish, Reserve,
                    Record, PublishRequest, PublishRequestFails, busOut
      <4>2. CASE ~\E t \in Tasks : HandlerStep(t)
        BY <2>2, <4>2 DEF Next, TaskStep, Begin, Toggle, WindowPasses, RequestArrives,
                          engineVars, vars, busOut
      <4> QED
        BY <4>1, <4>2
    <3> QED
      BY <1>3, <3>1
  <2> QED
    BY <2>1, <2>2
<1> QED
  BY <1>2, <1>3

\* A copy whose request was sent stays closed: its key can neither be gained
\* nor freed.
LEMMA ClosedStep ==
    ASSUME "publish_ambiguous" \notin Faults, TypeOK, HoldInv,
           SentIsClosed, SentOnce, [Next]_vars
    PROVE  SentIsClosed' /\ SentOnce'
<1>1. TypeOK'
  BY TypeStep
<1> DEFINE New(s, t) == /\ step[t] = "publish"
                        /\ s = RequestOf(t)
                        /\ Holds(t, s[1])
                        /\ ~Holds(t, s[1])'
                        /\ reserved' = reserved
                        /\ \A u \in Tasks, l \in Keys : Holds(u, l)' => Holds(u, l)
<1>2. \A s \in Sent' \ Sent : \E t \in Tasks : New(s, t)
  BY SentGrows
<1>3. ASSUME NEW k \in Keys, NEW id \in Ids, NEW t \in Tasks, New(<<k, id>>, t)
      PROVE  /\ k \in reserved'
             /\ \A u \in Tasks : ~Holds(u, k)'
             /\ ~SentFor(k)
             /\ \A u \in Tasks : Holds(u, k) => u = t
  <2>1. Holds(t, k) /\ ~Holds(t, k)' /\ reserved' = reserved
    BY <1>3
  <2>2. k \in reserved /\ \A u \in Tasks : Holds(u, k) => u = t
    BY <2>1 DEF HoldInv, OneHolder
  <2>3. ~SentFor(k)
    BY <2>1 DEF SentIsClosed
  <2>4. \A u \in Tasks : ~Holds(u, k)'
    BY <1>3, <2>1, <2>2
  <2> QED
    BY <2>1, <2>2, <2>3, <2>4
<1> HIDE DEF New
<1>4. ASSUME NEW k \in Keys, SentFor(k)
      PROVE  k \in reserved' /\ \A u \in Tasks : ~Holds(u, k)'
  <2>1. k \in reserved /\ \A u \in Tasks : ~Holds(u, k)
    BY <1>4 DEF SentIsClosed
  <2>2. CASE Loses
    BY <2>1, <2>2 DEF Loses
  <2>3. ASSUME NEW t \in Tasks, NEW key \in Keys, Gains(t, key)
        PROVE  k \in reserved' /\ \A u \in Tasks : ~Holds(u, k)'
    BY <2>1, <2>3 DEF Gains
  <2>4. ASSUME NEW t \in Tasks, NEW key \in Keys, Frees(t, key)
        PROVE  k \in reserved' /\ \A u \in Tasks : ~Holds(u, k)'
    BY <2>1, <2>4 DEF Frees
  <2> QED
    BY <2>2, <2>3, <2>4, NextHolds DEF HoldInv
<1>5. SentIsClosed'
  <2> SUFFICES ASSUME NEW k \in Keys, NEW id \in Ids, <<k, id>> \in Sent'
               PROVE  k \in reserved' /\ \A u \in Tasks : ~Holds(u, k)'
    BY DEF SentIsClosed, SentFor
  <2> QED
    BY <1>2, <1>3, <1>4 DEF SentFor
<1>6. SentOnce'
  <2> SUFFICES ASSUME NEW k \in Keys, NEW i \in Ids, NEW j \in Ids,
                      <<k, i>> \in Sent', <<k, j>> \in Sent'
               PROVE  i = j
    BY DEF SentOnce
  <2>1. CASE <<k, i>> \in Sent /\ <<k, j>> \in Sent
    BY <2>1 DEF SentOnce
  <2>2. ASSUME NEW t \in Tasks, New(<<k, i>>, t), <<k, j>> \in Sent
        PROVE  FALSE
    BY <1>3, <2>2 DEF SentFor
  <2>3. ASSUME NEW t \in Tasks, New(<<k, j>>, t), <<k, i>> \in Sent
        PROVE  FALSE
    BY <1>3, <2>3 DEF SentFor
  <2>4. ASSUME NEW t \in Tasks, NEW u \in Tasks, New(<<k, i>>, t), New(<<k, j>>, u)
        PROVE  i = j
    <3>1. Holds(u, k) /\ <<k, i>> = RequestOf(t) /\ <<k, j>> = RequestOf(u)
      BY <2>4 DEF New
    <3>2. u = t
      BY <1>3, <2>4, <3>1
    <3> QED
      BY <3>1, <3>2
  <2> QED
    BY <1>2, <2>1, <2>2, <2>3, <2>4
<1> QED
  BY <1>5, <1>6

\* The stream stores a request only for a key it does not remember.
LEMMA RememberedStep ==
    ASSUME "dedupe_expiry" \notin Faults, TypeOK,
           OrderedIsRemembered, NoDuplicateOrder, [Next]_vars
    PROVE  OrderedIsRemembered' /\ NoDuplicateOrder'
<1>1. CASE orders' = orders
  <2>1. NoDuplicateOrder' /\ \A k \in Keys : Ordered(k)' => Ordered(k)
    BY <1>1, SameOrders
  <2>2. remembered \subseteq remembered'
    <3>1. CASE \E t \in Tasks : HandlerStep(t)
      BY <3>1 DEF HandlerStep, List, Reject, Reserved, Release, Mark, Finish, Reserve,
                  Record, PublishRequest, PublishRequestFails, StoreRequest, busOut
    <3>2. CASE ~\E t \in Tasks : HandlerStep(t)
      BY <3>2 DEF Next, TaskStep, Begin, Toggle, WindowPasses, EngineCrash,
                  RequestArrives, StoreRequest, engineVars, vars, busOut
    <3> QED
      BY <3>1, <3>2
  <2> QED
    BY <2>1, <2>2 DEF OrderedIsRemembered
<1>2. CASE orders' # orders
  <2>1. PICK key \in Keys, id \in Ids :
          /\ key \notin remembered
          /\ orders' = orders \cup {<<key, id>>}
          /\ remembered' = remembered \cup {key}
    BY <1>2, StreamChange
  <2>2. ~Ordered(key)
    BY <2>1 DEF OrderedIsRemembered
  <2> QED
    BY <2>1, <2>2, FirstOrder DEF OrderedIsRemembered
<1> QED
  BY <1>1, <1>2

\* Two execution requests with one idempotency key are never both in the
\* stream, whatever else fails, if either a publish that raises has sent
\* nothing or the duplicate window outlasts every retry.
THEOREM NeverOrderedTwice ==
    ("publish_ambiguous" \notin Faults \/ "dedupe_expiry" \notin Faults)
        => (Spec => []NoDuplicateOrder)
<1>1. ASSUME "publish_ambiguous" \notin Faults
      PROVE  Spec => []NoDuplicateOrder
  <2>1. Init => HoldInv /\ SentIsClosed /\ SentOnce
    BY HoldInvInit DEF Init, SentIsClosed, SentOnce, SentFor, Sent
  <2>2. TypeOK /\ HoldInv /\ SentIsClosed /\ SentOnce /\ [Next]_vars
          => SentIsClosed' /\ SentOnce'
    BY <1>1, ClosedStep
  <2>3. SentOnce => NoDuplicateOrder
    BY DEF SentOnce, NoDuplicateOrder, Sent
  <2> QED
    BY <2>1, <2>2, <2>3, HoldInvStep, TypeCorrect, PTL DEF Spec
<1>2. ASSUME "dedupe_expiry" \notin Faults
      PROVE  Spec => []NoDuplicateOrder
  <2>1. Init => OrderedIsRemembered /\ NoDuplicateOrder
    BY DEF Init, OrderedIsRemembered, NoDuplicateOrder, Ordered
  <2>2. TypeOK /\ OrderedIsRemembered /\ NoDuplicateOrder /\ [Next]_vars
          => OrderedIsRemembered' /\ NoDuplicateOrder'
    BY <1>2, RememberedStep
  <2> QED
    BY <2>1, <2>2, TypeCorrect, PTL DEF Spec
<1> QED
  BY <1>1, <1>2

-----------------------------------------------------------------------------
(* The ledger.                                                             *)

\* A request the stream would store is the first for its key.
FirstPublish ==
    /\ \A t \in Tasks :
         step[t] = "publish" /\ KeyOf(t, at[t]) \notin remembered => ~Ordered(KeyOf(t, at[t]))
    /\ \A req \in inFlight :
         req[1] \notin remembered => ~Ordered(req[1]) \/ req \in orders

\* What is in flight changes by arrivals, and by calls that stop waiting.
LEMMA InFlightChange ==
    ASSUME TypeOK, [Next]_vars
    PROVE  \/ \E req \in inFlight : RequestArrives(req)
           \/ /\ inFlight \subseteq inFlight'
              /\ \A s \in inFlight' \ inFlight :
                   \E t \in Tasks : /\ step[t] = "publish"
                                    /\ s = RequestOf(t)
                                    /\ step'[t] # "publish"
              /\ inFlight' # inFlight => Faults \cap {"publish_ambiguous", "crash"} # {}
<1> SUFFICES ASSUME ~\E req \in inFlight : RequestArrives(req)
             PROVE  /\ inFlight \subseteq inFlight'
                    /\ \A s \in inFlight' \ inFlight :
                         \E t \in Tasks : /\ step[t] = "publish"
                                          /\ s = RequestOf(t)
                                          /\ step'[t] # "publish"
                    /\ inFlight' # inFlight => Faults \cap {"publish_ambiguous", "crash"} # {}
  OBVIOUS
<1>1. CASE \E t \in Tasks : PublishRequestFails(t)
  <2>1. PICK t \in Tasks : PublishRequestFails(t)
    BY <1>1
  <2> QED
    BY <2>1 DEF PublishRequestFails, Goto, busOut, TypeOK, EngineTypeOK
<1>2. CASE \E p \in Processes : EngineCrash(p)
  BY <1>2 DEF EngineCrash, Crash, Forget, TypeOK, EngineTypeOK
<1>3. CASE ~\E t \in Tasks : PublishRequestFails(t)
  <2>1. CASE \E t \in Tasks : HandlerStep(t)
    BY <1>3, <2>1 DEF HandlerStep, List, Reject, Reserved, Release, Mark, Finish, Reserve,
                Record, PublishRequest, busOut
  <2>2. CASE ~\E t \in Tasks : HandlerStep(t)
    BY <1>2, <2>2 DEF Next, TaskStep, Begin, Toggle, WindowPasses, engineVars, vars, busOut
  <2> QED
    BY <2>1, <2>2
<1> QED
  BY <1>1, <1>3

\* A request newly sent is that of a call that published until this step.
LEMMA SentChange ==
    ASSUME TypeOK, [Next]_vars, NEW s \in Sent' \ Sent
    PROVE  \E t \in Tasks : /\ step[t] = "publish"
                            /\ s = RequestOf(t)
                            /\ step'[t] # "publish"
<1>1. CASE s \in orders'
  <2>1. PICK k \in Keys, id \in Ids, t \in Tasks :
          /\ s = <<k, id>>
          /\ step[t] = "publish"
          /\ k = KeyOf(t, at[t])
          /\ id = IdOf(t, at[t])
          /\ PublishRequest(t)
    BY <1>1, StreamChange DEF Sent
  <2> QED
    BY <2>1 DEF RequestOf, PublishRequest, Goto, TypeOK, EngineTypeOK
<1>2. CASE s \in inFlight'
  <2>1. ~\E req \in inFlight : RequestArrives(req)
    BY <1>2 DEF RequestArrives, Sent
  <2> QED
    BY <1>2, <2>1, InFlightChange DEF Sent
<1> QED
  BY <1>1, <1>2 DEF Sent

\* What a step does to the reserved keys.
LEMMA ReservedChange ==
    ASSUME [Next]_vars
    PROVE  \/ reserved' = reserved
           \/ \E t \in Tasks, r \in Rels : Reserve(t, r) /\ reserved' = reserved \cup {KeyOf(t, r)}
           \/ \E t \in Tasks : Release(t) /\ reserved' = reserved \ {KeyOf(t, at[t])}
<1> USE DEF dbVars
<1>1. CASE \E t \in Tasks : HandlerStep(t)
  <2>1. PICK t \in Tasks : HandlerStep(t)
    BY <1>1
  <2>2. CASE List(t) \/ Reject(t) \/ Reserved(t) \/ PublishRequest(t) \/ PublishRequestFails(t)
             \/ Finish(t)
    BY <2>2 DEF List, Statement, Reject, Reserved, PublishRequest, PublishRequestFails, Finish
  <2>3. CASE Release(t)
    BY <2>3 DEF Release
  <2>4. CASE Mark(t)
    BY <2>4 DEF Mark, Statement, MarkRow
  <2>5. ASSUME NEW r \in Rels, Record(t, r)
        PROVE  reserved' = reserved
    BY <2>5 DEF Record, Statement, InsertRow
  <2>6. ASSUME NEW r \in Rels, Reserve(t, r)
        PROVE  reserved' = reserved \/ reserved' = reserved \cup {KeyOf(t, r)}
    BY <2>6 DEF Reserve, Statement
  <2> QED
    BY <2>1, <2>2, <2>3, <2>4, <2>5, <2>6 DEF HandlerStep
<1>2. CASE ~\E t \in Tasks : HandlerStep(t)
  BY <1>2 DEF Next, TaskStep, Begin, Toggle, WindowPasses, RequestArrives, EngineCrash,
              engineVars, vars
<1> QED
  BY <1>1, <1>2

\* Nobody gains a key and at most one key is reserved or freed: to the ledger
\* a call ends early, or nothing happens.
LEMMA NobodyGains ==
    ASSUME HoldInv, orders' = orders,
           inFlight \subseteq inFlight', inFlight' \subseteq Keys \X Ids,
           \A s \in inFlight' \ inFlight : \E u \in Tasks : Holds(u, s[1]),
           \A u \in Tasks, k \in Keys : Holds(u, k)' => Holds(u, k),
           \A k, l \in reserved' \ reserved : k = l,
           \A k \in reserved \ reserved' : \E u \in Tasks : Holds(u, k)
    PROVE  [Ledger!LedgerNext]_<<CopyState, orders, inFlight>>
<1>1. \A k \in Keys : Ordered(k)' <=> Ordered(k)
  BY DEF Ordered
<1> DEFINE back == {k \in Keys : CopyState[k] = "claimed" /\ CopyState'[k] = "free"}
           gone == {k \in Keys : CopyState[k] # "lost" /\ CopyState'[k] = "lost"}
<1>2. ASSUME NEW k \in Keys
      PROVE  \/ CopyState'[k] = CopyState[k]
             \/ CopyState[k] = "claimed" /\ CopyState'[k] \in {"free", "lost"}
             \/ /\ CopyState[k] = "free" /\ CopyState'[k] = "lost"
                /\ k \in reserved' \ reserved
  BY <1>1 DEF CopyState, HoldInv, OneHolder
<1>3. back \in SUBSET Ledger!Claimed /\ gone \in SUBSET (Ledger!Claimed \cup Ledger!Free)
  BY <1>2 DEF Ledger!Claimed, Ledger!Free
<1>4. back \cap gone = {}
  OBVIOUS
<1>5. \A k \in gone \cap Ledger!Free : \A l \in gone \cap Ledger!Free : k = l
  BY <1>2 DEF Ledger!Free
<1>6. CopyState' = [k \in Keys |-> IF k \in back THEN "free"
                                  ELSE IF k \in gone THEN "lost" ELSE CopyState[k]]
  <2>1. \A k \in Keys : CopyState'[k] = IF k \in back THEN "free"
                                       ELSE IF k \in gone THEN "lost" ELSE CopyState[k]
    BY <1>2
  <2>2. CopyState' = [k \in Keys |-> CopyState'[k]]
    BY DEF CopyState
  <2> QED
    BY <2>1, <2>2
<1> DEFINE new == inFlight' \ inFlight
<1>7. /\ new \in SUBSET (Keys \X Ids)
      /\ inFlight' = inFlight \cup new
      /\ \A s \in new : CopyState[s[1]] \in {"claimed", "placed"}
  BY DEF CopyState, HoldInv, OneHolder
<1> HIDE DEF back, gone, new
<1>8. Ledger!GiveUp
  BY <1>3, <1>4, <1>5, <1>6, <1>7 DEF Ledger!GiveUp
<1> QED
  BY <1>8 DEF Ledger!LedgerNext

\* A publish whose call waits for the answer places the copy it has claimed.
LEMMA PublishPlaces ==
    ASSUME TypeOK, HoldInv, NEW t \in Tasks, NEW key \in Keys, NEW id \in Ids,
           step[t] = "publish", key = KeyOf(t, at[t]), PublishRequest(t),
           ~Ordered(key), orders' = orders \cup {<<key, id>>}
    PROVE  Ledger!LedgerNext
<1>1. Holds(t, key) /\ key \in reserved
  BY DEF Holds, HoldInv, OneHolder
<1>2. /\ UNCHANGED <<batch, at, cur, reserved, inFlight>>
      /\ step' = [step EXCEPT ![t] = "mark"]
  BY DEF PublishRequest, Goto, busVars, dbVars
<1>3. ASSUME NEW u \in Tasks, NEW k \in Keys, k # key
      PROVE  Holds(u, k)' <=> Holds(u, k)
  BY <1>2, <1>3 DEF Holds, KeyOf, Key, TypeOK, EngineTypeOK
<1>4. /\ Ordered(key)'
      /\ \A k \in Keys : k # key => (Ordered(k)' <=> Ordered(k))
  BY DEF Ordered
<1>5. CopyState[key] = "claimed" /\ CopyState'[key] = "placed"
  BY <1>1, <1>4 DEF CopyState
<1>6. \A k \in Keys : k # key => CopyState'[k] = CopyState[k]
  BY <1>2, <1>3, <1>4 DEF CopyState
<1>7. CopyState' = [CopyState EXCEPT ![key] = "placed"]
  BY <1>5, <1>6 DEF CopyState
<1>8. Ledger!Place(key, id)
  BY <1>2, <1>5, <1>7 DEF Ledger!Place, Ledger!Placed
<1> QED
  BY <1>8 DEF Ledger!LedgerNext

\* An arrival places the copy, or is dropped because it was placed before.
LEMMA ArrivalPlaces ==
    ASSUME TypeOK, FirstPublish, RememberedIsOrdered, NEW req \in inFlight, RequestArrives(req)
    PROVE  Ledger!LedgerNext
<1>1. PICK key \in Keys, id \in Ids : req = <<key, id>>
  BY RequestTypes
<1>2. /\ UNCHANGED <<batch, at, cur, step, reserved>>
      /\ inFlight' = inFlight \ {<<key, id>>}
  BY <1>1 DEF RequestArrives, busVars, dbVars
<1>3. \A u \in Tasks, k \in Keys : Holds(u, k)' <=> Holds(u, k)
  BY <1>2 DEF Holds, KeyOf, Key
<1>4. \/ orders' = orders /\ Ordered(key)
      \/ orders' = orders \cup {<<key, id>>} /\ ~Ordered(key)
  <2>1. CASE key \in remembered
    BY <1>1, <2>1 DEF RequestArrives, StoreRequest, RememberedIsOrdered
  <2>2. CASE key \notin remembered
    <3>1. orders' = orders \cup {<<key, id>>}
      BY <1>1, <2>2 DEF RequestArrives, StoreRequest
    <3>2. ~Ordered(key) \/ <<key, id>> \in orders
      BY <1>1, <2>2 DEF FirstPublish
    <3> QED
      BY <3>1, <3>2 DEF Ordered
  <2> QED
    BY <2>1, <2>2
<1>5. CASE orders' = orders /\ Ordered(key)
  <2>1. CopyState[key] = "placed"
    BY <1>5 DEF CopyState
  <2>2. \A k \in Keys : Ordered(k)' <=> Ordered(k)
    BY <1>5 DEF Ordered
  <2>3. CopyState' = CopyState
    BY <1>2, <1>3, <2>2 DEF CopyState
  <2>4. Ledger!Arrive(key, id)
    BY <1>1, <1>2, <1>5, <2>1, <2>3 DEF Ledger!Arrive
  <2> QED
    BY <2>4 DEF Ledger!LedgerNext
<1>6. CASE orders' = orders \cup {<<key, id>>} /\ ~Ordered(key)
  <2>1. /\ Ordered(key)'
        /\ \A k \in Keys : k # key => (Ordered(k)' <=> Ordered(k))
    BY <1>6 DEF Ordered
  <2>2. CopyState[key] # "placed" /\ CopyState'[key] = "placed"
    BY <1>6, <2>1 DEF CopyState
  <2>3. \A k \in Keys : k # key => CopyState'[k] = CopyState[k]
    BY <1>2, <1>3, <2>1 DEF CopyState
  <2>4. CopyState' = [CopyState EXCEPT ![key] = "placed"]
    BY <2>2, <2>3 DEF CopyState
  <2>5. Ledger!Arrive(key, id)
    BY <1>1, <1>2, <1>6, <2>2, <2>4 DEF Ledger!Arrive, Ledger!Placed
  <2> QED
    BY <2>5 DEF Ledger!LedgerNext
<1> QED
  BY <1>4, <1>5, <1>6

\* A reservation that is answered claims a free copy.
LEMMA ReserveClaims ==
    ASSUME TypeOK, HoldInv, NEW t \in Tasks, NEW r \in Rels, Reserve(t, r), ~Raise(t),
           KeyOf(t, r) \notin reserved
    PROVE  [Ledger!LedgerNext]_<<CopyState, orders, inFlight>>
<1>1. PICK key \in Keys : key = KeyOf(t, r)
  BY CurrentKey DEF Reserve, TypeOK, EngineTypeOK
<1>2. /\ UNCHANGED <<cur, step, at, orders, inFlight>>
      /\ reserved' = reserved \cup {key}
      /\ batch' = [batch EXCEPT ![t] = @ \cup {r}]
  BY <1>1 DEF Reserve, Statement, busVars, busOut
<1>3. \A k \in Keys : Ordered(k)' <=> Ordered(k)
  BY <1>2 DEF Ordered
<1>4. Holds(t, key)'
  BY <1>1, <1>2 DEF Holds, KeyOf, Key, TypeOK, EngineTypeOK
<1>5. ASSUME NEW u \in Tasks, NEW k \in Keys, k # key
      PROVE  Holds(u, k)' <=> Holds(u, k)
  BY <1>1, <1>2, <1>5 DEF Holds, KeyOf, Key, TypeOK, EngineTypeOK
<1>6. \A k \in Keys : k # key => CopyState'[k] = CopyState[k]
  BY <1>2, <1>3, <1>5 DEF CopyState
<1>7. CASE Ordered(key)
  <2>1. CopyState'[key] = CopyState[key]
    BY <1>3, <1>7 DEF CopyState
  <2>2. CopyState' = CopyState
    BY <1>6, <2>1 DEF CopyState
  <2> QED
    BY <1>2, <2>2
<1>8. CASE ~Ordered(key)
  <2>1. CopyState[key] = "free" /\ CopyState'[key] = "claimed"
    BY <1>1, <1>2, <1>3, <1>4, <1>8 DEF CopyState
  <2>2. CopyState' = [CopyState EXCEPT ![key] = "claimed"]
    BY <1>6, <2>1 DEF CopyState
  <2>3. Ledger!Claim(key)
    BY <1>2, <2>1, <2>2 DEF Ledger!Claim
  <2> QED
    BY <2>3 DEF Ledger!LedgerNext
<1> QED
  BY <1>7, <1>8

\* Calls that end or go on while the stream stores nothing and nothing arrives.
LEMMA QuietLedgerStep ==
    ASSUME TypeOK, HoldInv, [Next]_vars, orders' = orders,
           ~\E req \in inFlight : RequestArrives(req)
    PROVE  [Ledger!LedgerNext]_<<CopyState, orders, inFlight>>
<1>0. /\ inFlight \subseteq inFlight'
      /\ inFlight' \subseteq Keys \X Ids
      /\ \A s \in inFlight' \ inFlight : \E u \in Tasks : Holds(u, s[1])
  <2>1. /\ inFlight \subseteq inFlight'
        /\ \A s \in inFlight' \ inFlight :
             \E t \in Tasks : step[t] = "publish" /\ s = RequestOf(t)
    BY InFlightChange
  <2>2. inFlight' \subseteq Keys \X Ids
    BY TypeStep DEF TypeOK, EngineTypeOK
  <2> QED
    BY <2>1, <2>2 DEF Holds, RequestOf
<1>1. CASE reserved' = reserved
  <2>1. \A u \in Tasks, k \in Keys : Holds(u, k)' => Holds(u, k)
    BY <1>1, NextHolds DEF HoldInv, Loses, Gains, Frees
  <2> QED
    BY <1>0, <1>1, <2>1, NobodyGains
<1>2. ASSUME NEW t \in Tasks, NEW r \in Rels, Reserve(t, r),
             reserved' = reserved \cup {KeyOf(t, r)}, KeyOf(t, r) \notin reserved
      PROVE  [Ledger!LedgerNext]_<<CopyState, orders, inFlight>>
  <2>1. CASE Raise(t)
    <3>1. \A u \in Tasks, k \in Keys : Holds(u, k)' => Holds(u, k)
      BY <2>1, RaiseHolds
    <3> QED
      BY <1>0, <1>2, <3>1, NobodyGains
  <2>2. CASE ~Raise(t)
    BY <1>2, <2>2, ReserveClaims
  <2> QED
    BY <2>1, <2>2
<1>3. ASSUME NEW t \in Tasks, Release(t), reserved' = reserved \ {KeyOf(t, at[t])}
      PROVE  [Ledger!LedgerNext]_<<CopyState, orders, inFlight>>
  <2>1. \A u \in Tasks, k \in Keys : Holds(u, k)' => Holds(u, k)
    BY <1>3, RaiseHolds DEF Release
  <2>2. Holds(t, KeyOf(t, at[t]))
    BY <1>3 DEF Release, Holds
  <2> QED
    BY <1>0, <1>3, <2>1, <2>2, NobodyGains
<1> QED
  BY <1>1, <1>2, <1>3, ReservedChange

\* Every step of the engine is a step of the ledger.
LEMMA LedgerStep ==
    TypeOK /\ HoldInv /\ FirstPublish /\ RememberedIsOrdered /\ [Next]_vars
        => [Ledger!LedgerNext]_<<CopyState, orders, inFlight>>
<1> SUFFICES ASSUME TypeOK, HoldInv, FirstPublish, RememberedIsOrdered, [Next]_vars
             PROVE  [Ledger!LedgerNext]_<<CopyState, orders, inFlight>>
  OBVIOUS
<1>1. CASE \E req \in inFlight : RequestArrives(req)
  BY <1>1, ArrivalPlaces
<1>2. CASE orders' # orders /\ ~\E req \in inFlight : RequestArrives(req)
  <2>1. PICK key \in Keys, id \in Ids, t \in Tasks :
          /\ key \notin remembered
          /\ orders' = orders \cup {<<key, id>>}
          /\ step[t] = "publish"
          /\ key = KeyOf(t, at[t])
          /\ PublishRequest(t)
    BY <1>2, StreamChange
  <2>2. ~Ordered(key)
    BY <2>1 DEF FirstPublish
  <2> QED
    BY <2>1, <2>2, PublishPlaces
<1> QED
  BY <1>1, <1>2, QuietLedgerStep

\* The engine implements the ledger, for any number of relationships, events
\* and workers, under the condition of NeverOrderedTwice.
THEOREM EngineKeepsLedger ==
    ("publish_ambiguous" \notin Faults \/ "dedupe_expiry" \notin Faults)
        => (Spec => KeepsLedger)
<1>0. Init => Ledger!LedgerInit /\ RememberedIsOrdered
  BY DEF Init, Ledger!LedgerInit, CopyState, Ordered, RememberedIsOrdered
<1>1. ASSUME "publish_ambiguous" \notin Faults
      PROVE  Spec => KeepsLedger
  <2>1. Init => HoldInv /\ SentIsClosed /\ SentOnce
    BY HoldInvInit DEF Init, SentIsClosed, SentOnce, SentFor, Sent
  <2>2. TypeOK /\ HoldInv /\ SentIsClosed /\ SentOnce /\ [Next]_vars
          => SentIsClosed' /\ SentOnce'
    BY <1>1, ClosedStep
  <2>3. TypeOK /\ SentIsClosed /\ SentOnce => FirstPublish
    <3> SUFFICES ASSUME TypeOK, SentIsClosed, SentOnce
                 PROVE  FirstPublish
      OBVIOUS
    <3>1. ASSUME NEW t \in Tasks, step[t] = "publish"
          PROVE  ~Ordered(KeyOf(t, at[t]))
      <4>1. KeyOf(t, at[t]) \in Keys /\ Holds(t, KeyOf(t, at[t]))
        BY <3>1, RequestTypes DEF Holds
      <4> QED
        BY <4>1 DEF SentIsClosed, SentFor, Sent, Ordered
    <3>2. ASSUME NEW req \in inFlight, Ordered(req[1])
          PROVE  req \in orders
      <4>1. req = <<req[1], req[2]>> /\ req[1] \in Keys /\ req[2] \in Ids
        BY RequestTypes
      <4>2. PICK id \in Ids : <<req[1], id>> \in orders
        BY <3>2 DEF Ordered
      <4>3. id = req[2]
        BY <4>1, <4>2 DEF SentOnce, Sent
      <4> QED
        BY <4>1, <4>2, <4>3
    <3> QED
      BY <3>1, <3>2 DEF FirstPublish
  <2> QED
    BY <1>0, <2>1, <2>2, <2>3, LedgerStep, RememberedIsOrderedStep, HoldInvStep, TypeCorrect, PTL
    DEF Spec, KeepsLedger, Ledger!LedgerSpec
<1>2. ASSUME "dedupe_expiry" \notin Faults
      PROVE  Spec => KeepsLedger
  <2>1. Init => HoldInv /\ OrderedIsRemembered /\ NoDuplicateOrder
    BY HoldInvInit DEF Init, OrderedIsRemembered, NoDuplicateOrder, Ordered
  <2>2. TypeOK /\ OrderedIsRemembered /\ NoDuplicateOrder /\ [Next]_vars
          => OrderedIsRemembered' /\ NoDuplicateOrder'
    BY <1>2, RememberedStep
  <2>3. TypeOK /\ OrderedIsRemembered => FirstPublish
    BY RequestTypes DEF FirstPublish, OrderedIsRemembered
  <2> QED
    BY <1>0, <2>1, <2>2, <2>3, LedgerStep, RememberedIsOrderedStep, HoldInvStep, TypeCorrect, PTL
    DEF Spec, KeepsLedger, Ledger!LedgerSpec
<1> QED
  BY <1>1, <1>2

-----------------------------------------------------------------------------
(* The request rows.                                                       *)

\* A step leaves the rows alone, inserts one, or marks one.
LEMMA RowsChange ==
    ASSUME TypeOK, [Next]_vars
    PROVE  \/ UNCHANGED <<rowId, rowStatus>>
           \/ \E t \in Tasks, r \in Rels :
                Record(t, r) /\ InsertRow(KeyOf(t, r), IdOf(t, r))
           \/ \E t \in Tasks : Mark(t) /\ MarkRow(KeyOf(t, at[t]), IdOf(t, at[t]))
<1> USE DEF dbVars
<1>1. CASE \E t \in Tasks : HandlerStep(t)
  <2>1. PICK t \in Tasks : HandlerStep(t)
    BY <1>1
  <2>2. CASE List(t) \/ Reject(t) \/ Reserved(t) \/ PublishRequest(t) \/ PublishRequestFails(t)
             \/ Finish(t) \/ Release(t)
    BY <2>2 DEF List, Statement, Reject, Reserved, PublishRequest, PublishRequestFails,
                Finish, Release
  <2>3. CASE Mark(t)
    <3>1. UNCHANGED dbVars \/ MarkRow(KeyOf(t, at[t]), IdOf(t, at[t]))
      BY <2>3 DEF Mark, Statement
    <3> QED
      BY <2>3, <3>1
  <2>4. ASSUME NEW r \in Rels, Record(t, r)
        PROVE  UNCHANGED <<rowId, rowStatus>> \/ InsertRow(KeyOf(t, r), IdOf(t, r))
    BY <2>4 DEF Record, Statement
  <2>5. ASSUME NEW r \in Rels, Reserve(t, r)
        PROVE  UNCHANGED <<rowId, rowStatus>>
    BY <2>5 DEF Reserve, Statement
  <2> QED
    BY <2>1, <2>2, <2>3, <2>4, <2>5 DEF HandlerStep
<1>2. CASE ~\E t \in Tasks : HandlerStep(t)
  BY <1>2 DEF Next, TaskStep, Begin, Toggle, WindowPasses, RequestArrives, EngineCrash,
              engineVars, vars
<1> QED
  BY <1>1, <1>2

\* A row that is there keeps its request; a new one is that of the call that
\* records it.
LEMMA RowIdChange ==
    ASSUME TypeOK, [Next]_vars
    PROVE  \/ rowId' = rowId
           \/ \E t \in Tasks, r \in Rels :
                /\ Record(t, r)
                /\ KeyOf(t, r) \in Keys /\ IdOf(t, r) \in Ids
                /\ rowId[KeyOf(t, r)] = NoId
                /\ rowId' = [rowId EXCEPT ![KeyOf(t, r)] = IdOf(t, r)]
<1>1. ASSUME NEW t \in Tasks, NEW r \in Rels, Record(t, r)
      PROVE  KeyOf(t, r) \in Keys /\ IdOf(t, r) \in Ids
  BY <1>1, CurrentKey DEF Record, TypeOK, EngineTypeOK
<1> QED
  BY <1>1, RowsChange DEF InsertRow, MarkRow

\* A request's id is never the absent one, and names its task and relationship.
LEMMA IdsDiffer ==
    /\ NoId \notin Ids
    /\ \A t, u, r, s : t # u => IdOf(t, r) # IdOf(u, s)
BY DEF NoId, Ids, IdOf

\* A row that is there keeps its request.
LEMMA RowKept ==
    ASSUME TypeOK, [Next]_vars, NEW k \in Keys, rowId[k] # NoId
    PROVE  rowId'[k] = rowId[k]
BY RowIdChange DEF TypeOK, EngineTypeOK

\* What a step does to a call that goes on.
Stays(t) ==
    /\ step'[t] = step[t] /\ at'[t] = at[t]
    /\ todo'[t] \subseteq todo[t]
    /\ batch'[t] \subseteq batch[t] \cup todo[t]

Lists(t) ==
    /\ step[t] = "list" /\ step'[t] = "reserve" /\ batch'[t] = batch[t]
    /\ todo'[t] = Follows[cur[t].msg] \cap enabled

Turns(t) ==
    /\ step[t] = "reserve" /\ todo[t] = {} /\ step'[t] = "record"
    /\ UNCHANGED <<todo[t], batch[t]>>

Records(t) == \E r \in batch[t] :
    /\ Record(t, r) /\ InsertRow(KeyOf(t, r), IdOf(t, r))
    /\ step[t] = "record" /\ step'[t] = "publish" /\ at'[t] = r
    /\ batch'[t] = batch[t] \ {r} /\ todo'[t] = todo[t]

Publishes(t) ==
    /\ step[t] = "publish"
    /\ \/ step'[t] = "release"
       \/ step'[t] = "mark" /\ StoreRequest(RequestOf(t))
    /\ UNCHANGED <<at[t], todo[t], batch[t]>>

Marks(t) ==
    /\ step[t] = "mark" /\ step'[t] = "record"
    /\ UNCHANGED <<todo[t], batch[t]>>

Untouched(t) ==
    /\ step'[t] = step[t] /\ at'[t] = at[t] /\ todo'[t] = todo[t]
    /\ batch'[t] = batch[t] /\ cur'[t] = cur[t]

\* A step of one task leaves the calls of the others as they are.
LEMMA OthersUntouched ==
    ASSUME TypeOK, NEW t \in Tasks, NEW u \in Tasks, u # t, TaskStep(u)
    PROVE  Untouched(t)
<1> USE DEF TypeOK, BusTypeOK, EngineTypeOK
<1>1. CASE Begin(u)
  BY <1>1 DEF Begin, Take, Goto, Untouched
<1>2. CASE CallbackStep(u) /\ UNCHANGED engineVars
  BY <1>2 DEF CallbackStep, Nak, DeadLetter, DeadLetterFails, Ack, BecomeIdle,
                    engineVars, Untouched
<1>3. CASE Raise(u)
  BY <1>3 DEF Raise, HandlerRaises, Forget, Untouched
<1>4. CASE HandlerStep(u) /\ ~Raise(u)
  <2>1. CASE List(u)
    BY <1>4, <2>1 DEF List, Statement, Goto, Untouched, busVars
  <2>2. CASE Reserved(u) \/ PublishRequest(u) \/ PublishRequestFails(u)
    BY <2>2 DEF Reserved, PublishRequest, PublishRequestFails, Goto, Untouched, busVars
  <2>3. CASE Reject(u) \/ Release(u)
    BY <1>4, <2>3 DEF Reject, Release
  <2>4. CASE Mark(u)
    BY <1>4, <2>4 DEF Mark, Statement, Goto, Untouched, busVars
  <2>5. CASE Finish(u)
    BY <2>5 DEF Finish, Forget, HandlerReturns, Untouched
  <2>6. ASSUME NEW r \in Rels, Reserve(u, r)
        PROVE  Untouched(t)
    BY <1>4, <2>6 DEF Reserve, Statement, Untouched, busVars
  <2>7. ASSUME NEW r \in Rels, Record(u, r)
        PROVE  Untouched(t)
    BY <1>4, <2>7 DEF Record, Statement, Goto, Untouched, busVars
  <2> QED
    BY <1>4, <2>1, <2>2, <2>3, <2>4, <2>5, <2>6, <2>7 DEF HandlerStep
<1> QED
  BY <1>1, <1>2, <1>3, <1>4 DEF TaskStep

\* In particular they stay where they are.
LEMMA OthersStay ==
    ASSUME TypeOK, NEW t \in Tasks, NEW u \in Tasks, u # t, TaskStep(u)
    PROVE  Stays(t) /\ cur'[t] = cur[t]
BY OthersUntouched DEF Untouched, Stays

\* A call that goes on stays where it is or takes one of its steps.
LEMMA CallChange ==
    ASSUME TypeOK, [Next]_vars, NEW t \in Tasks, step[t] # "none", step'[t] # "none"
    PROVE  /\ cur'[t] = cur[t]
           /\ \/ Stays(t) \/ Lists(t) \/ Turns(t) \/ Records(t)
              \/ Publishes(t) \/ Marks(t)
<1> USE DEF TypeOK, BusTypeOK, EngineTypeOK
<1>1. CASE UNCHANGED <<cur, step, at, todo, batch>>
  BY <1>1 DEF Stays
<1>2. ASSUME NEW u \in Tasks, u # t, TaskStep(u)
      PROVE  Stays(t) /\ cur'[t] = cur[t]
  BY <1>2, OthersStay
<1>3. CASE Begin(t) \/ CallbackStep(t)
  BY <1>3 DEF Begin, Take, CallbackStep, Nak, DeadLetter, DeadLetterFails, Ack
<1>4. CASE HandlerStep(t)
  <2>1. ~Raise(t)
    BY DEF Raise, Forget
  <2>2. CASE List(t)
    BY <2>1, <2>2 DEF List, Statement, Goto, Lists, busVars
  <2>3. CASE Reserved(t)
    BY <2>3 DEF Reserved, Goto, Turns, busVars
  <2>4. CASE PublishRequest(t) \/ PublishRequestFails(t)
    <3>1. CASE PublishRequest(t)
      BY <3>1 DEF PublishRequest, Goto, Publishes, busVars
    <3>2. CASE PublishRequestFails(t)
      BY <3>2 DEF PublishRequestFails, Goto, Publishes, busVars
    <3> QED
      BY <2>4, <3>1, <3>2
  <2>5. CASE Mark(t)
    BY <2>1, <2>5 DEF Mark, Statement, Goto, Marks, busVars
  <2>6. CASE Reject(t) \/ Release(t) \/ Finish(t)
    BY <2>1, <2>6 DEF Reject, Release, Finish, Forget
  <2>7. ASSUME NEW r \in Rels, Reserve(t, r)
        PROVE  Stays(t) /\ cur'[t] = cur[t]
    BY <2>1, <2>7 DEF Reserve, Statement, Stays, busVars
  <2>8. ASSUME NEW r \in Rels, Record(t, r)
        PROVE  Records(t) /\ cur'[t] = cur[t]
    BY <2>1, <2>8 DEF Record, Statement, Goto, Records, busVars
  <2> QED
    BY <1>4, <2>2, <2>3, <2>4, <2>5, <2>6, <2>7, <2>8 DEF HandlerStep
<1>5. ASSUME NEW p \in Processes, EngineCrash(p)
      PROVE  Stays(t) /\ cur'[t] = cur[t]
  BY <1>5 DEF EngineCrash, Crash, Forget, Stays
<1> QED
  BY <1>1, <1>2, <1>3, <1>4, <1>5
  DEF Next, TaskStep, ServerNext, Publish, Deliver, AckWaitExpires, Toggle, WindowPasses,
      RequestArrives, engineVars, vars, busVars

\* A call begins with Begin.
LEMMA CallBegins ==
    ASSUME TypeOK, [Next]_vars, NEW t \in Tasks, step[t] = "none", step'[t] # "none"
    PROVE  Begin(t)
<1> USE DEF TypeOK, EngineTypeOK
<1>1. ASSUME NEW u \in Tasks, HandlerStep(u)
      PROVE  FALSE
  <2>1. step[u] # "none"
    BY <1>1 DEF HandlerStep, List, Reject, Reserved, PublishRequest, PublishRequestFails,
                Release, Mark, Finish, Reserve, Record
  <2>2. CASE List(u) \/ Mark(u)
    <3>1. Raise(u) \/ \E s \in Steps : step' = [step EXCEPT ![u] = s]
      BY <2>2 DEF List, Mark, Statement, Goto, Steps
    <3> QED
      BY <2>1, <3>1 DEF Raise, Forget
  <2>3. CASE Reserved(u) \/ PublishRequest(u) \/ PublishRequestFails(u)
    <3>1. \E s \in Steps : step' = [step EXCEPT ![u] = s]
      BY <2>3 DEF Reserved, PublishRequest, PublishRequestFails, Goto, Steps
    <3> QED
      BY <2>1, <3>1
  <2>4. CASE Reject(u) \/ Release(u) \/ Finish(u)
    BY <2>4 DEF Reject, Release, Finish, Raise, Forget
  <2>5. ASSUME NEW r \in Rels, Reserve(u, r) \/ Record(u, r)
        PROVE  FALSE
    <3>1. Raise(u) \/ step' = step \/ \E s \in Steps : step' = [step EXCEPT ![u] = s]
      BY <2>5 DEF Reserve, Record, Statement, Goto, Steps
    <3> QED
      BY <2>1, <3>1 DEF Raise, Forget
  <2> QED
    BY <1>1, <2>2, <2>3, <2>4, <2>5 DEF HandlerStep
<1>2. ASSUME NEW u \in Tasks, Begin(u)
      PROVE  u = t
  BY <1>2 DEF Begin, Goto
<1> QED
  BY <1>1, <1>2 DEF Next, TaskStep, Toggle, WindowPasses, RequestArrives, EngineCrash, Forget,
                    engineVars, vars

\* A call past its record step finds a row.
Recorded ==
    \A t \in Tasks :
        step[t] \in {"publish", "release", "mark"} => rowId[KeyOf(t, at[t])] # NoId

\* So does every request sent, in the stream or on its way.
SentRecorded == \A k \in Keys : SentFor(k) => rowId[k] # NoId

RecordInv == Recorded /\ SentRecorded

\* Rows are never removed, and a call inserts one before it publishes.
LEMMA RecordInvStep == TypeOK /\ RecordInv /\ [Next]_vars => RecordInv'
<1> SUFFICES ASSUME TypeOK, RecordInv, [Next]_vars
             PROVE  RecordInv'
  OBVIOUS
<1>1. ASSUME NEW t \in Tasks, step'[t] \in {"publish", "release", "mark"}
      PROVE  rowId'[KeyOf(t, at[t])'] # NoId
  <2>1. step[t] # "none"
    BY <1>1, CallBegins DEF Begin, Goto, TypeOK, EngineTypeOK
  <2>2. CASE step[t] \in {"publish", "release", "mark"} /\ at'[t] = at[t] /\ cur'[t] = cur[t]
    <3>1. KeyOf(t, at[t]) \in Keys /\ KeyOf(t, at[t])' = KeyOf(t, at[t])
      BY <2>2, CurrentKey DEF TypeOK, EngineTypeOK, KeyOf, Key
    <3> QED
      BY <2>2, <3>1, RowKept DEF RecordInv, Recorded
  <2>3. CASE Records(t) /\ cur'[t] = cur[t]
    <3>1. PICK r \in Rels : /\ at'[t] = r /\ Record(t, r)
                            /\ InsertRow(KeyOf(t, r), IdOf(t, r))
      BY <2>3 DEF Records, TypeOK, EngineTypeOK
    <3>2. KeyOf(t, r) \in Keys /\ IdOf(t, r) \in Ids /\ KeyOf(t, at[t])' = KeyOf(t, r)
      BY <2>3, <3>1, CurrentKey DEF Record, TypeOK, EngineTypeOK, KeyOf, Key
    <3> QED
      BY <3>1, <3>2, IdsDiffer DEF InsertRow, TypeOK, EngineTypeOK
  <2> QED
    BY <1>1, <2>1, <2>2, <2>3, CallChange DEF Stays, Lists, Turns, Publishes, Marks
<1>2. ASSUME NEW k \in Keys, SentFor(k)'
      PROVE  rowId'[k] # NoId
  <2>1. CASE SentFor(k)
    BY <2>1, RowKept DEF RecordInv, SentRecorded
  <2>2. CASE ~SentFor(k)
    <3>1. PICK t \in Tasks : step[t] = "publish" /\ RequestOf(t)[1] = k
      BY <1>2, <2>2, SentChange DEF SentFor
    <3>2. k = KeyOf(t, at[t])
      BY <3>1 DEF RequestOf
    <3> QED
      BY <3>1, <3>2, RowKept DEF RecordInv, Recorded
  <2> QED
    BY <2>1, <2>2
<1> QED
  BY <1>1, <1>2 DEF RecordInv, Recorded, SentRecorded

\* Nothing is recorded or ordered at first.
LEMMA RecordInvInit == Init => RecordInv
BY DEF Init, RecordInv, Recorded, SentRecorded, SentFor, Sent

\* A request is visible in the stream only once its row is stored, so a result
\* always finds a row, whatever fails and whoever redelivers.
THEOREM RowBeforeOrder == Spec => []RecordedBeforeOrdered
<1>1. RecordInv => RecordedBeforeOrdered
  BY DEF RecordInv, SentRecorded, RecordedBeforeOrdered, SentFor, Sent, Ordered
<1> QED
  BY <1>1, RecordInvInit, RecordInvStep, TypeCorrect, PTL DEF Spec

\* Rows stem from deliveries their tasks have had.
RowsPast ==
    \A k \in Keys : rowId[k] # NoId => Past(rowId[k][3], rowId[k][1], rowId[k][2])

\* A new row stems from the delivery its call is handling.
LEMMA RowsPastStep ==
    ASSUME TypeOK, OrderInv, RowsPast, [Next]_vars
    PROVE  RowsPast'
<1> SUFFICES ASSUME NEW k \in Keys, rowId'[k] # NoId
             PROVE  Past(rowId[k][3], rowId[k][1], rowId[k][2])'
  BY DEF RowsPast
<1>1. ASSUME NEW t \in Tasks, NEW m \in Messages, NEW a \in Nat, NEW r \in Rels,
             Past(t, m, a), rowId'[k] = <<m, a, t, r>>
      PROVE  Past(rowId[k][3], rowId[k][1], rowId[k][2])'
  <2>1. Past(t, m, a)'
    BY <1>1, PastKept, EngineBusStep DEF TypeOK
  <2> QED
    BY <1>1, <2>1 DEF Past
<1>2. CASE rowId[k] # NoId
  <2>1. rowId'[k] = rowId[k] /\ rowId[k] \in Ids
    BY <1>2, RowKept DEF TypeOK, EngineTypeOK
  <2>2. PICK m \in Messages, a \in 1..MaxDeliver, t \in Tasks, r \in Rels :
          rowId[k] = <<m, a, t, r>>
    BY <2>1 DEF Ids
  <2>3. Past(t, m, a)
    <3>1. Past(rowId[k][3], rowId[k][1], rowId[k][2])
      BY <1>2 DEF RowsPast
    <3>2. rowId[k][3] = t /\ rowId[k][1] = m /\ rowId[k][2] = a
      BY <2>2
    <3> QED
      BY <3>1, <3>2
  <2>4. a \in Nat
    BY BusAssumption
  <2> QED
    BY <1>1, <2>1, <2>2, <2>3, <2>4
<1>3. CASE rowId[k] = NoId
  <2>1. PICK t \in Tasks, r \in Rels :
          Record(t, r) /\ IdOf(t, r) \in Ids /\ rowId'[k] = IdOf(t, r)
    BY <1>3, RowIdChange DEF TypeOK, EngineTypeOK
  <2>2. cur[t].msg \in Messages /\ cur[t].attempt \in Nat /\ phase[t] # "idle"
    BY <2>1, CurrentDelivery DEF Record, TypeOK, EngineTypeOK
  <2>3. Past(t, cur[t].msg, cur[t].attempt)
    BY <2>2 DEF OrderInv, CurPast
  <2> QED
    BY <1>1, <2>1, <2>2, <2>3 DEF IdOf
<1> QED
  BY <1>2, <1>3

\* A call has something to reserve only before it records.
TodoFirst == \A t \in Tasks : todo[t] # {} => step[t] = "reserve"

\* No row is of a request a call has still to make.
Fresh ==
    \A t \in Tasks, r \in Rels :
        step[t] # "none" /\ rowId[KeyOf(t, r)] = IdOf(t, r) =>
            step[t] # "list" /\ r \notin todo[t] /\ r \notin batch[t]

\* A call that has ended has nothing left to reserve.
LEMMA CallEnds ==
    ASSUME TypeOK, TodoFirst, [Next]_vars, NEW t \in Tasks, step'[t] = "none"
    PROVE  todo'[t] = {}
<1>1. CASE Stays(t)
  BY <1>1 DEF Stays, TodoFirst
<1>2. CASE \E u \in Tasks : u # t /\ TaskStep(u)
  BY <1>1, <1>2, OthersStay
<1>3. CASE HandlerStep(t)
  <2>1. CASE Raise(t) \/ Finish(t)
    BY <2>1 DEF Raise, Finish, Forget, TypeOK, EngineTypeOK
  <2>2. CASE ~Raise(t) /\ ~Finish(t)
    <3>1. CASE List(t) \/ Mark(t)
      BY <2>2, <3>1 DEF List, Mark, Statement, Goto, TypeOK, EngineTypeOK
    <3>2. CASE Reserved(t) \/ PublishRequest(t) \/ PublishRequestFails(t)
      BY <3>2 DEF Reserved, PublishRequest, PublishRequestFails, Goto, TypeOK, EngineTypeOK
    <3>3. ASSUME NEW r \in Rels, Reserve(t, r) \/ Record(t, r)
          PROVE  FALSE
      BY <2>2, <3>3 DEF Reserve, Record, Statement, Goto, TypeOK, EngineTypeOK
    <3> QED
      BY <1>3, <2>2, <3>1, <3>2, <3>3 DEF HandlerStep, Reject, Release
  <2> QED
    BY <2>1, <2>2
<1>4. CASE Begin(t)
  BY <1>4 DEF Begin, Goto, TypeOK, EngineTypeOK
<1>5. CASE UNCHANGED <<step, todo, batch, at>>
  BY <1>1, <1>5 DEF Stays
<1>6. ASSUME NEW p \in Processes, EngineCrash(p)
      PROVE  todo'[t] = {}
  BY <1>6 DEF EngineCrash, Forget, TodoFirst
<1> QED
  BY <1>2, <1>3, <1>4, <1>5, <1>6
  DEF Next, TaskStep, Toggle, WindowPasses, RequestArrives, engineVars, vars

\* TodoFirst is kept by every step.
LEMMA TodoFirstStep ==
    ASSUME TypeOK, TodoFirst, [Next]_vars
    PROVE  TodoFirst'
<1> SUFFICES ASSUME NEW t \in Tasks, todo'[t] # {}
             PROVE  step'[t] = "reserve"
  BY DEF TodoFirst
<1>1. CASE step'[t] # "none" /\ step[t] # "none"
  BY <1>1, CallChange DEF TodoFirst, Stays, Lists, Turns, Records, Publishes, Marks
<1>2. CASE step'[t] # "none" /\ step[t] = "none"
  BY <1>2, CallBegins DEF Begin, TodoFirst
<1>3. CASE step'[t] = "none"
  BY <1>3, CallEnds
<1> QED
  BY <1>1, <1>2, <1>3

\* A call begins with a delivery no row stems from, and records each
\* relationship once.
LEMMA FreshStep ==
    ASSUME TypeOK, BatchApart, OrderInv, RowsPast, TodoFirst, Fresh, [Next]_vars
    PROVE  Fresh'
<1> SUFFICES ASSUME NEW t \in Tasks, NEW r \in Rels, step'[t] # "none",
                    rowId'[KeyOf(t, r)'] = IdOf(t, r)'
             PROVE  step'[t] # "list" /\ r \notin todo'[t] /\ r \notin batch'[t]
  BY DEF Fresh
<1>1. CASE step[t] = "none"
  <2>1. Begin(t)
    BY <1>1, CallBegins
  <2>2. /\ inbox[t] # << >> /\ cur'[t] = inbox[t][1] /\ 1 \in DOMAIN inbox[t]
        /\ rowId' = rowId
    BY <2>1 DEF Begin, Take, dbVars, TypeOK, BusTypeOK
  <2>3. PICK m \in Messages, a \in Nat : m = inbox[t][1].msg /\ a = inbox[t][1].attempt
    BY <2>2, InboxTypes DEF TypeOK
  <2>4. IdOf(t, r)' = <<m, a, t, r>> /\ KeyOf(t, r)' \in Keys
    BY <2>2, <2>3 DEF IdOf, KeyOf, Key, Keys
  <2>5. rowId[KeyOf(t, r)'] = <<m, a, t, r>>
    BY <2>2, <2>4
  <2>6. <<m, a, t, r>> # NoId
    BY DEF NoId
  <2>7. Past(t, m, a)
    BY <2>4, <2>5, <2>6 DEF RowsPast
  <2> QED
    BY <2>2, <2>3, <2>7 DEF Past
<1>2. CASE step[t] # "none"
  <2>1. cur'[t] = cur[t] /\ KeyOf(t, r)' = KeyOf(t, r) /\ IdOf(t, r)' = IdOf(t, r)
    BY <1>2, CallChange DEF KeyOf, Key, IdOf
  <2>2. CASE rowId[KeyOf(t, r)] = IdOf(t, r)
    <3>1. step[t] # "list" /\ r \notin todo[t] /\ r \notin batch[t]
      BY <1>2, <2>2 DEF Fresh
    <3> QED
      BY <1>2, <3>1, CallChange DEF Stays, Lists, Turns, Records, Publishes, Marks
  <2>3. CASE rowId[KeyOf(t, r)] # IdOf(t, r)
    <3>1. Record(t, r)
      <4>1. PICK u \in Tasks, s \in Rels :
              /\ Record(u, s) /\ KeyOf(u, s) \in Keys
              /\ rowId' = [rowId EXCEPT ![KeyOf(u, s)] = IdOf(u, s)]
        BY <2>1, <2>3, RowIdChange
      <4>2. KeyOf(t, r) \in Keys
        BY <1>2, CurrentKey DEF TypeOK, EngineTypeOK
      <4>3. KeyOf(t, r) = KeyOf(u, s) /\ IdOf(u, s) = IdOf(t, r)
        BY <2>1, <2>3, <4>1, <4>2 DEF TypeOK, EngineTypeOK
      <4>4. u = t /\ s = r
        BY <4>3 DEF IdOf
      <4> QED
        BY <4>1, <4>4
    <3>2. ~Raise(t)
      BY DEF Raise, Forget
    <3>3. /\ step[t] = "record" /\ step' = [step EXCEPT ![t] = "publish"]
          /\ batch' = [batch EXCEPT ![t] = @ \ {r}] /\ todo' = todo
      BY <3>1, <3>2 DEF Record, Statement, Goto
    <3> QED
      BY <3>3 DEF TodoFirst, TypeOK, EngineTypeOK
  <2> QED
    BY <2>2, <2>3
<1> QED
  BY <1>1, <1>2

\* A call about to publish the request its row names is the first to send one
\* for that key; a call about to mark such a row has published it.
OwnRows ==
    \A t \in Tasks : rowId[KeyOf(t, at[t])] = IdOf(t, at[t]) =>
        /\ step[t] = "publish" => ~SentFor(KeyOf(t, at[t]))
        /\ step[t] = "mark" => <<KeyOf(t, at[t]), IdOf(t, at[t])>> \in orders

RowInv ==
    /\ BatchApart /\ OneHolder /\ OrderInv /\ Recorded /\ SentRecorded
    /\ RowsPast /\ TodoFirst /\ Fresh /\ RememberedIsOrdered /\ OwnRows

\* A row of one's own is new, so nothing was sent for its key before, and nobody
\* else holds the key until the publish.
LEMMA OwnRowsStep ==
    ASSUME TypeOK, RowInv, [Next]_vars
    PROVE  OwnRows'
<1> USE DEF RowInv
<1> SUFFICES ASSUME NEW t \in Tasks, step'[t] \in {"publish", "mark"},
                    rowId'[KeyOf(t, at[t])'] = IdOf(t, at[t])'
             PROVE  /\ step'[t] = "publish" => ~SentFor(KeyOf(t, at[t]))'
                    /\ step'[t] = "mark" => (<<KeyOf(t, at[t]), IdOf(t, at[t])>> \in orders)'
  BY DEF OwnRows
<1>1. step[t] # "none" /\ cur'[t] = cur[t]
  <2>1. step[t] # "none"
    BY CallBegins DEF Begin, Goto, TypeOK, EngineTypeOK
  <2> QED
    BY <2>1, CallChange
<1>2. CASE step[t] \in {"publish", "mark"} /\ at'[t] = at[t]
  <2>1. KeyOf(t, at[t])' = KeyOf(t, at[t]) /\ IdOf(t, at[t])' = IdOf(t, at[t])
    BY <1>1, <1>2 DEF KeyOf, Key, IdOf
  <2>2. PICK key \in Keys, id \in Ids : key = KeyOf(t, at[t]) /\ id = IdOf(t, at[t])
    BY <1>2, CurrentKey DEF TypeOK, EngineTypeOK
  <2>3. rowId[key] = id
    BY <1>2, <2>1, <2>2, RowKept DEF Recorded
  <2>4. CASE step[t] = "mark"
    <3>1. <<key, id>> \in orders
      BY <2>2, <2>3, <2>4 DEF OwnRows
    <3>2. <<key, id>> \in orders' /\ step'[t] = "mark"
      BY <1>1, <2>4, <3>1, StreamChange, CallChange
      DEF Stays, Lists, Turns, Records, Publishes, Marks
    <3> QED
      BY <2>1, <2>2, <3>2
  <2>5. CASE step[t] = "publish" /\ step'[t] = "publish"
    <3>1. ~SentFor(key) /\ Holds(t, key)
      BY <2>2, <2>3, <2>5 DEF OwnRows, Holds
    <3>2. ~SentFor(key)'
      <4> SUFFICES ASSUME SentFor(key)'
                   PROVE  FALSE
        OBVIOUS
      <4>1. PICK u \in Tasks : /\ step[u] = "publish" /\ step'[u] # "publish"
                               /\ RequestOf(u)[1] = key
        BY <3>1, SentChange DEF SentFor
      <4>2. key = KeyOf(u, at[u])
        BY <4>1 DEF RequestOf
      <4>3. u = t
        BY <3>1, <4>1, <4>2 DEF OneHolder, Holds
      <4> QED
        BY <2>5, <4>1, <4>3
    <3> QED
      BY <2>1, <2>2, <2>5, <3>2
  <2>6. CASE step[t] = "publish" /\ step'[t] = "mark"
    <3>1. StoreRequest(RequestOf(t))
      BY <1>1, <2>6, CallChange DEF Stays, Lists, Turns, Records, Publishes, Marks
    <3>2. key \notin remembered
      BY <2>2, <2>3, <2>6 DEF OwnRows, RememberedIsOrdered, SentFor, Sent, Ordered
    <3>3. <<key, id>> \in orders'
      BY <2>2, <3>1, <3>2 DEF StoreRequest, RequestOf
    <3> QED
      BY <2>1, <2>2, <2>6, <3>3
  <2> QED
    BY <1>2, <2>4, <2>5, <2>6
<1>3. CASE Records(t)
  <2>1. PICK r \in Rels :
          /\ r \in batch[t] /\ Record(t, r) /\ InsertRow(KeyOf(t, r), IdOf(t, r))
          /\ step'[t] = "publish" /\ at'[t] = r
    BY <1>3 DEF Records, TypeOK, EngineTypeOK
  <2>2. KeyOf(t, at[t])' = KeyOf(t, r) /\ IdOf(t, at[t])' = IdOf(t, r)
    BY <1>1, <2>1 DEF KeyOf, Key, IdOf
  <2>3. PICK key \in Keys, id \in Ids : key = KeyOf(t, r) /\ id = IdOf(t, r)
    BY <1>1, CurrentKey DEF TypeOK, EngineTypeOK
  <2>4. rowId[key] # id
    BY <1>1, <2>1, <2>3 DEF Fresh
  <2>5. rowId[key] = NoId
    BY <2>1, <2>2, <2>3, <2>4, RowKept
  <2>6. ~SentFor(key)
    BY <2>5 DEF SentRecorded
  <2>7. UNCHANGED <<orders, inFlight>>
    BY <2>1 DEF Record, busOut
  <2> QED
    BY <2>1, <2>2, <2>3, <2>6, <2>7 DEF SentFor, Sent
<1> QED
  BY <1>1, <1>2, <1>3, CallChange DEF Stays, Lists, Turns, Publishes, Marks

\* The invariant is inductive.
LEMMA RowInvStep == TypeOK /\ RowInv /\ [Next]_vars => RowInv'
<1> SUFFICES ASSUME TypeOK, RowInv, [Next]_vars
             PROVE  RowInv'
  OBVIOUS
<1>1. HoldInv' /\ RecordInv'
  BY HoldInvStep, RecordInvStep DEF RowInv, HoldInv, RecordInv
<1>2. OrderInv'
  BY OrderInvStep, EngineBusStep DEF RowInv, TypeOK
<1>3. RowsPast' /\ TodoFirst' /\ Fresh' /\ RememberedIsOrdered' /\ OwnRows'
  BY RowsPastStep, TodoFirstStep, FreshStep, RememberedIsOrderedStep, OwnRowsStep DEF RowInv
<1> QED
  BY <1>1, <1>2, <1>3 DEF RowInv, HoldInv, RecordInv

\* The invariant holds at first: there are no rows.
LEMMA RowInvInit == Init => RowInv
<1> SUFFICES ASSUME Init
             PROVE  RowInv
  OBVIOUS
<1>1. HoldInv /\ RecordInv /\ OrderInv
  BY HoldInvInit, RecordInvInit, OrderInvInit DEF Init
<1>2. RowsPast /\ TodoFirst /\ Fresh /\ RememberedIsOrdered /\ OwnRows
  <2>1. \A k \in Keys : rowId[k] = NoId
    BY DEF Init
  <2> QED
    BY <2>1 DEF Init, RowsPast, TodoFirst, Fresh, RememberedIsOrdered, OwnRows
<1> QED
  BY <1>1, <1>2 DEF RowInv, HoldInv, RecordInv

\* A marked row is one its own call published.
LEMMA PublishedStep ==
    ASSUME TypeOK, RowInv, PublishedRowIsReal, [Next]_vars
    PROVE  PublishedRowIsReal'
<1> SUFFICES ASSUME NEW k \in Keys, rowStatus'[k] = "PUBLISHED"
             PROVE  <<k, rowId'[k]>> \in orders'
  BY DEF PublishedRowIsReal
<1>1. orders \subseteq orders'
  BY StreamChange
<1>2. CASE UNCHANGED <<rowId, rowStatus>>
  BY <1>1, <1>2 DEF PublishedRowIsReal
<1>3. ASSUME NEW t \in Tasks, NEW r \in Rels, InsertRow(KeyOf(t, r), IdOf(t, r))
      PROVE  <<k, rowId'[k]>> \in orders'
  <2>1. rowStatus[k] = "PUBLISHED" /\ rowId'[k] = rowId[k]
    BY <1>3 DEF InsertRow, TypeOK, EngineTypeOK
  <2> QED
    BY <1>1, <2>1 DEF PublishedRowIsReal
<1>4. ASSUME NEW t \in Tasks, Mark(t), MarkRow(KeyOf(t, at[t]), IdOf(t, at[t]))
      PROVE  <<k, rowId'[k]>> \in orders'
  <2>1. rowId' = rowId
    BY <1>4 DEF MarkRow
  <2>2. CASE rowStatus[k] = "PUBLISHED"
    BY <1>1, <2>1, <2>2 DEF PublishedRowIsReal
  <2>3. CASE rowStatus[k] # "PUBLISHED"
    <3>1. k = KeyOf(t, at[t]) /\ rowId[k] = IdOf(t, at[t])
      BY <1>4, <2>3 DEF MarkRow, TypeOK, EngineTypeOK
    <3>2. <<k, rowId[k]>> \in orders
      BY <1>4, <3>1 DEF Mark, RowInv, OwnRows
    <3> QED
      BY <1>1, <2>1, <3>2
  <2> QED
    BY <2>2, <2>3
<1> QED
  BY <1>2, <1>3, <1>4, RowsChange

\* A row that says PUBLISHED names a request the stream has, even when the row
\* and the publish stem from different handler calls: a call marks a row only
\* if the row is its own, and then no other call can have published before it.
THEOREM MarkedRowsPublished == Spec => []PublishedRowIsReal
<1>1. Init => PublishedRowIsReal
  BY DEF Init, PublishedRowIsReal
<1> QED
  BY <1>1, RowInvInit, RowInvStep, PublishedStep, TypeCorrect, PTL DEF Spec
-----------------------------------------------------------------------------
(* Every ordered row is marked.                                            *)

\* Publishes of execution requests return.
Publishing == Faults \cap {"publish_lost", "publish_ambiguous"} = {}

\* Publishes return, workers live, and statements run, answered or not.
Marking == Publishing /\ Faults \cap {"crash", "db_refused"} = {}

\* Keys are never freed, so a key that is new has no row: no call finds a row
\* where it is to record one.
FirstRows ==
    /\ \A k \in Keys : rowId[k] # NoId => k \in reserved
    /\ \A t \in Tasks :
         step[t] # "release" /\ \A r \in batch[t] : rowId[KeyOf(t, r)] = NoId

\* The row a call publishes and marks is the one it has recorded itself.
RowAtWork ==
    \A t \in Tasks : step[t] \in {"publish", "mark"} =>
        /\ rowId[KeyOf(t, at[t])] = IdOf(t, at[t])
        /\ rowStatus[KeyOf(t, at[t])] = "REQUESTED"

MarkInv == FirstRows /\ RowAtWork /\ OrderedRowsMarked /\ inFlight = {}

\* A relationship enters the batch of a call through a reservation that finds
\* its key free.
LEMMA BatchGrows ==
    ASSUME TypeOK, BatchApart, [Next]_vars, NEW t \in Tasks, NEW r \in batch'[t], r \notin batch[t]
    PROVE  /\ Reserve(t, r) /\ KeyOf(t, r) \notin reserved
           /\ rowId' = rowId /\ reserved' = reserved \cup {KeyOf(t, r)}
<1> USE DEF TypeOK, EngineTypeOK
<1>1. HandlerStep(t)
  <2>1. \A u \in Tasks : u # t /\ HandlerStep(u) => batch'[t] = batch[t]
    <3> SUFFICES ASSUME NEW u \in Tasks, u # t, HandlerStep(u)
                 PROVE  batch'[t] = batch[t]
      OBVIOUS
    <3>1. CASE List(u) \/ Mark(u)
      BY <3>1 DEF List, Mark, Statement, Raise, Forget
    <3>2. CASE \/ Reject(u) \/ Reserved(u) \/ PublishRequest(u)
               \/ PublishRequestFails(u) \/ Release(u) \/ Finish(u)
      BY <3>2 DEF Reject, Reserved, PublishRequest, PublishRequestFails, Release, Finish,
                  Raise, Forget
    <3>3. ASSUME NEW s \in Rels, Reserve(u, s) \/ Record(u, s)
          PROVE  batch'[t] = batch[t]
      BY <3>3 DEF Reserve, Record, Statement, Raise, Forget
    <3> QED
      BY <3>1, <3>2, <3>3 DEF HandlerStep
  <2> QED
    BY <2>1 DEF Next, TaskStep, Begin, Toggle, WindowPasses, RequestArrives, EngineCrash, Forget,
                engineVars, vars
<1>2. ~Raise(t)
  BY DEF Raise, Forget
<1>3. PICK s \in Rels : Reserve(t, s)
  <2>1. CASE List(t) \/ Mark(t)
    BY <1>2, <2>1 DEF List, Mark, Statement
  <2>2. CASE \/ Reject(t) \/ Reserved(t) \/ PublishRequest(t)
             \/ PublishRequestFails(t) \/ Release(t) \/ Finish(t)
    BY <2>2 DEF Reject, Reserved, PublishRequest, PublishRequestFails, Release, Finish,
                Raise, Forget
  <2>3. ASSUME NEW s \in Rels, Record(t, s)
        PROVE  FALSE
    BY <1>2, <2>3 DEF Record, Statement
  <2> QED
    BY <1>1, <2>1, <2>2, <2>3 DEF HandlerStep
<1>4. /\ batch'[t] = IF KeyOf(t, s) \in reserved THEN batch[t] ELSE batch[t] \cup {s}
      /\ rowId' = rowId /\ reserved' = reserved \cup {KeyOf(t, s)}
  BY <1>2, <1>3 DEF Reserve, Statement
<1> QED
  BY <1>3, <1>4

\* A call at its mark step stays there or marks its row.
LEMMA MarkEnds ==
    ASSUME TypeOK, Marking, [Next]_vars, NEW t \in Tasks, step[t] = "mark"
    PROVE  \/ step'[t] = "mark" /\ KeyOf(t, at[t])' = KeyOf(t, at[t])
           \/ Mark(t) /\ MarkRow(KeyOf(t, at[t]), IdOf(t, at[t]))
<1> USE DEF TypeOK, EngineTypeOK
<1>1. CASE HandlerStep(t)
  <2>1. Mark(t)
    BY <1>1 DEF HandlerStep, List, Reject, Reserved, PublishRequest, PublishRequestFails,
                Release, Finish, Reserve, Record
  <2> QED
    BY <2>1 DEF Mark, Statement, Marking
<1>2. CASE Begin(t) \/ CallbackStep(t)
  BY <1>2 DEF Begin, Take, CallbackStep, Nak, DeadLetter, DeadLetterFails, Ack
<1>3. ASSUME NEW u \in Tasks, u # t, TaskStep(u)
      PROVE  step'[t] = "mark" /\ KeyOf(t, at[t])' = KeyOf(t, at[t])
  BY <1>3, OthersStay DEF Stays, KeyOf, Key
<1>4. CASE UNCHANGED <<step, at, cur>>
  BY <1>4 DEF KeyOf, Key
<1>5. ASSUME NEW p \in Processes, EngineCrash(p)
      PROVE  FALSE
  BY <1>5 DEF EngineCrash, Crash, Marking
<1> QED
  BY <1>1, <1>2, <1>3, <1>4, <1>5
  DEF Next, TaskStep, ServerNext, Publish, Deliver, AckWaitExpires, Toggle, WindowPasses,
      RequestArrives, engineVars, vars, busVars

\* While publishes return, no call comes to release its key.
LEMMA NoReleaseStep ==
    ASSUME TypeOK, Publishing, \A t \in Tasks : step[t] # "release", [Next]_vars, NEW t \in Tasks
    PROVE  step'[t] # "release"
<1> SUFFICES ASSUME step'[t] = "release"
             PROVE  FALSE
  OBVIOUS
<1> USE DEF TypeOK, EngineTypeOK
<1>1. step[t] # "none"
  BY CallBegins DEF Begin, Goto
<1>2. Publishes(t)
  BY <1>1, CallChange DEF Stays, Lists, Turns, Records, Marks
<1>3. HandlerStep(t)
  <2>1. ASSUME NEW u \in Tasks, TaskStep(u)
        PROVE  HandlerStep(t)
    <3>1. u = t
      BY <1>2, <2>1, OthersStay DEF Publishes, Stays
    <3>2. ~Begin(t) /\ ~UNCHANGED engineVars
      BY <1>2 DEF Publishes, Begin, Goto, engineVars
    <3> QED
      BY <2>1, <3>1, <3>2 DEF TaskStep
  <2>2. step' # step
    BY <1>2 DEF Publishes
  <2> QED
    BY <2>1, <2>2 DEF Publishes, Next, Toggle, WindowPasses, RequestArrives, EngineCrash, Forget,
                      engineVars, vars
<1>4. PublishRequest(t) \/ PublishRequestFails(t)
  BY <1>2, <1>3 DEF Publishes, HandlerStep, List, Reject, Reserved, Release, Mark, Finish,
                    Reserve, Record
<1> QED
  BY <1>2, <1>4 DEF Publishes, PublishRequest, PublishRequestFails, Goto, Publishing


\* Rows and batches stay apart: a row is inserted for a key its call holds.
LEMMA FirstRowsStep ==
    ASSUME TypeOK, HoldInv, Marking, FirstRows, [Next]_vars
    PROVE  FirstRows'
<1> USE DEF TypeOK, EngineTypeOK
<1>1. HoldInv'
  BY HoldInvStep
<1>2. reserved \subseteq reserved'
  BY ReservedChange DEF FirstRows, Release
<1>3. ASSUME NEW k \in Keys, rowId'[k] # NoId
      PROVE  k \in reserved'
  <2>1. CASE rowId[k] # NoId
    BY <1>2, <2>1 DEF FirstRows
  <2>2. CASE rowId[k] = NoId
    <3>1. PICK t \in Tasks, r \in Rels : Record(t, r) /\ k = KeyOf(t, r)
      BY <1>3, <2>2, RowIdChange
    <3>2. Holds(t, k)
      BY <3>1 DEF Record, Holds
    <3> QED
      BY <1>2, <3>2 DEF HoldInv, OneHolder
  <2> QED
    BY <2>1, <2>2
<1>4. ASSUME NEW t \in Tasks, NEW r \in batch'[t]
      PROVE  rowId'[KeyOf(t, r)'] = NoId
  <2>1. step[t] # "none" /\ step'[t] # "none"
    <3>1. CASE step[t] = "none"
      <4>1. r \notin batch[t]
        BY <3>1 DEF HoldInv, BatchApart
      <4>2. Reserve(t, r)
        BY <4>1, BatchGrows DEF HoldInv
      <4> QED
        BY <3>1, <4>2 DEF Reserve
    <3> QED
      BY <1>1, <1>4, <3>1 DEF HoldInv, BatchApart
  <2>2. KeyOf(t, r)' = KeyOf(t, r) /\ KeyOf(t, r) \in Keys
    BY <1>4, <2>1, CallChange, CurrentKey, TypeStep DEF KeyOf, Key
  <2>3. CASE r \in batch[t] /\ rowId'[KeyOf(t, r)] # NoId
    <3>1. rowId[KeyOf(t, r)] = NoId
      BY <2>3 DEF FirstRows
    <3>2. PICK u \in Tasks, s \in Rels : Record(u, s) /\ KeyOf(u, s) = KeyOf(t, r)
      BY <2>2, <2>3, <3>1, RowIdChange
    <3>3. Holds(u, KeyOf(t, r)) /\ Holds(t, KeyOf(t, r))
      BY <2>3, <3>2 DEF Record, Holds
    <3>4. u = t /\ s = r
      BY <2>2, <3>2, <3>3, KeysDiffer DEF HoldInv, OneHolder
    <3>5. ~Raise(t)
      BY <2>1 DEF Raise, Forget
    <3> QED
      BY <1>4, <3>2, <3>4, <3>5 DEF Record, Statement
  <2>4. CASE r \notin batch[t]
    BY <2>2, <2>4, BatchGrows DEF HoldInv, FirstRows
  <2> QED
    BY <2>2, <2>3, <2>4
<1> QED
  BY <1>3, <1>4, NoReleaseStep DEF FirstRows, Marking

\* A call's own row stays as it is until the call itself marks it.
LEMMA RowAtWorkStep ==
    ASSUME TypeOK, FirstRows, RowAtWork, [Next]_vars
    PROVE  RowAtWork'
<1> USE DEF TypeOK, EngineTypeOK
<1> SUFFICES ASSUME NEW t \in Tasks, step'[t] \in {"publish", "mark"}
             PROVE  /\ rowId'[KeyOf(t, at[t])'] = IdOf(t, at[t])'
                    /\ rowStatus'[KeyOf(t, at[t])'] = "REQUESTED"
  BY DEF RowAtWork
<1>1. step[t] # "none" /\ cur'[t] = cur[t]
  <2>1. step[t] # "none"
    BY CallBegins DEF Begin, Goto
  <2> QED
    BY <2>1, CallChange
<1>2. CASE step[t] \in {"publish", "mark"} /\ at'[t] = at[t]
  <2>1. KeyOf(t, at[t])' = KeyOf(t, at[t]) /\ IdOf(t, at[t])' = IdOf(t, at[t])
    BY <1>1, <1>2 DEF KeyOf, Key, IdOf
  <2>2. PICK key \in Keys, id \in Ids : key = KeyOf(t, at[t]) /\ id = IdOf(t, at[t])
    BY <1>2, CurrentKey
  <2>3. rowId[key] = id /\ rowStatus[key] = "REQUESTED"
    BY <1>2, <2>2 DEF RowAtWork
  <2>4. rowId'[key] = id
    BY <2>3, IdsDiffer, RowKept
  <2>5. rowStatus'[key] = "REQUESTED"
    <3>1. ASSUME NEW u \in Tasks, NEW r \in Rels, InsertRow(KeyOf(u, r), IdOf(u, r))
          PROVE  rowStatus'[key] = "REQUESTED"
      BY <2>3, <3>1 DEF InsertRow
    <3>2. ASSUME NEW u \in Tasks, Mark(u), MarkRow(KeyOf(u, at[u]), IdOf(u, at[u])),
                 rowStatus'[key] # "REQUESTED"
          PROVE  FALSE
      <4>1. IdOf(u, at[u]) = id
        BY <2>3, <3>2 DEF MarkRow
      <4>2. u = t
        BY <2>2, <4>1, IdsDiffer
      <4> QED
        BY <3>2, <4>2 DEF Mark, Statement, Goto, Raise, Forget
    <3> QED
      BY <2>3, <3>1, <3>2, RowsChange
  <2> QED
    BY <2>1, <2>2, <2>4, <2>5
<1>3. CASE Records(t)
  <2>1. PICK r \in Rels :
          /\ r \in batch[t] /\ InsertRow(KeyOf(t, r), IdOf(t, r)) /\ at'[t] = r
    BY <1>3 DEF Records
  <2>2. KeyOf(t, at[t])' = KeyOf(t, r) /\ IdOf(t, at[t])' = IdOf(t, r)
    BY <1>1, <2>1 DEF KeyOf, Key, IdOf
  <2>3. KeyOf(t, r) \in Keys /\ rowId[KeyOf(t, r)] = NoId
    BY <1>1, <2>1, CurrentKey DEF FirstRows
  <2> QED
    BY <2>1, <2>2, <2>3 DEF InsertRow
<1> QED
  BY <1>1, <1>2, <1>3, CallChange DEF Stays, Lists, Turns, Publishes, Marks

\* A row with a request in the stream is marked, or about to be.
LEMMA OrderedMarkedStep ==
    ASSUME TypeOK, Marking, RecordInv, MarkInv, [Next]_vars
    PROVE  OrderedRowsMarked' /\ inFlight' = {}
<1> USE DEF TypeOK, EngineTypeOK
<1> SUFFICES ASSUME NEW k \in Keys, Ordered(k)', rowStatus'[k] # "PUBLISHED"
             PROVE  \E t \in Tasks : step'[t] = "mark" /\ KeyOf(t, at[t])' = k
  BY InFlightChange DEF OrderedRowsMarked, MarkInv, Marking, Publishing
<1>1. CASE Ordered(k)
  <2>1. rowId[k] # NoId
    BY <1>1 DEF RecordInv, SentRecorded, SentFor, Sent, Ordered
  <2>2. rowStatus[k] # "PUBLISHED"
    BY <2>1, RowsChange DEF InsertRow, MarkRow
  <2>3. PICK t \in Tasks : step[t] = "mark" /\ KeyOf(t, at[t]) = k
    BY <1>1, <2>2 DEF MarkInv, OrderedRowsMarked
  <2>4. rowId[k] = IdOf(t, at[t]) /\ rowStatus[k] = "REQUESTED"
    BY <2>3 DEF MarkInv, RowAtWork
  <2>5. ~MarkRow(KeyOf(t, at[t]), IdOf(t, at[t]))
    BY <2>3, <2>4 DEF MarkRow
  <2> QED
    BY <2>3, <2>5, MarkEnds
<1>2. CASE ~Ordered(k)
  <2>1. PICK t \in Tasks :
          /\ PublishRequest(t)
          /\ orders' = orders \cup {<<KeyOf(t, at[t]), IdOf(t, at[t])>>}
    BY <1>2, StreamChange DEF Ordered, MarkInv
  <2>2. k = KeyOf(t, at[t])
    BY <1>2, <2>1 DEF Ordered
  <2>3. step'[t] = "mark" /\ KeyOf(t, at[t])' = KeyOf(t, at[t])
    BY <2>1 DEF PublishRequest, Goto, busVars, KeyOf, Key
  <2> QED
    BY <2>2, <2>3
<1> QED
  BY <1>1, <1>2

\* As long as workers live, statements are not refused and publishes do not
\* raise, every request in the stream has a row that says so, or the call that
\* published it is about to say so: the key is never freed, so the row is the
\* call's own and mark_published finds it by the request's id.
THEOREM OrdersAreMarked == Marking => (Spec => []OrderedRowsMarked)
<1> SUFFICES ASSUME Marking
             PROVE  Spec => []OrderedRowsMarked
  OBVIOUS
<1>1. Init => MarkInv
  BY DEF Init, MarkInv, FirstRows, RowAtWork, OrderedRowsMarked, Ordered
<1>2. TypeOK /\ HoldInv /\ RecordInv /\ MarkInv /\ [Next]_vars => MarkInv'
  BY FirstRowsStep, RowAtWorkStep, OrderedMarkedStep DEF MarkInv
<1>3. MarkInv => OrderedRowsMarked
  BY DEF MarkInv
<1> QED
  BY <1>1, <1>2, <1>3, HoldInvInit, HoldInvStep, RecordInvInit, RecordInvStep, TypeCorrect, PTL
  DEF Spec

-----------------------------------------------------------------------------
(* What an acknowledged event owes is ordered.                             *)

\* Workers live and every statement is answered: a call ends by returning, by
\* rejecting its event, or by releasing the key of a publish that failed.
Answered == Faults \cap {"crash", "db_refused", "db_unanswered"} = {}

\* A call that releases a key holds no other.
ReleaseAlone == \A t \in Tasks : step[t] = "release" => batch[t] = {}

\* A reserved key is being worked on or its copy is ordered.
ReservedIsLive == \A k \in reserved : Ordered(k) \/ \E t \in Tasks : Holds(t, k)

LiveInv == HoldInv /\ TodoFirst /\ RememberedIsOrdered /\ ReleaseAlone /\ ReservedIsLive

\* A key leaves the hands of a call by being ordered or by being released.
LEMMA HeldOrPlaced ==
    ASSUME TypeOK, HoldInv, RememberedIsOrdered, Answered, [Next]_vars,
           NEW t \in Tasks, NEW k \in Keys, Holds(t, k)
    PROVE  Holds(t, k)' \/ Ordered(k)' \/ Release(t)
<1> USE DEF TypeOK, EngineTypeOK, HoldInv
<1>1. step[t] \notin {"none", "list"}
  BY DEF Holds, BatchApart
<1>2. CASE HandlerStep(t)
  <2>1. CASE Reserved(t)
    BY <2>1 DEF Reserved, Goto, busVars, Holds, KeyOf, Key
  <2>2. CASE PublishRequest(t)
    <3>1. /\ StoreRequest(RequestOf(t)) /\ step[t] = "publish" /\ step'[t] = "mark"
          /\ UNCHANGED <<batch, cur, at>>
      BY <2>2 DEF PublishRequest, Goto, busVars
    <3>2. CASE k = KeyOf(t, at[t])
      <4>1. Ordered(k)'
        <5>1. IdOf(t, at[t]) \in Ids
          BY <3>1, CurrentKey
        <5>2. <<k, IdOf(t, at[t])>> \in orders' \/ Ordered(k)'
          BY <3>1, <3>2 DEF StoreRequest, RequestOf, RememberedIsOrdered, Ordered
        <5> QED
          BY <5>1, <5>2 DEF Ordered
      <4> QED
        BY <4>1
    <3>3. CASE k # KeyOf(t, at[t])
      BY <3>1, <3>3 DEF Holds, KeyOf, Key
    <3> QED
      BY <3>2, <3>3
  <2>3. CASE PublishRequestFails(t)
    <3>1. step[t] = "publish" /\ step'[t] = "release" /\ UNCHANGED <<batch, cur, at>>
      BY <2>3 DEF PublishRequestFails, Goto, busVars
    <3> QED
      BY <3>1 DEF Holds, KeyOf, Key
  <2>4. CASE Mark(t)
    BY <2>4 DEF Mark, Statement, Answered, Goto, busVars, Holds, KeyOf, Key
  <2>5. CASE Finish(t)
    BY <2>5 DEF Finish, Holds
  <2>6. ASSUME NEW r \in Rels, Reserve(t, r)
        PROVE  Holds(t, k)'
    BY <2>6 DEF Reserve, Statement, Answered, busVars, Holds, KeyOf, Key
  <2>7. ASSUME NEW r \in Rels, Record(t, r)
        PROVE  Holds(t, k)'
    BY <2>7 DEF Record, Statement, Answered, Goto, busVars, Holds, KeyOf, Key
  <2> QED
    BY <1>1, <1>2, <2>1, <2>2, <2>3, <2>4, <2>5, <2>6, <2>7 DEF HandlerStep, List, Reject
<1>3. CASE Begin(t) \/ CallbackStep(t)
  BY <1>1, <1>3 DEF Begin, Take, CallbackStep, Nak, DeadLetter, DeadLetterFails, Ack
<1>4. ASSUME NEW u \in Tasks, u # t, TaskStep(u)
      PROVE  Holds(t, k)'
  BY <1>4, OthersUntouched DEF Untouched, Holds, KeyOf, Key
<1>5. CASE UNCHANGED <<batch, cur, step, at>>
  BY <1>5, HoldsKept
<1>6. ASSUME NEW p \in Processes, EngineCrash(p)
      PROVE  FALSE
  BY <1>6 DEF EngineCrash, Crash, Answered
<1> QED
  BY <1>2, <1>3, <1>4, <1>5, <1>6
  DEF Next, TaskStep, ServerNext, Publish, Deliver, AckWaitExpires, Toggle, WindowPasses,
      RequestArrives, engineVars, vars, busVars

\* A relationship leaves the todo of a call by being reserved.
LEMMA TodoOrReserved ==
    ASSUME TypeOK, TodoFirst, Answered, [Next]_vars, NEW t \in Tasks, NEW r \in todo[t]
    PROVE  /\ cur'[t] = cur[t]
           /\ r \in todo'[t] \/ (Reserve(t, r) /\ KeyOf(t, r) \in reserved')
<1> USE DEF TypeOK, EngineTypeOK
<1>1. step[t] = "reserve"
  BY DEF TodoFirst
<1>2. CASE HandlerStep(t)
  <2>1. PICK s \in Rels : Reserve(t, s)
    BY <1>1, <1>2 DEF HandlerStep, List, Reject, Reserved, PublishRequest, PublishRequestFails,
                Release, Mark, Finish, Record
  <2>2. /\ todo' = [todo EXCEPT ![t] = @ \ {s}]
        /\ reserved' = reserved \cup {KeyOf(t, s)} /\ UNCHANGED cur
    BY <2>1 DEF Reserve, Statement, Answered, busVars
  <2> QED
    BY <2>1, <2>2
<1>3. CASE Begin(t) \/ CallbackStep(t)
  BY <1>1, <1>3 DEF Begin, Take, CallbackStep, Nak, DeadLetter, DeadLetterFails, Ack
<1>4. ASSUME NEW u \in Tasks, u # t, TaskStep(u)
      PROVE  Untouched(t)
  BY <1>4, OthersUntouched
<1>5. CASE UNCHANGED <<cur, todo>>
  BY <1>5
<1>6. ASSUME NEW p \in Processes, EngineCrash(p)
      PROVE  FALSE
  BY <1>6 DEF EngineCrash, Crash, Answered
<1> QED
  BY <1>2, <1>3, <1>4, <1>5, <1>6
  DEF Untouched, Next, TaskStep, ServerNext, Publish, Deliver, AckWaitExpires, Toggle,
      WindowPasses, RequestArrives, engineVars, vars, busVars

\* Ordered copies stay ordered.
LEMMA OrderedKept ==
    ASSUME TypeOK, [Next]_vars, NEW k, Ordered(k)
    PROVE  Ordered(k)'
BY StreamChange DEF Ordered

\* A key is reserved for a call that holds it, and freed by the one call that
\* holds it and no other.
LEMMA ReservedIsLiveStep ==
    ASSUME TypeOK, LiveInv, Answered, [Next]_vars
    PROVE  ReservedIsLive'
<1> USE DEF LiveInv
<1> SUFFICES ASSUME NEW k \in reserved', ~Ordered(k)'
             PROVE  \E t \in Tasks : Holds(t, k)'
  BY DEF ReservedIsLive
<1>1. ASSUME k \in reserved
      PROVE  \E t \in Tasks : Holds(t, k)'
  <2>1. k \in Keys
    BY <1>1 DEF TypeOK, EngineTypeOK
  <2>2. PICK t \in Tasks : Holds(t, k)
    BY <1>1, OrderedKept DEF ReservedIsLive
  <2>3. CASE Release(t)
    <3>1. reserved' = reserved \ {KeyOf(t, at[t])} /\ step[t] = "release"
      BY <2>3 DEF Release, Answered
    <3> QED
      BY <2>2, <3>1 DEF ReleaseAlone, Holds
  <2> QED
    BY <2>1, <2>2, <2>3, HeldOrPlaced
<1>2. ASSUME k \notin reserved
      PROVE  \E t \in Tasks : Holds(t, k)'
  <2>1. PICK t \in Tasks, r \in Rels : Reserve(t, r) /\ k = KeyOf(t, r)
    BY <1>2, ReservedChange
  <2>2. batch'[t] = batch[t] \cup {r} /\ UNCHANGED cur
    BY <1>2, <2>1 DEF Reserve, Statement, Answered, busVars, TypeOK, EngineTypeOK
  <2> QED
    BY <2>1, <2>2 DEF Holds, KeyOf, Key
<1> QED
  BY <1>1, <1>2

\* A copy becomes owed when a call finds it due, and is owed no longer when a
\* gate of its relationship closes.
LEMMA OwedChange ==
    ASSUME [Next]_vars
    PROVE  \/ UNCHANGED <<owed, enabled>>
           \/ owed' = {o \in owed : o[2] \in enabled'}
           \/ \E t \in Tasks :
                /\ List(t)
                /\ todo' = [todo EXCEPT ![t] = Follows[cur[t].msg] \cap enabled]
                /\ owed' = owed \cup (({cur[t].msg} \ handled) \X (Follows[cur[t].msg] \cap enabled))
                /\ UNCHANGED <<enabled, cur, handled>>
<1>1. ASSUME NEW t \in Tasks, List(t)
      PROVE  \/ UNCHANGED <<owed, enabled>>
             \/ /\ todo' = [todo EXCEPT ![t] = Follows[cur[t].msg] \cap enabled]
                /\ owed' = owed \cup (({cur[t].msg} \ handled) \X (Follows[cur[t].msg] \cap enabled))
                /\ UNCHANGED <<enabled, cur, handled>>
  BY <1>1 DEF List, Statement, Raise, busVars
<1>2. ASSUME NEW t \in Tasks, HandlerStep(t), ~List(t)
      PROVE  UNCHANGED <<owed, enabled>>
  BY <1>2 DEF HandlerStep, Reject, Reserved, PublishRequest, PublishRequestFails, Release,
              Mark, Finish, Reserve, Record, Statement, Raise
<1> QED
  BY <1>1, <1>2 DEF Next, TaskStep, Begin, Toggle, WindowPasses, RequestArrives, EngineCrash,
              engineVars, vars

\* The copy of m for r is ordered, or a call is at work on it.
InWork(m, r) ==
    \/ Ordered(Key(m, r))
    \/ \E t \in Tasks : Holds(t, Key(m, r)) \/ (cur[t].msg = m /\ r \in todo[t])

OwedIsInWork == \A m \in Messages, r \in Rels : <<m, r>> \in owed => InWork(m, r)

\* While nothing is released, a copy in work stays in work.
LEMMA InWorkKept ==
    ASSUME TypeOK, LiveInv, LiveInv', Answered, \A t \in Tasks : step[t] # "release",
           [Next]_vars, NEW m \in Messages, NEW r \in Rels, InWork(m, r)
    PROVE  InWork(m, r)'
<1>1. Key(m, r) \in Keys /\ Key(m, r)' = Key(m, r)
  BY DEF Key, Keys
<1>2. CASE Ordered(Key(m, r))
  BY <1>1, <1>2, OrderedKept DEF InWork
<1>3. ASSUME NEW t \in Tasks, Holds(t, Key(m, r))
      PROVE  InWork(m, r)'
  BY <1>1, <1>3, HeldOrPlaced DEF InWork, LiveInv, Release
<1>4. ASSUME NEW t \in Tasks, cur[t].msg = m, r \in todo[t]
      PROVE  InWork(m, r)'
  <2>1. CASE r \in todo'[t] /\ cur'[t] = cur[t]
    BY <1>4, <2>1 DEF InWork
  <2>2. CASE Key(m, r) \in reserved'
    BY <1>1, <2>2 DEF InWork, LiveInv, ReservedIsLive
  <2> QED
    BY <1>4, <2>1, <2>2, TodoOrReserved DEF LiveInv, KeyOf
<1> QED
  BY <1>2, <1>3, <1>4 DEF InWork

CalmInv == LiveInv /\ OwedIsInWork /\ \A t \in Tasks : step[t] # "release"

\* The invariant for publishes that return is inductive.
LEMMA CalmInvStep ==
    ASSUME Answered, Publishing, TypeOK, CalmInv, [Next]_vars
    PROVE  CalmInv'
<1> USE DEF CalmInv
<1>1. \A t \in Tasks : step'[t] # "release"
  BY NoReleaseStep
<1>2. RememberedIsOrdered' /\ TodoFirst' /\ HoldInv'
  BY RememberedIsOrderedStep, TodoFirstStep, HoldInvStep DEF LiveInv
<1>3. LiveInv'
  BY <1>1, <1>2, ReservedIsLiveStep DEF LiveInv, ReleaseAlone
<1>4. OwedIsInWork'
  <2> SUFFICES ASSUME NEW m \in Messages, NEW r \in Rels, <<m, r>> \in owed'
               PROVE  InWork(m, r)'
    BY DEF OwedIsInWork
  <2>1. CASE <<m, r>> \in owed
    BY <1>3, <2>1, InWorkKept DEF OwedIsInWork
  <2>2. CASE <<m, r>> \notin owed
    <3>1. PICK t \in Tasks :
            /\ todo' = [todo EXCEPT ![t] = Follows[cur[t].msg] \cap enabled]
            /\ <<m, r>> \in ({cur[t].msg} \ handled) \X (Follows[cur[t].msg] \cap enabled)
            /\ UNCHANGED cur
      BY <2>2, OwedChange
    <3> QED
      BY <3>1 DEF InWork, TypeOK, EngineTypeOK
  <2> QED
    BY <2>1, <2>2
<1> QED
  BY <1>1, <1>3, <1>4

\* An event is to be copied for at most one relationship, and one task reads
\* all the messages that carry it.
OneFollower == \A m \in Messages : \A r, s \in Follows[m] : r = s

OneReader ==
    \A m, n \in Messages : EventKey[m] = EventKey[n] =>
        \A t \in Readers[m], u \in Readers[n] : t = u

\* A call is at work on relationships that follow its event.
FollowsOnly ==
    \A t \in Tasks : step[t] # "none" =>
        /\ todo[t] \cup batch[t] \subseteq Follows[cur[t].msg]
        /\ step[t] \in {"publish", "release", "mark"} => at[t] \in Follows[cur[t].msg]

\* An owed copy is found again by every later call.
OwedIsFound == \A m \in Messages, r \in Rels : <<m, r>> \in owed => r \in Follows[m] \cap enabled

\* A call has what its event owes still before it, in hand, or ordered.
OwedAtWork ==
    \A t \in Tasks, r \in Rels :
        step[t] \notin {"none", "list"} /\ <<cur[t].msg, r>> \in owed =>
            r \in todo[t] \/ Holds(t, KeyOf(t, r)) \/ Ordered(KeyOf(t, r))

\* A call that has returned has ordered what its event owes.
OwedIsOrdered ==
    \A m \in handled, r \in Rels : <<m, r>> \in owed => Ordered(Key(m, r))

RetryInv ==
    LiveInv /\ Routed /\ FollowsOnly /\ OwedIsFound /\ OwedAtWork /\ OwedIsOrdered

\* FollowsOnly is kept by every step.
LEMMA FollowsOnlyStep ==
    ASSUME TypeOK, BatchApart, TodoFirst, FollowsOnly, [Next]_vars
    PROVE  FollowsOnly'
<1> USE DEF TypeOK, EngineTypeOK
<1> SUFFICES ASSUME NEW t \in Tasks, step'[t] # "none"
             PROVE  /\ todo'[t] \cup batch'[t] \subseteq Follows[cur'[t].msg]
                    /\ step'[t] \in {"publish", "release", "mark"} => at'[t] \in Follows[cur'[t].msg]
  BY DEF FollowsOnly
<1>1. CASE step[t] = "none"
  BY <1>1, CallBegins DEF Begin, Goto, BatchApart, TodoFirst
<1>2. CASE step[t] # "none"
  <2>1. cur'[t] = cur[t] /\ todo[t] \cup batch[t] \subseteq Follows[cur[t].msg]
    BY <1>2, CallChange DEF FollowsOnly
  <2>2. CASE Stays(t)
    BY <1>2, <2>1, <2>2 DEF Stays, FollowsOnly
  <2>3. CASE Records(t)
    BY <2>1, <2>3 DEF Records
  <2>4. CASE Publishes(t)
    BY <2>1, <2>4 DEF Publishes, FollowsOnly
  <2>5. CASE Lists(t) \/ Turns(t) \/ Marks(t)
    BY <2>1, <2>5 DEF Lists, Turns, Marks
  <2> QED
    BY <1>2, <2>2, <2>3, <2>4, <2>5, CallChange
<1> QED
  BY <1>1, <1>2

\* The calls for one event, under whichever message, are made by one task.
LEMMA OneCaller ==
    ASSUME TypeOK, Routed, OneReader, NEW t \in Tasks, NEW u \in Tasks,
           step[t] # "none", step[u] # "none", EventKey[cur[t].msg] = EventKey[cur[u].msg]
    PROVE  t = u
<1>1. phase[t] # "idle" /\ phase[u] # "idle"
  BY DEF TypeOK, EngineTypeOK
<1>2. cur[t].msg \in Messages /\ cur[u].msg \in Messages
  BY <1>1, CurrentDelivery DEF TypeOK
<1> QED
  BY <1>1, <1>2 DEF Routed, OneReader

\* A call with one relationship to copy for releases the only key it holds.
LEMMA OneIsAlone ==
    ASSUME TypeOK, BatchApart, FollowsOnly, OneFollower
    PROVE  ReleaseAlone
<1> SUFFICES ASSUME NEW t \in Tasks, step[t] = "release", NEW r \in batch[t]
             PROVE  FALSE
  BY DEF ReleaseAlone
<1>1. cur[t].msg \in Messages
  BY CurrentDelivery DEF TypeOK, EngineTypeOK
<1>2. at[t] = r
  BY <1>1 DEF FollowsOnly, OneFollower
<1> QED
  BY <1>2 DEF BatchApart

\* OwedIsFound is kept by every step.
LEMMA OwedIsFoundStep ==
    ASSUME OwedIsFound, [Next]_vars
    PROVE  OwedIsFound'
BY OwedChange DEF OwedIsFound

\* What a call owes it reserves, or finds reserved by itself or ordered.
LEMMA OwedAtWorkStep ==
    ASSUME Answered, OneReader, TypeOK, RetryInv, [Next]_vars
    PROVE  OwedAtWork'
<1> USE DEF RetryInv
<1> SUFFICES ASSUME NEW t \in Tasks, NEW r \in Rels, step'[t] \notin {"none", "list"},
                    <<cur'[t].msg, r>> \in owed'
             PROVE  r \in todo'[t] \/ Holds(t, KeyOf(t, r))' \/ Ordered(KeyOf(t, r))'
  BY DEF OwedAtWork
<1>1. step[t] # "none" /\ cur'[t] = cur[t]
  <2>1. step[t] # "none"
    BY CallBegins DEF Begin, Goto, TypeOK, EngineTypeOK
  <2> QED
    BY <2>1, CallChange
<1>2. KeyOf(t, r)' = KeyOf(t, r) /\ KeyOf(t, r) \in Keys /\ cur[t].msg \in Messages
  <2>1. phase[t] # "idle"
    BY <1>1 DEF TypeOK, EngineTypeOK
  <2> QED
    BY <1>1, <2>1, CurrentKey, CurrentDelivery DEF TypeOK, KeyOf, Key
<1>3. CASE step[t] = "list"
  <2>1. todo'[t] = Follows[cur[t].msg] \cap enabled
    BY <1>1, <1>3, CallChange DEF Stays, Lists, Turns, Records, Publishes, Marks
  <2> QED
    BY <1>1, <1>2, <2>1, OwedChange DEF OwedIsFound
<1>4. CASE step[t] # "list"
  <2>1. <<cur[t].msg, r>> \in owed
    <3> SUFFICES ASSUME <<cur[t].msg, r>> \notin owed
                 PROVE  FALSE
      OBVIOUS
    <3>1. PICK u \in Tasks : List(u) /\ cur[u].msg = cur[t].msg
      BY <1>1, OwedChange
    <3>2. u = t
      BY <1>1, <3>1, OneCaller DEF List
    <3> QED
      BY <1>4, <3>1, <3>2 DEF List
  <2>2. ASSUME NEW u \in Tasks, Holds(u, KeyOf(t, r))
        PROVE  Holds(t, KeyOf(t, r))' \/ Ordered(KeyOf(t, r))'
    <3>1. step[u] # "none" /\ EventKey[cur[u].msg] = EventKey[cur[t].msg]
      BY <2>2 DEF Holds, KeyOf, Key, LiveInv, HoldInv, BatchApart
    <3>2. u = t
      BY <1>1, <3>1, OneCaller
    <3>3. ~Release(t)
      BY DEF Release, Raise, Forget, TypeOK, EngineTypeOK
    <3> QED
      BY <1>2, <2>2, <3>2, <3>3, HeldOrPlaced DEF LiveInv
  <2>3. CASE r \in todo[t]
    <3>1. CASE Reserve(t, r)
      <4>1. CASE KeyOf(t, r) \in reserved
        BY <1>2, <2>2, <4>1, OrderedKept DEF LiveInv, ReservedIsLive
      <4>2. CASE KeyOf(t, r) \notin reserved
        <5>1. batch'[t] = batch[t] \cup {r}
          BY <3>1, <4>2 DEF Reserve, Statement, Answered, TypeOK, EngineTypeOK
        <5> QED
          BY <5>1 DEF Holds
      <4> QED
        BY <4>1, <4>2
    <3> QED
      BY <2>3, <3>1, TodoOrReserved DEF LiveInv
  <2>4. CASE Ordered(KeyOf(t, r))
    BY <1>2, <2>4, OrderedKept
  <2> QED
    BY <1>1, <1>4, <2>1, <2>2, <2>3, <2>4 DEF OwedAtWork
<1> QED
  BY <1>3, <1>4

\* An event is handled when a call for it finishes.
LEMMA HandledChange ==
    ASSUME [Next]_vars
    PROVE  \/ handled' = handled
           \/ \E t \in Tasks : Finish(t) /\ handled' = handled \cup {cur[t].msg}
<1>1. ASSUME NEW t \in Tasks, HandlerStep(t), ~Finish(t)
      PROVE  handled' = handled
  <2>1. Raise(t) => handled' = handled
    BY DEF Raise, HandlerRaises
  <2> QED
    BY <1>1, <2>1 DEF HandlerStep, List, Reject, Reserved, PublishRequest, PublishRequestFails,
       Release, Mark, Reserve, Record, Statement, busVars
<1>2. ASSUME NEW t \in Tasks, Finish(t)
      PROVE  handled' = handled \cup {cur[t].msg}
  BY <1>2 DEF Finish, HandlerReturns
<1> QED
  BY <1>1, <1>2 DEF Next, TaskStep, ServerNext, Publish, Deliver, AckWaitExpires, Begin, Take,
     CallbackStep, Nak, DeadLetter, DeadLetterFails, Ack, Toggle, WindowPasses, RequestArrives,
     EngineCrash, Crash, vars, busVars

\* A finishing call has nothing before it and nothing in hand.
LEMMA OwedIsOrderedStep ==
    ASSUME TypeOK, RetryInv, [Next]_vars
    PROVE  OwedIsOrdered'
<1> USE DEF RetryInv
<1> SUFFICES ASSUME NEW m \in handled', NEW r \in Rels, <<m, r>> \in owed'
             PROVE  Ordered(Key(m, r))'
  BY DEF OwedIsOrdered, Key
<1>1. CASE m \in handled
  <2>1. <<m, r>> \in owed
    BY <1>1, OwedChange
  <2> QED
    BY <1>1, <2>1, OrderedKept DEF OwedIsOrdered
<1>2. CASE m \notin handled
  <2>1. PICK t \in Tasks : Finish(t) /\ m = cur[t].msg
    BY <1>2, HandledChange
  <2>2. step[t] = "record" /\ batch[t] = {} /\ owed' = owed
    BY <2>1 DEF Finish
  <2>3. todo[t] = {} /\ ~Holds(t, KeyOf(t, r))
    BY <2>2 DEF LiveInv, TodoFirst, Holds
  <2>4. Ordered(KeyOf(t, r))
    BY <2>1, <2>2, <2>3 DEF OwedAtWork
  <2> QED
    BY <2>1, <2>4, OrderedKept DEF KeyOf
<1> QED
  BY <1>1, <1>2

\* The invariant for publishes that may fail is inductive.
LEMMA RetryInvStep ==
    ASSUME Answered, OneFollower, OneReader, TypeOK, RetryInv, [Next]_vars
    PROVE  RetryInv'
<1> USE DEF RetryInv
<1>1. TypeOK' /\ HoldInv' /\ TodoFirst' /\ RememberedIsOrdered'
  BY TypeStep, HoldInvStep, TodoFirstStep, RememberedIsOrderedStep DEF LiveInv
<1>2. Routed' /\ FollowsOnly'
  BY RoutedStep, EngineBusStep, FollowsOnlyStep DEF TypeOK, LiveInv, HoldInv
<1>3. ReleaseAlone'
  <2> SUFFICES ASSUME NEW t \in Tasks, step'[t] = "release"
               PROVE  batch'[t] = {}
    BY DEF ReleaseAlone
  <2>1. cur'[t].msg \in Messages
    <3>1. cur'[t] \in Deliveries
      BY <1>1 DEF TypeOK, EngineTypeOK, BusTypeOK
    <3> QED
      BY <3>1 DEF Deliveries
  <2>2. ASSUME NEW r \in batch'[t]
        PROVE  r = at'[t]
    BY <1>2, <2>1 DEF FollowsOnly, OneFollower
  <2> QED
    BY <1>1, <2>2 DEF HoldInv, BatchApart
<1>4. ReservedIsLive' /\ OwedIsFound' /\ OwedAtWork' /\ OwedIsOrdered'
  BY ReservedIsLiveStep, OwedIsFoundStep, OwedAtWorkStep, OwedIsOrderedStep
<1> QED
  BY <1>1, <1>2, <1>3, <1>4 DEF LiveInv

\* Nothing is reserved or owed at first.
LEMMA CopiedInit == Init => CalmInv /\ RetryInv
<1> SUFFICES ASSUME Init
             PROVE  CalmInv /\ RetryInv
  OBVIOUS
<1>1. \A t \in Tasks : step[t] = "none" /\ todo[t] = {} /\ phase[t] = "idle" /\ inbox[t] = << >>
  BY DEF Init, BusInit
<1>2. LiveInv
  BY <1>1, HoldInvInit
  DEF Init, LiveInv, TodoFirst, RememberedIsOrdered, ReleaseAlone, ReservedIsLive
<1>3. Routed
  <2>1. DOMAIN << >> = {}
    OBVIOUS
  <2> QED
    BY <1>1, <2>1 DEF Routed
<1>4. handled = {} /\ owed = {}
  BY DEF Init, BusInit
<1> QED
  BY <1>1, <1>2, <1>3, <1>4
  DEF CalmInv, RetryInv, OwedIsInWork, FollowsOnly, OwedIsFound, OwedAtWork, OwedIsOrdered

\* Every copy a handler call has found due, and whose gates have stayed open,
\* is ordered or being worked on, as long as workers live, statements are
\* answered and publishes return: however many relationships the event is for,
\* and however many workers are given it, late, early or twice.
THEOREM OwedCopiesInWork == Answered /\ Publishing => (Spec => []OwedIsInWork)
<1> SUFFICES ASSUME Answered, Publishing
             PROVE  Spec => []OwedIsInWork
  OBVIOUS
<1>1. CalmInv => OwedIsInWork
  BY DEF CalmInv
<1>2. TypeOK /\ CalmInv /\ [Next]_vars => CalmInv'
  BY CalmInvStep
<1> QED
  BY <1>1, <1>2, CopiedInit, TypeCorrect, PTL DEF Spec

\* An acknowledged event has had every such copy ordered, unless it is
\* dead-lettered or a call is still at work on that copy, while workers live
\* and statements are answered: if publishes of requests return, for any
\* relationships and workers; if they may fail and be retried, their requests
\* lost, stored or still on their way, for events with one relationship that one task reads.
THEOREM AckedAreCopied ==
    Answered /\ (Publishing \/ (OneFollower /\ OneReader)) => (Spec => []AckedIsCopied)
<1>1. ASSUME Answered, Publishing
      PROVE  Spec => []AckedIsCopied
  <2>1. OwedIsInWork => AckedIsCopied
    BY DEF OwedIsInWork, InWork, AckedIsCopied
  <2> QED
    BY <1>1, <2>1, OwedCopiesInWork, PTL
<1>2. ASSUME Answered, OneFollower, OneReader
      PROVE  Spec => []AckedIsCopied
  <2>1. RetryInv /\ AckedIsSettled => AckedIsCopied
    BY DEF RetryInv, OwedIsOrdered, AckedIsSettled, Settled, AckedIsCopied
  <2>2. TypeOK /\ RetryInv /\ [Next]_vars => RetryInv'
    BY <1>2, RetryInvStep
  <2> QED
    BY <2>1, <2>2, CopiedInit, EngineAckedSettled, TypeCorrect, PTL DEF Spec
<1> QED
  BY <1>1, <1>2
=============================================================================

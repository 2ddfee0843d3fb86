----------------------------- MODULE CopyEngine -----------------------------
(***************************************************************************)
(* The copy engine's handler for normalized trade events, on top of the    *)
(* bus: CopyEventProcessor reserves one idempotency key per relationship   *)
(* the event is to be copied for, then handle_normalized_trade_event       *)
(* records, publishes and marks one execution request per reserved key.    *)
(*                                                                         *)
(* Every await of the handler is a step of its own; a database statement   *)
(* runs in its own implicit transaction.  The order in which a call visits *)
(* its relationships (effective_from, created_at, ties open) is left open. *)
(*                                                                         *)
(* Failures, beside those of EventBus, when their name is in Faults:       *)
(*   "db_refused"         a statement raises without having run            *)
(*   "db_unanswered"      a statement runs, but its answer is lost         *)
(*   "publish_lost"       publish_json raises, nothing is stored           *)
(*   "publish_ambiguous"  publish_json raises with the request sent: the   *)
(*                        stream gets it now, later or never               *)
(*   "dedupe_expiry"      the stream's 120 s duplicate window passes       *)
(***************************************************************************)
EXTENDS EventBus

CONSTANTS Rels,       \* copy relationships
          EventKeys,  \* idempotency keys of source events
          EventKey,   \* EventKey[m]: the one event m carries
          Follows,    \* Follows[m]: relationships whose route and follow start match
          Malformed   \* events NormalizedOrderEvent.model_validate rejects

ASSUME EngineAssumption ==
    /\ EventKey \in [Messages -> EventKeys]
    /\ Follows \in [Messages -> SUBSET Rels]
    /\ Malformed \subseteq Messages

Keys == EventKeys \X Rels

\* A request's event_id is a fresh uuid: one per relationship and handler call.
Ids == Messages \X (1..MaxDeliver) \X Tasks \X Rels
NoId == <<"none">>
NoRel == "none"

VARIABLES
    enabled,     \* relationships whose gates are open now
    reserved,    \* copy_execution_idempotency
    rowId,       \* copy_execution_requests: id of the row with this key
    rowStatus,   \* and its request_status
    orders,      \* execution requests in the stream: <<key, event_id>>
    remembered,  \* Nats-Msg-Ids inside the duplicate window
    inFlight,    \* requests sent whose call no longer waits for the stream
    step,        \* where the handler is in each task
    todo,        \* relationships it has still to reserve
    batch,       \* relationships reserved, request not yet recorded
    at,          \* relationship whose request is recorded or published now
    owed         \* history: <<m, r>>: a call for m, before any had returned,
                 \* found r to copy it; r's gates have stayed open since

dbVars  == <<reserved, rowId, rowStatus>>
busOut  == <<orders, remembered, inFlight>>
engineVars == <<enabled, dbVars, busOut, step, todo, batch, at, owed>>
vars == <<busVars, engineVars>>

Steps == {"none", "list", "reserve", "record", "publish", "release", "mark"}

EngineTypeOK ==
    /\ enabled \subseteq Rels
    /\ reserved \subseteq Keys
    /\ rowId \in [Keys -> Ids \cup {NoId}]
    /\ rowStatus \in [Keys -> {"none", "REQUESTED", "PUBLISHED"}]
    /\ orders \subseteq Keys \X Ids
    /\ remembered \subseteq Keys
    /\ inFlight \subseteq Keys \X Ids
    /\ step \in [Tasks -> Steps]
    /\ todo \in [Tasks -> SUBSET Rels]
    /\ batch \in [Tasks -> SUBSET Rels]
    /\ at \in [Tasks -> Rels \cup {NoRel}]
    /\ owed \subseteq Messages \X Rels
    /\ \A t \in Tasks :
         /\ step[t] # "none" <=> phase[t] = "handling"
         /\ step[t] \in {"publish", "release", "mark"} => at[t] \in Rels

TypeOK == BusTypeOK /\ EngineTypeOK

Init ==
    /\ BusInit
    /\ enabled = Rels
    /\ reserved = {}
    /\ rowId = [k \in Keys |-> NoId]
    /\ rowStatus = [k \in Keys |-> "none"]
    /\ orders = {}
    /\ remembered = {}
    /\ inFlight = {}
    /\ step = [t \in Tasks |-> "none"]
    /\ todo = [t \in Tasks |-> {}]
    /\ batch = [t \in Tasks |-> {}]
    /\ at = [t \in Tasks |-> NoRel]
    /\ owed = {}

Key(m, r) == <<EventKey[m], r>>
KeyOf(t, r) == Key(cur[t].msg, r)
IdOf(t, r) == <<cur[t].msg, cur[t].attempt, t, r>>

-----------------------------------------------------------------------------
(* How a call moves on and how it ends.                                    *)

Goto(t, s) == step' = [step EXCEPT ![t] = s]

Forget(T) ==
    /\ step' = [t \in Tasks |-> IF t \in T THEN "none" ELSE step[t]]
    /\ todo' = [t \in Tasks |-> IF t \in T THEN {} ELSE todo[t]]
    /\ batch' = [t \in Tasks |-> IF t \in T THEN {} ELSE batch[t]]
    /\ at' = [t \in Tasks |-> IF t \in T THEN NoRel ELSE at[t]]

\* The call raises; what it had reserved stays reserved.
Raise(t) ==
    /\ HandlerRaises(t)
    /\ Forget({t})
    /\ UNCHANGED <<enabled, owed>>

\* One database statement: its effect and the way on, or an exception.
Statement(t, Effect, WayOn) ==
    \/ Effect /\ WayOn /\ UNCHANGED busVars
    \/ "db_refused" \in Faults /\ UNCHANGED dbVars /\ Raise(t)
    \/ "db_unanswered" \in Faults /\ Effect /\ Raise(t)

Begin(t) ==
    /\ Take(t)
    /\ Goto(t, "list")
    /\ UNCHANGED <<enabled, dbVars, busOut, todo, batch, at, owed>>

\* list_active_for_event and the gates: a snapshot that later steps go by.
List(t) ==
    /\ step[t] = "list"
    /\ cur[t].msg \notin Malformed
    /\ LET found == Follows[cur[t].msg] \cap enabled IN
         Statement(t, UNCHANGED dbVars,
             /\ Goto(t, "reserve")
             /\ todo' = [todo EXCEPT ![t] = found]
             /\ owed' = owed \cup (({cur[t].msg} \ handled) \X found)
             /\ UNCHANGED <<enabled, batch, at>>)
    /\ UNCHANGED busOut

\* model_validate raises before anything is read.
Reject(t) ==
    /\ step[t] = "list"
    /\ cur[t].msg \in Malformed
    /\ Raise(t)
    /\ UNCHANGED <<dbVars, busOut>>

ReserveIgnoringConflict(t, r) ==
    /\ step[t] = "reserve"
    /\ r \in todo[t]
    /\ reserved' = reserved \cup {KeyOf(t, r)}
    /\ todo' = [todo EXCEPT ![t] = @ \ {r}]
    /\ batch' = [batch EXCEPT ![t] = @ \cup {r}]
    /\ UNCHANGED <<busVars, enabled, rowId, rowStatus, busOut, step, at, owed>>

\* IdempotencyStore.reserve: INSERT ... ON CONFLICT DO NOTHING; a key that is
\* there already makes the relationship a skipped duplicate.
Reserve(t, r) ==
    /\ step[t] = "reserve"
    /\ r \in todo[t]
    /\ Statement(t,
         /\ reserved' = reserved \cup {KeyOf(t, r)}
         /\ UNCHANGED <<rowId, rowStatus>>,
         /\ todo' = [todo EXCEPT ![t] = @ \ {r}]
         /\ batch' = [batch EXCEPT ![t] =
                        IF KeyOf(t, r) \in reserved THEN @ ELSE @ \cup {r}]
         /\ UNCHANGED <<enabled, step, at, owed>>)
    /\ UNCHANGED busOut

\* process_normalized_order_event returns the reserved requests.
Reserved(t) ==
    /\ step[t] = "reserve"
    /\ todo[t] = {}
    /\ Goto(t, "record")
    /\ UNCHANGED <<busVars, enabled, dbVars, busOut, todo, batch, at, owed>>

InsertRowNever(k, id) == UNCHANGED dbVars

\* request_recorder.record: INSERT ... ON CONFLICT (idempotency_key) DO NOTHING.
InsertRow(k, id) ==
    /\ rowId' = IF rowId[k] = NoId THEN [rowId EXCEPT ![k] = id] ELSE rowId
    /\ rowStatus' = IF rowId[k] = NoId
                    THEN [rowStatus EXCEPT ![k] = "REQUESTED"] ELSE rowStatus
    /\ UNCHANGED reserved

Record(t, r) ==
    /\ step[t] = "record"
    /\ r \in batch[t]
    /\ Statement(t, InsertRow(KeyOf(t, r), IdOf(t, r)),
         /\ Goto(t, "publish")
         /\ batch' = [batch EXCEPT ![t] = @ \ {r}]
         /\ at' = [at EXCEPT ![t] = r]
         /\ UNCHANGED <<enabled, todo, owed>>)
    /\ UNCHANGED busOut

\* What task t publishes, the key being its Nats-Msg-Id.
RequestOf(t) == <<KeyOf(t, at[t]), IdOf(t, at[t])>>

StoreWithoutMsgId(req) ==
    /\ orders' = orders \cup {req}
    /\ UNCHANGED remembered

\* The stream drops a message whose Nats-Msg-Id it remembers.
StoreRequest(req) ==
    IF req[1] \in remembered
    THEN UNCHANGED <<orders, remembered>>
    ELSE /\ orders' = orders \cup {req}
         /\ remembered' = remembered \cup {req[1]}

PublishRequestUnmarked(t) ==
    /\ step[t] = "publish"
    /\ StoreRequest(RequestOf(t))
    /\ Goto(t, "record")
    /\ UNCHANGED <<busVars, enabled, dbVars, inFlight, todo, batch, at, owed>>

PublishRequest(t) ==
    /\ step[t] = "publish"
    /\ StoreRequest(RequestOf(t))
    /\ Goto(t, "mark")
    /\ UNCHANGED <<busVars, enabled, dbVars, inFlight, todo, batch, at, owed>>

\* publish_json raises, with the request lost or still on its way.
PublishRequestFails(t) ==
    /\ step[t] = "publish"
    /\ \/ "publish_lost" \in Faults /\ UNCHANGED busOut
       \/ /\ "publish_ambiguous" \in Faults
          /\ inFlight' = inFlight \cup {RequestOf(t)}
          /\ UNCHANGED <<orders, remembered>>
    /\ Goto(t, "release")
    /\ UNCHANGED <<busVars, enabled, dbVars, todo, batch, at, owed>>

NoRelease(t) ==
    /\ step[t] = "release"
    /\ Raise(t)
    /\ UNCHANGED <<dbVars, busOut>>

\* The except branch: release_idempotency_key, then raise.
Release(t) ==
    /\ step[t] = "release"
    /\ \/ reserved' = reserved \ {KeyOf(t, at[t])}
       \/ "db_refused" \in Faults /\ UNCHANGED reserved
    /\ Raise(t)
    /\ UNCHANGED <<rowId, rowStatus, busOut>>

MarkRowByKey(k, id) ==
    /\ rowStatus' = IF rowId[k] # NoId
                    THEN [rowStatus EXCEPT ![k] = "PUBLISHED"] ELSE rowStatus
    /\ UNCHANGED <<reserved, rowId>>

\* mark_published: UPDATE ... WHERE id = $1 AND request_status = 'REQUESTED'.
MarkRow(k, id) ==
    /\ rowStatus' = IF rowId[k] = id /\ rowStatus[k] = "REQUESTED"
                    THEN [rowStatus EXCEPT ![k] = "PUBLISHED"] ELSE rowStatus
    /\ UNCHANGED <<reserved, rowId>>

MarkInsideTry(t) ==
    /\ step[t] = "mark"
    /\ reserved' = reserved \ {KeyOf(t, at[t])}
    /\ Raise(t)
    /\ UNCHANGED <<rowId, rowStatus, busOut>>

Mark(t) ==
    /\ step[t] = "mark"
    /\ Statement(t, MarkRow(KeyOf(t, at[t]), IdOf(t, at[t])),
         /\ Goto(t, "record")
         /\ at' = [at EXCEPT ![t] = NoRel]
         /\ UNCHANGED <<enabled, todo, batch, owed>>)
    /\ UNCHANGED busOut

FinishWithoutLeaving(t) ==
    /\ step[t] = "record"
    /\ batch[t] = {}
    /\ HandlerReturns(t)
    /\ UNCHANGED engineVars

FinishEarly(t) ==
    /\ step[t] = "record"
    /\ HandlerReturns(t)
    /\ Forget({t})
    /\ UNCHANGED <<enabled, dbVars, busOut, owed>>

Finish(t) ==
    /\ step[t] = "record"
    /\ batch[t] = {}
    /\ HandlerReturns(t)
    /\ Forget({t})
    /\ UNCHANGED <<enabled, dbVars, busOut, owed>>

-----------------------------------------------------------------------------
(* The surroundings.                                                       *)

\* An administrator opens or closes a gate of a relationship (its active
\* flag, the accounts, the subscription, the risk settings).
Toggle(r) ==
    /\ enabled' = IF r \in enabled THEN enabled \ {r} ELSE enabled \cup {r}
    /\ owed' = {o \in owed : o[2] \in enabled'}
    /\ UNCHANGED <<busVars, dbVars, busOut, step, todo, batch, at>>

WindowPasses(k) ==
    /\ "dedupe_expiry" \in Faults
    /\ k \in remembered
    /\ remembered' = remembered \ {k}
    /\ UNCHANGED <<busVars, enabled, dbVars, orders, inFlight, step, todo, batch, at, owed>>

\* A request reaches the stream after publish_json has raised, or after the
\* process that sent it is gone; others may have gone on in the meantime.
RequestArrives(req) ==
    /\ req \in inFlight
    /\ StoreRequest(req)
    /\ inFlight' = inFlight \ {req}
    /\ UNCHANGED <<busVars, enabled, dbVars, step, todo, batch, at, owed>>

\* A call that dies while it publishes may have sent its request.
EngineCrash(p) ==
    LET dying == {t \in Tasks : Host[t] = p} IN
    /\ Crash(p)
    /\ inFlight' = inFlight \cup
                     {RequestOf(t) : t \in {u \in dying : step[u] = "publish"}}
    /\ Forget(dying)
    /\ UNCHANGED <<enabled, dbVars, orders, remembered, owed>>

-----------------------------------------------------------------------------

HandlerStep(t) ==
    \/ List(t) \/ Reject(t) \/ Reserved(t) \/ PublishRequest(t)
    \/ PublishRequestFails(t) \/ Release(t) \/ Mark(t) \/ Finish(t)
    \/ \E r \in Rels : Reserve(t, r) \/ Record(t, r)

TaskStep(t) ==
    \/ Begin(t)
    \/ HandlerStep(t)
    \/ CallbackStep(t) /\ UNCHANGED engineVars

Next ==
    \/ ServerNext /\ UNCHANGED engineVars
    \/ \E t \in Tasks : TaskStep(t)
    \/ \E r \in Rels : Toggle(r)
    \/ \E k \in Keys : WindowPasses(k)
    \/ \E req \in inFlight : RequestArrives(req)
    \/ \E p \in Processes : EngineCrash(p)

Spec == Init /\ [][Next]_vars

\* The server's timers, and an event loop that goes on with every callback.
Fairness ==
    /\ \A m \in Messages :
         /\ WF_vars(Deliver(m) /\ UNCHANGED engineVars)
         /\ WF_vars(AckWaitExpires(m) /\ UNCHANGED engineVars)
    /\ \A t \in Tasks : WF_vars(TaskStep(t))

FairSpec == Spec /\ Fairness

-----------------------------------------------------------------------------
(* Properties.                                                             *)

Ordered(k) == \E id \in Ids : <<k, id>> \in orders

\* Task t is the one call that may place the copy with key k, now or after
\* its current database statement.
Holds(t, k) ==
    \/ \E r \in batch[t] : k = KeyOf(t, r)
    \/ step[t] \in {"publish", "release"} /\ k = KeyOf(t, at[t])

\* Reserving a key admits one handler call at a time to the record, publish
\* and release steps for that key, whoever else was given the same event.
OneHolder ==
    \A t, u \in Tasks, k \in Keys :
        Holds(t, k) /\ Holds(u, k) => t = u /\ k \in reserved

\* No copy is ordered twice: two execution requests with one idempotency key
\* are never both in the stream (processor.py and handler.py's key).
NoDuplicateOrder ==
    \A k \in Keys, i, j \in Ids :
        <<k, i>> \in orders /\ <<k, j>> \in orders => i = j

\* A request row marked PUBLISHED names a request that is in the stream, even
\* when the row and the publish stem from different handler calls.
PublishedRowIsReal ==
    \A k \in Keys :
        rowStatus[k] = "PUBLISHED" => <<k, rowId[k]>> \in orders

\* A row with the request's key is durable before the request becomes visible
\* to the executor.  (That it has the id results go by is OrderedRowsMarked's
\* question.)
RecordedBeforeOrdered ==
    \A k \in Keys : Ordered(k) => rowId[k] # NoId

\* After every successful publish the row is marked PUBLISHED.
OrderedRowsMarked ==
    \A k \in Keys : Ordered(k) =>
        \/ rowStatus[k] = "PUBLISHED"
        \/ \E t \in Tasks : step[t] = "mark" /\ KeyOf(t, at[t]) = k

\* An event the consumer acknowledged has had every copy ordered that a
\* handler call found due and whose gates stayed open, unless it is
\* dead-lettered or a call is still at work on that copy.
AckedIsCopied ==
    \A m \in Messages, r \in Rels :
        status[m] = "acked" /\ <<m, r>> \in owed =>
            \/ m \in deadLettered
            \/ Ordered(Key(m, r))
            \/ \E t \in Tasks :
                 Holds(t, Key(m, r)) \/ (cur[t].msg = m /\ r \in todo[t])

\* A copy found due is ordered or its event dead-lettered in the end, as long
\* as nobody closes a gate of its relationship.
EventuallyCopied ==
    \A m \in Messages, r \in Rels :
        <<m, r>> \in owed ~>
            Ordered(Key(m, r)) \/ m \in deadLettered \/ <<m, r>> \notin owed

\* What has become of each copy, as CopyLedger tells it.
CopyState ==
    [k \in Keys |->
       IF Ordered(k) THEN "placed"
       ELSE IF k \notin reserved THEN "free"
       ELSE IF \E t \in Tasks : Holds(t, k) THEN "claimed" ELSE "lost"]

Ledger == INSTANCE CopyLedger
            WITH copy <- CopyState, placed <- orders, underway <- inFlight

\* Claims are exclusive and placed copies stay placed, also when a request
\* arrives after its call has given the claim back and another has taken it.
KeepsLedger == Ledger!LedgerSpec
=============================================================================

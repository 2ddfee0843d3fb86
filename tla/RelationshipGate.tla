-------------------------- MODULE RelationshipGate --------------------------
(***************************************************************************)
(* Which copies a source event leads to.  The tables that the admin API    *)
(* writes (relationships, exchange accounts, users, subscriptions, risk    *)
(* settings) are partial functions: a key outside the DOMAIN has no row.   *)
(* The copy engine reads them once per event, by one outer join, and       *)
(* judges the joined rows one after the other while the tables change.     *)
(* A redelivered event is judged again; reserved keys make its known       *)
(* copies duplicates.  Failing statements are CopyEngine's subject.  The    *)
(* engine starts on any content of the tables.                             *)
(***************************************************************************)
EXTENDS Naturals

CONSTANTS Rels, Accounts, Users, Events,
          Source, Follower,     \* the accounts of each relationship
          Symbol,               \* source_symbol of each relationship, or Null
          Target,               \* target exchange and symbol of each relationship
          EffectiveFrom,        \* follow start of each relationship
          Owner,                \* user of each account
          EventSource, EventSymbol, OccurredAt, Quantity,
          Leverage,             \* leverage of each event, or Null
          MaxWrites,            \* how often the tables are written while the engine runs
          Bounds,               \* slippages, in the tables
          Limits,               \* quantity and leverage limits, Null for none
          AccountStatuses, SubscriptionStatuses,  \* the statuses used
          DefaultSlippage,      \* CopyExecutionRequest's default, 100
          Null                  \* SQL's NULL

ASSUME GateAssumption ==
    /\ Source \in [Rels -> Accounts] /\ Follower \in [Rels -> Accounts]
    /\ EffectiveFrom \in [Rels -> Nat]
    /\ Owner \in [Accounts -> Users]
    /\ EventSource \in [Events -> Accounts] /\ OccurredAt \in [Events -> Nat]
    /\ Quantity \in [Events -> Nat] /\ Leverage \in [Events -> Nat \cup {Null}]
    /\ MaxWrites \in Nat
    /\ Bounds \subseteq Nat /\ Limits \subseteq Nat \cup {Null}
    /\ Null \notin Nat \cup Events \cup {"active", "trialing"}

Relationship == [active : BOOLEAN, maxSlippage : Bounds]
Subscription == [status : SubscriptionStatuses, enabled : BOOLEAN]
Risk == [enabled : BOOLEAN, maxQuantity : Limits, maxSlippage : Bounds, maxLeverage : Limits]

VARIABLES
    relationship, account, userStatus, subscription, risk,   \* the tables
    writes,      \* how often they have been written, at most MaxWrites
    handling,    \* the event in the handler's hands, or Null
    rows,        \* the joined rows it has not judged yet, by relationship
    reserved,    \* idempotency keys: <<relationship, event>>
    issued,      \* the requests: [rel, event, slippage]
    permitted    \* history: the copies due when a call read the tables

tables == <<relationship, account, userStatus, subscription, risk, writes>>
vars == <<tables, handling, rows, reserved, issued, permitted>>

Partial(K, V) == UNION {[D -> V] : D \in SUBSET K}

Upsert(table, k, row) == [x \in DOMAIN table \cup {k} |-> IF x = k THEN row ELSE table[x]]

-----------------------------------------------------------------------------
(* The read: one row per matching relationship, NULL where a join has none. *)

Matches(r, e) ==
    /\ r \in DOMAIN relationship
    /\ relationship[r].active
    /\ Source[r] = EventSource[e]
    /\ Symbol[r] = Null \/ Symbol[r] = EventSymbol[e]
    /\ EffectiveFrom[r] <= OccurredAt[e]

StatusOf(a) == IF a \in DOMAIN account THEN account[a] ELSE Null

\* _row_to_relationship: bool(NULL) is False, a NULL limit stays None.
JoinedRow(r) ==
    LET joined == Follower[r] \in DOMAIN account
        owner == Owner[Follower[r]]
        subscribed == joined /\ owner \in DOMAIN subscription
        limited == r \in DOMAIN risk
    IN [active |-> relationship[r].active,
        effectiveFrom |-> EffectiveFrom[r],
        maxSlippage |-> relationship[r].maxSlippage,
        source |-> StatusOf(Source[r]),
        follower |-> StatusOf(Follower[r]),
        user |-> IF joined THEN userStatus[owner] ELSE Null,
        subscription |-> IF subscribed THEN subscription[owner].status ELSE Null,
        copyTrading |-> subscribed /\ subscription[owner].enabled,
        riskEnabled |-> limited /\ risk[r].enabled,
        riskQuantity |-> IF limited THEN risk[r].maxQuantity ELSE Null,
        riskSlippage |-> IF limited THEN risk[r].maxSlippage ELSE Null,
        riskLeverage |-> IF limited THEN risk[r].maxLeverage ELSE Null]

-----------------------------------------------------------------------------
(* The gates, on one joined row.                                           *)

ActiveAccounts(row) ==
    row.source = "active" /\ row.follower = "active" /\ row.user = "active"

ActiveSubscription(row) ==
    row.subscription \in {"active", "trialing"} /\ row.copyTrading

PassesRiskBelowLimit(row, e) ==
    /\ row.riskEnabled
    /\ row.riskSlippage # Null
    /\ row.maxSlippage <= row.riskSlippage
    /\ row.riskQuantity # Null => Quantity[e] < row.riskQuantity
    /\ row.riskLeverage # Null /\ Leverage[e] # Null => Leverage[e] <= row.riskLeverage

PassesRiskWithoutRow(row, e) ==
    /\ row.riskSlippage # Null => row.riskEnabled /\ row.maxSlippage <= row.riskSlippage
    /\ row.riskQuantity # Null => Quantity[e] <= row.riskQuantity
    /\ row.riskLeverage # Null /\ Leverage[e] # Null => Leverage[e] <= row.riskLeverage

PassesRisk(row, e) ==
    /\ row.riskEnabled
    /\ row.riskSlippage # Null
    /\ row.maxSlippage <= row.riskSlippage
    /\ row.riskQuantity # Null => Quantity[e] <= row.riskQuantity
    /\ row.riskLeverage # Null /\ Leverage[e] # Null => Leverage[e] <= row.riskLeverage

AfterFollowStart(row, e) == OccurredAt[e] >= row.effectiveFrom

Passes(row, e) ==
    /\ row.active
    /\ ActiveAccounts(row)
    /\ ActiveSubscription(row)
    /\ PassesRisk(row, e)
    /\ AfterFollowStart(row, e)

-----------------------------------------------------------------------------
(* What the gates are for, said of the tables: the copy of e for r is due. *)

Due(r, e) ==
    LET owner == Owner[Follower[r]] IN
    /\ Matches(r, e)
    /\ \A a \in {Source[r], Follower[r]} : a \in DOMAIN account /\ account[a] = "active"
    /\ userStatus[owner] = "active"
    /\ owner \in DOMAIN subscription
    /\ subscription[owner].enabled
    /\ subscription[owner].status \in {"active", "trialing"}
    /\ r \in DOMAIN risk
    /\ risk[r].enabled
    /\ relationship[r].maxSlippage <= risk[r].maxSlippage
    /\ risk[r].maxQuantity = Null \/ Quantity[e] <= risk[r].maxQuantity
    /\ Null \in {Leverage[e], risk[r].maxLeverage} \/ Leverage[e] <= risk[r].maxLeverage

-----------------------------------------------------------------------------
(* The copy engine.                                                        *)

\* list_active_for_event: one statement, one snapshot.
Fetch(e) ==
    LET found == {r \in Rels : Matches(r, e)} IN
    /\ handling = Null
    /\ handling' = e
    /\ rows' = [r \in found |-> JoinedRow(r)]
    /\ permitted' = permitted \cup ({r \in Rels : Due(r, e)} \X {e})
    /\ UNCHANGED <<tables, reserved, issued>>

DropRow(r) == rows' = [x \in DOMAIN rows \ {r} |-> rows[x]]

\* A gate is closed, or the key is reserved already: skipped.
Skip(r) ==
    /\ r \in DOMAIN rows
    /\ ~Passes(rows[r], handling) \/ <<r, handling>> \in reserved
    /\ DropRow(r)
    /\ UNCHANGED <<tables, handling, reserved, issued, permitted>>

\* build_dry_run_execution_request, then reserve.
Issue(r) ==
    /\ r \in DOMAIN rows
    /\ Passes(rows[r], handling)
    /\ <<r, handling>> \notin reserved
    /\ reserved' = reserved \cup {<<r, handling>>}
    /\ issued' = issued \cup
         {[rel |-> r, event |-> handling, slippage |-> DefaultSlippage]}
    /\ DropRow(r)
    /\ UNCHANGED <<tables, handling, permitted>>

FinishEarly ==
    /\ handling # Null
    /\ handling' = Null
    /\ UNCHANGED <<tables, rows, reserved, issued, permitted>>

Finish ==
    /\ handling # Null
    /\ DOMAIN rows = {}
    /\ handling' = Null
    /\ UNCHANGED <<tables, rows, reserved, issued, permitted>>

-----------------------------------------------------------------------------
(* The admin API, one committed transaction per action.                    *)

engine == <<handling, rows, reserved, issued, permitted>>

Route(r) == <<Source[r], Symbol[r], Follower[r], Target[r]>>

\* uq_copy_relationships_active_route.
RouteIsFree(r) ==
    \A x \in DOMAIN relationship \ {r} : relationship[x].active => Route(x) # Route(r)

\* A bound of the model, not of the API.
Write ==
    /\ writes < MaxWrites
    /\ writes' = writes + 1

CreateRelationship(r, row) ==
    /\ Write
    /\ r \notin DOMAIN relationship
    /\ row.active => RouteIsFree(r)
    /\ relationship' = Upsert(relationship, r, row)
    /\ UNCHANGED <<account, userStatus, subscription, risk, engine>>

UpdateRelationship(r, row) ==
    /\ Write
    /\ r \in DOMAIN relationship
    /\ row.active => RouteIsFree(r)
    /\ relationship' = Upsert(relationship, r, row)
    /\ UNCHANGED <<account, userStatus, subscription, risk, engine>>

\* create_exchange_account, then update_exchange_account.
SetAccount(a, s) ==
    /\ Write
    /\ account' = Upsert(account, a, s)
    /\ UNCHANGED <<relationship, userStatus, subscription, risk, engine>>

\* No endpoint does it: an operator, in the database.
SetUser(u, s) ==
    /\ Write
    /\ userStatus' = [userStatus EXCEPT ![u] = s]
    /\ UNCHANGED <<relationship, account, subscription, risk, engine>>

UpsertSubscription(u, row) ==
    /\ Write
    /\ subscription' = Upsert(subscription, u, row)
    /\ UNCHANGED <<relationship, account, userStatus, risk, engine>>

\* The foreign key asks for the relationship.
UpsertRiskSettings(r, row) ==
    /\ Write
    /\ r \in DOMAIN relationship
    /\ risk' = Upsert(risk, r, row)
    /\ UNCHANGED <<relationship, account, userStatus, subscription, engine>>

AdminNext ==
    \/ \E r \in Rels, row \in Relationship :
         CreateRelationship(r, row) \/ UpdateRelationship(r, row)
    \/ \E a \in Accounts, s \in AccountStatuses : SetAccount(a, s)
    \/ \E u \in Users, s \in {"active", "disabled"} : SetUser(u, s)
    \/ \E u \in Users, row \in Subscription : UpsertSubscription(u, row)
    \/ \E r \in Rels, row \in Risk : UpsertRiskSettings(r, row)

EngineNext ==
    \/ \E e \in Events : Fetch(e)
    \/ \E r \in Rels : Skip(r) \/ Issue(r)
    \/ Finish

Init ==
    /\ relationship \in Partial(Rels, Relationship)
    /\ \A r \in DOMAIN relationship : relationship[r].active => RouteIsFree(r)
    /\ account \in Partial(Accounts, AccountStatuses)
    /\ userStatus \in [Users -> {"active", "disabled"}]
    /\ subscription \in Partial(Users, Subscription)
    /\ risk \in Partial(DOMAIN relationship, Risk)
    /\ writes = 0
    /\ handling = Null
    /\ rows = [r \in {} |-> Null]
    /\ reserved = {}
    /\ issued = {}
    /\ permitted = {}

Next == AdminNext \/ EngineNext

Spec == Init /\ [][Next]_vars

-----------------------------------------------------------------------------
(* Properties.                                                             *)

TypeOK ==
    /\ relationship \in Partial(Rels, Relationship)
    /\ account \in Partial(Accounts, AccountStatuses)
    /\ userStatus \in [Users -> {"active", "disabled"}]
    /\ subscription \in Partial(Users, Subscription)
    /\ risk \in Partial(DOMAIN relationship, Risk)
    /\ writes \in 0..MaxWrites
    /\ handling \in Events \cup {Null}
    /\ DOMAIN rows \subseteq Rels
    /\ DOMAIN rows # {} => handling \in Events
    /\ reserved \subseteq Rels \X Events
    /\ permitted \subseteq Rels \X Events

\* A request exists only for a copy that was due when a handler call read the
\* tables: a missing account, subscription or risk row closes the gate, and
\* so does every limit, though the gates see NULLs of an outer join.
IssuedWasDue ==
    \A q \in issued : <<q.rel, q.event>> \in permitted

\* And no due copy is left out: the gates refuse nothing the tables allow.
DueIsIssued ==
    \A p \in permitted :
        \/ p \in reserved
        \/ handling = p[2] /\ p[1] \in DOMAIN rows

\* The request carries no more slippage than the relationship it was issued
\* for allows.
SlippageAsConfigured ==
    [][\A q \in issued' \ issued : q.slippage <= rows[q.rel].maxSlippage]_vars
=============================================================================

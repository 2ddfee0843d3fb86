----------------------- MODULE RelationshipGateProofs -----------------------
(***************************************************************************)
(* Proofs about RelationshipGate, for any tables, relationships and        *)
(* events.  The argument: on the rows of a matching relationship the gates *)
(* agree with Due (GateAgrees), so at the moment of the read exactly the   *)
(* due copies have a passing row; GateInv keeps that for the rows still to *)
(* be judged, whatever happens to the tables.                              *)
(***************************************************************************)
EXTENDS RelationshipGate, TLAPS

\* A partial function has its keys in K and its rows in V.
LEMMA PartialIs ==
    ASSUME NEW K, NEW V, NEW f
    PROVE  f \in Partial(K, V) <=> DOMAIN f \subseteq K /\ f \in [DOMAIN f -> V]
  BY DEF Partial

\* Upsert keeps the keys in K and the rows in V.
LEMMA UpsertPartial ==
    ASSUME NEW K, NEW V, NEW f \in Partial(K, V), NEW k \in K, NEW v \in V
    PROVE  /\ Upsert(f, k, v) \in Partial(K, V)
           /\ DOMAIN Upsert(f, k, v) = DOMAIN f \cup {k}
<1>1. DOMAIN f \subseteq K /\ f \in [DOMAIN f -> V]
  BY PartialIs
<1>2. Upsert(f, k, v) \in [DOMAIN f \cup {k} -> V]
  BY <1>1 DEF Upsert
<1>3. QED
  BY <1>1, <1>2, PartialIs

\* The writes stay within their bound.
LEMMA WriteBounded ==
    ASSUME writes \in 0..MaxWrites, Write
    PROVE  writes' \in 0..MaxWrites
  BY GateAssumption DEF Write, GateAssumption

-----------------------------------------------------------------------------
(* Types.                                                                  *)

\* The tables and the handler keep their types (the SQL columns' CHECKs and
\* foreign keys, and a handler that has rows only while it has an event).
THEOREM GateTypeCorrect == Spec => []TypeOK
<1>1. Init => TypeOK
  <2> USE GateAssumption DEF GateAssumption
  <2>1. 0 \in 0..MaxWrites
    OBVIOUS
  <2>2. QED
    BY <2>1 DEF Init, TypeOK
<1>2. TypeOK /\ [Next]_vars => TypeOK'
  <2> SUFFICES ASSUME TypeOK, [Next]_vars
               PROVE  TypeOK'
    OBVIOUS
  <2>1. CASE UNCHANGED vars
    BY <2>1 DEF TypeOK, vars, tables
  <2>2. ASSUME NEW r \in Rels, NEW row \in Relationship,
               CreateRelationship(r, row) \/ UpdateRelationship(r, row)
        PROVE  TypeOK'
    <3>1. relationship' \in Partial(Rels, Relationship)
          /\ DOMAIN relationship' = DOMAIN relationship \cup {r}
      BY <2>2, UpsertPartial DEF TypeOK, CreateRelationship, UpdateRelationship
    <3>2. risk \in Partial(DOMAIN relationship', Risk)
      BY <3>1, PartialIs DEF TypeOK
    <3>3. writes' \in 0..MaxWrites
      BY <2>2, WriteBounded DEF TypeOK, CreateRelationship, UpdateRelationship
    <3>4. QED
      BY <2>2, <3>1, <3>2, <3>3 DEF TypeOK, CreateRelationship, UpdateRelationship, engine
  <2>3. ASSUME NEW a \in Accounts, NEW s \in AccountStatuses, SetAccount(a, s)
        PROVE  TypeOK'
    <3>1. account' \in Partial(Accounts, AccountStatuses)
      BY <2>3, UpsertPartial DEF TypeOK, SetAccount
    <3>2. writes' \in 0..MaxWrites
      BY <2>3, WriteBounded DEF TypeOK, SetAccount
    <3>3. QED
      BY <2>3, <3>1, <3>2 DEF TypeOK, SetAccount, engine
  <2>4. ASSUME NEW u \in Users, NEW s \in {"active", "disabled"}, SetUser(u, s)
        PROVE  TypeOK'
    <3>1. writes' \in 0..MaxWrites
      BY <2>4, WriteBounded DEF TypeOK, SetUser
    <3>2. QED
      BY <2>4, <3>1 DEF TypeOK, SetUser, engine
  <2>5. ASSUME NEW u \in Users, NEW row \in Subscription, UpsertSubscription(u, row)
        PROVE  TypeOK'
    <3>1. subscription' \in Partial(Users, Subscription)
      BY <2>5, UpsertPartial DEF TypeOK, UpsertSubscription
    <3>2. writes' \in 0..MaxWrites
      BY <2>5, WriteBounded DEF TypeOK, UpsertSubscription
    <3>3. QED
      BY <2>5, <3>1, <3>2 DEF TypeOK, UpsertSubscription, engine
  <2>6. ASSUME NEW r \in Rels, NEW row \in Risk, UpsertRiskSettings(r, row)
        PROVE  TypeOK'
    <3>1. risk' \in Partial(DOMAIN relationship, Risk)
      BY <2>6, UpsertPartial DEF TypeOK, UpsertRiskSettings
    <3>2. writes' \in 0..MaxWrites
      BY <2>6, WriteBounded DEF TypeOK, UpsertRiskSettings
    <3>3. QED
      BY <2>6, <3>1, <3>2 DEF TypeOK, UpsertRiskSettings, engine
  <2>7. ASSUME NEW e \in Events, Fetch(e)
        PROVE  TypeOK'
    BY <2>7 DEF TypeOK, Fetch, tables
  <2>8. ASSUME NEW r \in Rels, Skip(r) \/ Issue(r)
        PROVE  TypeOK'
    BY <2>8 DEF TypeOK, Skip, Issue, DropRow, tables
  <2>9. CASE Finish
    BY <2>9 DEF TypeOK, Finish, tables
  <2>10. QED
    BY <2>1, <2>2, <2>3, <2>4, <2>5, <2>6, <2>7, <2>8, <2>9
    DEF Next, AdminNext, EngineNext
<1>3. QED
  BY <1>1, <1>2, PTL DEF Spec

-----------------------------------------------------------------------------
(* The gates.                                                              *)

\* On the joined row of a matching relationship the gates say what Due says
\* of the tables: no NULL of the outer join opens or closes a gate wrongly.
LEMMA GateAgrees ==
    ASSUME TypeOK, NEW r \in Rels, NEW e \in Events, Matches(r, e)
    PROVE  Passes(JoinedRow(r), e) <=> Due(r, e)
<1> DEFINE row == JoinedRow(r)
           owner == Owner[Follower[r]]
<1> USE GateAssumption DEF GateAssumption
<1>1. /\ r \in DOMAIN relationship /\ relationship[r] \in Relationship
      /\ r \in DOMAIN risk => risk[r] \in Risk
      /\ relationship[r].active
      /\ EffectiveFrom[r] <= OccurredAt[e]
  BY PartialIs DEF TypeOK, Matches
<1>2. row.active /\ AfterFollowStart(row, e)
  BY <1>1 DEF JoinedRow, AfterFollowStart
<1>3. ActiveAccounts(row) <=>
        /\ Source[r] \in DOMAIN account /\ account[Source[r]] = "active"
        /\ Follower[r] \in DOMAIN account /\ account[Follower[r]] = "active"
        /\ userStatus[owner] = "active"
  BY DEF ActiveAccounts, JoinedRow, StatusOf
<1>4. ASSUME Follower[r] \in DOMAIN account
      PROVE  ActiveSubscription(row) <=>
               /\ owner \in DOMAIN subscription
               /\ subscription[owner].enabled
               /\ subscription[owner].status \in {"active", "trialing"}
  BY <1>4 DEF ActiveSubscription, JoinedRow
<1>5. PassesRisk(row, e) <=>
        /\ r \in DOMAIN risk
        /\ risk[r].enabled
        /\ relationship[r].maxSlippage <= risk[r].maxSlippage
        /\ risk[r].maxQuantity = Null \/ Quantity[e] <= risk[r].maxQuantity
        /\ Null \in {Leverage[e], risk[r].maxLeverage} \/ Leverage[e] <= risk[r].maxLeverage
  <2>1. CASE r \in DOMAIN risk
    <3>1. risk[r].maxSlippage # Null
      BY <1>1, <2>1 DEF Risk
    <3>2. QED
      BY <2>1, <3>1 DEF PassesRisk, JoinedRow
  <2>2. CASE r \notin DOMAIN risk
    BY <2>2 DEF PassesRisk, JoinedRow
  <2>3. QED
    BY <2>1, <2>2
<1>6. QED
  BY <1>2, <1>3, <1>4, <1>5 DEF Passes, Due

\* The rows to be judged that pass are due copies; a due copy is reserved or
\* has such a row.
GateInv ==
    /\ \A r \in DOMAIN rows :
         Passes(rows[r], handling) => <<r, handling>> \in permitted
    /\ \A r \in Rels, e \in Events :
         <<r, e>> \in permitted =>
           \/ <<r, e>> \in reserved
           \/ handling = e /\ r \in DOMAIN rows /\ Passes(rows[r], e)
    /\ IssuedWasDue

\* GateInv holds of every reachable state.
LEMMA GateInvariant == Spec => []GateInv
<1>1. Init => GateInv
  BY DEF Init, GateInv, IssuedWasDue
<1>2. TypeOK /\ GateInv /\ [Next]_vars => GateInv'
  <2> SUFFICES ASSUME TypeOK, GateInv, [Next]_vars
               PROVE  GateInv'
    OBVIOUS
  <2>1. ASSUME UNCHANGED engine
        PROVE  GateInv'
    BY <2>1 DEF GateInv, IssuedWasDue, engine
  <2>2. CASE UNCHANGED vars \/ AdminNext
    BY <2>1, <2>2 DEF vars, engine, AdminNext, CreateRelationship, UpdateRelationship,
       SetAccount, SetUser, UpsertSubscription, UpsertRiskSettings
  <2>3. ASSUME NEW e \in Events, Fetch(e)
        PROVE  GateInv'
    <3>1. /\ DOMAIN rows = {}
          /\ handling' = e
          /\ DOMAIN rows' = {r \in Rels : Matches(r, e)}
          /\ \A r \in DOMAIN rows' : rows'[r] = JoinedRow(r)
          /\ permitted' = permitted \cup ({r \in Rels : Due(r, e)} \X {e})
          /\ reserved' = reserved /\ issued' = issued
      BY <2>3, GateAssumption DEF Fetch, TypeOK, GateAssumption
    <3>2. \A r \in DOMAIN rows' : Passes(rows'[r], e) <=> Due(r, e)
      BY <3>1, GateAgrees
    <3>3. \A r \in Rels : Due(r, e) => r \in DOMAIN rows'
      BY <3>1 DEF Due
    <3>4. \A r \in DOMAIN rows' : Passes(rows'[r], e) => <<r, e>> \in permitted'
      BY <3>1, <3>2
    <3>5. ASSUME NEW r \in Rels, NEW f \in Events, <<r, f>> \in permitted'
          PROVE  \/ <<r, f>> \in reserved
                 \/ f = e /\ r \in DOMAIN rows' /\ Passes(rows'[r], f)
      BY <3>1, <3>2, <3>3, <3>5 DEF GateInv
    <3>6. QED
      BY <3>1, <3>4, <3>5 DEF GateInv, IssuedWasDue
  <2>4. ASSUME NEW r \in Rels, Skip(r) \/ Issue(r)
        PROVE  GateInv'
    <3>1. /\ r \in DOMAIN rows
          /\ DOMAIN rows' = DOMAIN rows \ {r}
          /\ \A x \in DOMAIN rows' : rows'[x] = rows[x]
          /\ handling' = handling /\ permitted' = permitted
      BY <2>4 DEF Skip, Issue, DropRow
    <3>2. reserved \subseteq reserved'
      BY <2>4 DEF Skip, Issue
    <3>3. ~Passes(rows[r], handling) \/ <<r, handling>> \in reserved'
      BY <2>4 DEF Skip, Issue
    <3>4. IssuedWasDue'
      <4>1. CASE Skip(r)
        BY <4>1 DEF Skip, GateInv, IssuedWasDue
      <4>2. CASE Issue(r)
        <5> DEFINE new == [rel |-> r, event |-> handling, slippage |-> DefaultSlippage]
        <5>1. issued' = issued \cup {new} /\ permitted' = permitted
          BY <4>2 DEF Issue
        <5>2. <<new.rel, new.event>> \in permitted
          BY <3>1, <4>2 DEF Issue, GateInv
        <5>3. QED
          BY <5>1, <5>2 DEF GateInv, IssuedWasDue
      <4>3. QED
        BY <2>4, <4>1, <4>2
    <3>5. \A x \in DOMAIN rows' :
            Passes(rows'[x], handling) => <<x, handling>> \in permitted
      BY <3>1 DEF GateInv
    <3>6. ASSUME NEW x \in Rels, NEW e \in Events, <<x, e>> \in permitted
          PROVE  \/ <<x, e>> \in reserved'
                 \/ handling = e /\ x \in DOMAIN rows' /\ Passes(rows'[x], e)
      BY <3>1, <3>2, <3>3, <3>6 DEF GateInv
    <3>7. QED
      BY <3>1, <3>4, <3>5, <3>6 DEF GateInv
  <2>5. CASE Finish
    BY <2>5 DEF Finish, GateInv, IssuedWasDue
  <2>6. QED
    BY <2>2, <2>3, <2>4, <2>5 DEF Next, EngineNext
<1>3. QED
  BY <1>1, <1>2, GateTypeCorrect, PTL DEF Spec

\* The gates let nothing through that was not due when the handler call read
\* the tables (processor.py's five gates on relationships.py's outer join).
THEOREM OnlyDueIssued == Spec => []IssuedWasDue
<1>1. GateInv => IssuedWasDue
  BY DEF GateInv
<1>2. QED
  BY <1>1, GateInvariant, PTL

\* And they hold nothing back that was.
THEOREM AllDueIssued == Spec => []DueIsIssued
<1>1. TypeOK /\ GateInv => DueIsIssued
  <2> SUFFICES ASSUME TypeOK, GateInv, NEW p \in permitted
               PROVE  p \in reserved \/ (handling = p[2] /\ p[1] \in DOMAIN rows)
    BY DEF DueIsIssued
  <2>1. PICK r \in Rels, e \in Events : p = <<r, e>>
    BY DEF TypeOK
  <2>2. QED
    BY <2>1 DEF GateInv
<1>2. QED
  BY <1>1, GateInvariant, GateTypeCorrect, PTL
=============================================================================

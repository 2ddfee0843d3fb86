-------------------------- MODULE RelationshipAdmin --------------------------
(***************************************************************************)
(* The handlers that write copy relationships, risk settings, exchange     *)
(* accounts and subscriptions (apps/api, copy_relationships.py and         *)
(* foundation_controls.py), statement by statement over AdminTables.  Each *)
(* handler is the disjunction of its statements.                           *)
(***************************************************************************)
EXTENDS AdminTables

\* A PATCH gives at least one column; the UPDATE sets those it gives.
Patches == [on : BOOLEAN] \cup [data : Data] \cup Value

Patched(v, p) == [f \in DOMAIN v |-> IF f \in DOMAIN p THEN p[f] ELSE v[f]]

RelationshipOperations ==
    [kind : {"create_relationship", "create_account",
             "upsert_subscription", "upsert_risk_settings"},
     row : Rows, value : Value]
    \cup [kind : {"update_relationship", "update_account"}, row : Rows, patch : Patches]

CreateRelationship(r) ==
    LET x == op[r].row IN
    /\ op[r].kind = "create_relationship"
    /\ \/ Begin(r, "insert")
       \/ pc[r] = "insert" /\ Write(r, x, op[r].value, "audit")
       \/ InsertAudit(r, <<Describe(r, x, Absent)>>)
       \/ CommitTransaction(r)

Update(r) ==
    /\ pc[r] = "update"
    /\ Write(r, op[r].row, Patched(View(r, op[r].row), op[r].patch), "audit")

UpdateRelationship(r) ==
    LET x == op[r].row IN
    /\ op[r].kind = "update_relationship"
    /\ \/ Begin(r, "select")
       \/ SelectForUpdate(r, x, "update")
       \/ Update(r)
       \/ InsertAudit(r, <<Describe(r, x, seen[r])>>)
       \/ CommitTransaction(r)

\* An account belongs to an existing user; its exchange and name are unique.
CreateExchangeAccount(r) ==
    LET x == op[r].row IN
    /\ op[r].kind = "create_account"
    /\ \/ Begin(r, "insert")
       \/ pc[r] = "insert" /\ Write(r, x, op[r].value, "reference")
       \/ Reference(r, x, "audit")
       \/ InsertAudit(r, <<Describe(r, x, Absent)>>)
       \/ CommitTransaction(r)

UpdateExchangeAccount(r) ==
    LET x == op[r].row IN
    /\ op[r].kind = "update_account"
    /\ \/ Begin(r, "select")
       \/ SelectForUpdate(r, x, "update")
       \/ Update(r)
       \/ InsertAudit(r, <<Describe(r, x, seen[r])>>)
       \/ CommitTransaction(r)

\* INSERT ... ON CONFLICT DO UPDATE: only a new row has its foreign key checked.
Upsert(r, x, v) ==
    /\ pc[r] = "upsert"
    /\ Write(r, x, v, IF View(r, x) = Absent THEN "reference" ELSE "audit")

\* The audit row of an upsert has no before_state.
UpsertRow(r) ==
    LET x == op[r].row IN
    \/ Begin(r, "upsert")
    \/ Upsert(r, x, op[r].value)
    \/ Reference(r, x, "audit")
    \/ InsertAudit(r, <<Describe(r, x, Absent)>>)
    \/ CommitTransaction(r)

UpsertSubscription(r) == op[r].kind = "upsert_subscription" /\ UpsertRow(r)

UpsertRiskSettings(r) == op[r].kind = "upsert_risk_settings" /\ UpsertRow(r)

RelationshipStep(r) ==
    \/ CreateRelationship(r)
    \/ UpdateRelationship(r)
    \/ CreateExchangeAccount(r)
    \/ UpdateExchangeAccount(r)
    \/ UpsertSubscription(r)
    \/ UpsertRiskSettings(r)

-----------------------------------------------------------------------------
(* Properties.                                                             *)

\* No two active relationships of one route are ever committed, and no two
\* accounts of one name, although the handlers read before they write and
\* rely on the unique indexes alone.
OneRowPerKey ==
    \A x \in Rows : \A y \in Rivals[x] \ {x} :
        ~(Counts(x, row[x]) /\ Counts(y, row[y]))
=============================================================================

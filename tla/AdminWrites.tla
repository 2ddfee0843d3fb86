----------------------------- MODULE AdminWrites -----------------------------
(***************************************************************************)
(* All writing admin requests together, and the audit log they promise.    *)
(***************************************************************************)
EXTENDS RelationshipAdmin, AdminCredentials

CONSTANT Table  \* Table[x]: the table of row x

TableOf(kind) ==
    CASE kind \in {"create_relationship", "update_relationship"} -> "relationships"
      [] kind \in {"create_account", "update_account"} -> "accounts"
      [] kind = "upsert_subscription" -> "subscriptions"
      [] kind = "upsert_risk_settings" -> "risk_settings"
      [] OTHER -> "credentials"

\* A unique key is of one table, and those of users, passwords and
\* credentials are what names their rows.  Foreign keys lead to users, those
\* of risk settings to relationships.
ASSUME SchemaAssumption ==
    /\ \A x \in Rows :
         /\ \A y \in Rivals[x] : Table[y] = Table[x]
         /\ Table[x] \in {"users", "passwords", "credentials"} => Rivals[x] \subseteq {x}
         /\ Table[x] \in {"subscriptions", "accounts", "credentials"} =>
                Table[Parent[x]] = "users"
         /\ Table[x] = "risk_settings" => Table[Parent[x]] = "relationships"
    /\ \A arrival \in Arrivals : \A r \in Requests :
         LET o == arrival[r] IN
         /\ Table[o.row] = TableOf(o.kind)
         /\ o.kind = "rotate" => Table[o.new] = "credentials"
         /\ o.kind = "create_credential" =>
                /\ Table[o.user] = "users"
                /\ o.password # Nobody => Table[o.password] = "passwords"

\* What a request creates has an id of its own (uuid4), which others may name.
\* A user's row is named by the unique key of ON CONFLICT.
Creates(o) == CASE o.kind \in {"create_relationship", "create_account",
                               "create_credential"} -> {o.row}
                [] o.kind = "rotate" -> {o.new}
                [] OTHER -> {}

ASSUME ArrivalAssumption ==
    /\ Arrivals \subseteq [Requests -> RelationshipOperations \cup CredentialOperations]
    /\ \A arrival \in Arrivals : \A r \in Requests :
         LET o == arrival[r] IN
         /\ o.row \in Audited
         /\ o.kind = "rotate" => o.new \in Audited \ {o.row}
         /\ o.kind = "create_credential" => /\ Rivals[o.user] \subseteq {o.user}
                                            /\ {o.user, o.password} \cap Audited = {}
    /\ \A arrival \in Arrivals : \A r \in Requests : \A x \in Creates(arrival[r]) :
         /\ \A q \in Requests \ {r} : x \notin Creates(arrival[q])
         /\ \A content \in Contents : content[x] = Absent

\* What the tables start with satisfies their unique keys.
ASSUME ContentAssumption ==
    \A content \in Contents : \A x \in Rows : \A y \in Rivals[x] \ {x} :
        ~(Counts(x, content[x]) /\ Counts(y, content[y]))

RequestStep(r) == RelationshipStep(r) \/ CredentialStep(r)

Next == \E r \in Requests : RequestStep(r) \/ LoseConnection(r)

\* A statement that waits for no lock ends, and the handler goes on.
Fairness == \A r \in Requests : WF_vars(RequestStep(r))

Spec == Init /\ [][Next]_vars /\ Fairness

-----------------------------------------------------------------------------
(* Properties.                                                             *)

AuditedRows == [x \in Audited |-> row[x]]

Log == INSTANCE AuditedLog WITH row <- AuditedRows

\* A change of rows and its audit rows are committed together, with the true
\* content before and after, and the log is only appended to: docs promise
\* that relationship write and audit insert share one transaction.
KeepsAuditedLog == Log!Spec

\* What audit_logs tells of a credential contains its last use and the name
\* and email of its user, which change without an audit row of the credential
\* (identity.py, and the upsert of the user).
Followed == {x \in Audited : Table[x] # "credentials"}

\* A reader of audit_logs can follow each row that is no credential from
\* change to change, without a gap, to its present content: no change is based
\* on, and no audit row tells, a content that another request has replaced
\* meanwhile.
AuditIsHistory == Log!History(Followed)

\* A request answered with success has its audit row, and one answered with
\* not found, conflict or "already inactive" has changed nothing.
AnswerIsTrue ==
    \A r \in Requests :
        /\ pc[r] = "ok" =>
             \E i \in DOMAIN audit : audit[i].by = r /\ audit[i].row = op[r].row
        /\ pc[r] \in {"unchanged", "not_found", "conflict"} =>
             \A i \in DOMAIN audit : audit[i].by # r

\* The row the next statement of r writes, and who holds a lock for which
\* that statement waits.
Target(r) == CASE pc[r] = "password" -> op[r].password
               [] pc[r] = "replace" -> op[r].new
               [] OTHER -> op[r].row

Holders(r, x) == {lock[x]} \ {Nobody, r}

Blockers(r) ==
    LET x == op[r].row IN
    CASE pc[r] = "select" ->
           {q \in Holders(r, x) \cup (share[x] \ {r}) : row[x] # Absent}
      [] pc[r] = "select_user" -> Holders(r, Parent[x]) \cup (share[Parent[x]] \ {r})
      [] pc[r] = "upsert_user" -> Holders(r, op[r].user)
      [] pc[r] = "reference" ->
           {q \in Holders(r, Parent[x]) :
                View(r, Parent[x]) # Absent /\ op[q].kind # "create_credential"}
      [] pc[r] \in {"insert", "upsert", "password", "update", "replace"} ->
           Holders(r, Target(r)) \cup
           UNION {Holders(r, y) : y \in {z \in Rivals[Target(r)] : pending[z] # row[z]}}
      [] OTHER -> {}

\* The handlers take their locks in no common order, yet no requests ever
\* wait for each other in a circle, which PostgreSQL would break by failing
\* one of them.
NoWaitCycle ==
    \A S \in (SUBSET Requests) \ {{}} : \E r \in S : Blockers(r) \cap S = {}

\* Locks are released and statements end: every request is answered.
EveryRequestAnswered == \A r \in Requests : <>(pc[r] \in Answers)
=============================================================================

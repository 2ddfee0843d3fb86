-------------------------- MODULE AdminCredentials --------------------------
(***************************************************************************)
(* Creating, deactivating and rotating the API credentials of              *)
(* administrators (apps/api, admin_credentials.py), statement by statement *)
(* over AdminTables.  A credential's row has its user as Parent; on is the *)
(* column active.  For a user, on says that the status is active; for a    *)
(* password that it is set.                                                *)
(***************************************************************************)
EXTENDS AdminTables

CredentialOperations ==
    [kind : {"create_credential"}, row : Rows, value : Value, user : Rows,
     password : Rows \cup {Nobody}]
    \cup [kind : {"deactivate"}, row : Rows]
    \cup [kind : {"rotate"}, row : Rows, new : Rows, value : Value]

\* The upsert takes the lock also when its WHERE leaves the row alone.
UpsertActiveUser(r) ==
    LET u == op[r].user IN
    /\ pc[r] = "upsert_user"
    /\ CanLock(r, u)
    /\ \/ /\ row[u] # Absent /\ ~row[u].on
          /\ Rollback(r, "conflict")
       \/ /\ row[u] = Absent \/ row[u].on
          /\ Put(r, u, [on |-> TRUE, data |-> op[r].value.data])
          /\ Goto(r, IF op[r].password # Nobody THEN "password" ELSE "insert")
          /\ UNCHANGED <<row, share, audit, entries, seen, op>>

\* A given password replaces the user's password.
UpsertPassword(r) ==
    /\ pc[r] = "password" /\ op[r].password # Nobody
    /\ Write(r, op[r].password, op[r].value, "insert")

CreateAdminCredential(r) ==
    LET k == op[r].row IN
    /\ op[r].kind = "create_credential"
    /\ \/ Begin(r, "upsert_user")
       \/ UpsertActiveUser(r)
       \/ UpsertPassword(r)
       \/ pc[r] = "insert" /\ Write(r, k, op[r].value, "audit")
       \/ InsertAudit(r, <<Describe(r, k, Absent)>>)
       \/ CommitTransaction(r)

\* The join of SELECT ... FOR UPDATE locks the user's row after the
\* credential's.
SelectUserForUpdate(r) ==
    LET u == Parent[op[r].row] IN
    /\ pc[r] = "select_user"
    /\ CanLockForUpdate(r, u)
    /\ lock' = [lock EXCEPT ![u] = r]
    /\ Goto(r, "update")
    /\ UNCHANGED <<row, pending, share, audit, entries, seen, op>>

SwitchOffAlways(r, answer, next) ==
    /\ pc[r] = "update"
    /\ Write(r, op[r].row, [seen[r] EXCEPT !.on = FALSE], next)

\* Only an active credential is switched off; else the handler leaves,
\* returning or raising.
SwitchOff(r, answer, next) ==
    /\ pc[r] = "update"
    /\ \/ ~seen[r].on /\ Rollback(r, answer)
       \/ /\ seen[r].on
          /\ Write(r, op[r].row, [seen[r] EXCEPT !.on = FALSE], next)

DeactivateUserFirst(r) ==
    LET k == op[r].row
        u == Parent[op[r].row]
    IN  /\ op[r].kind = "deactivate"
        /\ \/ Begin(r, "select_user")
           \/ /\ pc[r] = "select_user" /\ CanLockForUpdate(r, u)
              /\ lock' = [lock EXCEPT ![u] = r]
              /\ Goto(r, "select")
              /\ UNCHANGED <<row, pending, share, audit, entries, seen, op>>
           \/ SelectForUpdate(r, k, "update")
           \/ SwitchOff(r, "unchanged", "audit")
           \/ InsertAudit(r, <<Describe(r, k, seen[r])>>)
           \/ CommitTransaction(r)

DeactivateAdminCredential(r) ==
    LET k == op[r].row IN
    /\ op[r].kind = "deactivate"
    /\ \/ Begin(r, "select")
       \/ SelectForUpdate(r, k, "select_user")
       \/ SelectUserForUpdate(r)
       \/ SwitchOff(r, "unchanged", "audit")
       \/ InsertAudit(r, <<Describe(r, k, seen[r])>>)
       \/ CommitTransaction(r)

\* Rotation: the old credential off, a new one of the same user on.
RotateAdminCredential(r) ==
    LET k == op[r].row IN
    /\ op[r].kind = "rotate"
    /\ \/ Begin(r, "select")
       \/ SelectForUpdate(r, k, "select_user")
       \/ SelectUserForUpdate(r)
       \/ SwitchOff(r, "conflict", "replace")
       \/ pc[r] = "replace" /\ Write(r, op[r].new, op[r].value, "audit")
       \/ InsertAudit(r, <<Describe(r, k, seen[r]), Describe(r, op[r].new, Absent)>>)
       \/ CommitTransaction(r)

CredentialStep(r) ==
    \/ CreateAdminCredential(r)
    \/ DeactivateAdminCredential(r)
    \/ RotateAdminCredential(r)

-----------------------------------------------------------------------------
(* Properties.                                                             *)

Rotations == {r \in Requests : op[r].kind = "rotate"}

\* A credential has at most one successor, and a successor exists only with
\* its predecessor switched off: rotations and deactivations of one
\* credential, however they overlap, leave no second valid token behind.
OneSuccessor ==
    \A r \in Rotations :
        row[op[r].new] # Absent =>
            /\ ~row[op[r].row].on
            /\ \A q \in Rotations :
                 op[q].row = op[r].row /\ row[op[q].new] # Absent => q = r
=============================================================================

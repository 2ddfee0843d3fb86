-------------------------- MODULE AdminWritesProofs --------------------------
(***************************************************************************)
(* Proofs about AdminWrites, for any tables, rows, unique keys, requests   *)
(* and lost connections.  Six invariants; LogInv is on KeyInv, HistoryInv  *)
(* and WaitInv are on LogInv, CreatedInv is on WaitInv and SuccessorInv on *)
(* CreatedInv:                                                             *)
(*                                                                         *)
(* KeyInv.  Two rows of one unique key are kept apart not only as          *)
(* committed: the versions that open transactions see are apart, and a     *)
(* committed row and a pending one meet only within one transaction, which *)
(* will commit or roll back both.                                          *)
(*                                                                         *)
(* LogInv.  A transaction changes audited rows only where its request      *)
(* names them (Touched), it holds the locks of the rows it has read or     *)
(* written until it ends, so what the handler has seen is still the        *)
(* committed content (Seen), and what it has told the log (Told) is what   *)
(* COMMIT makes true of those rows.  So the handlers implement AuditedLog. *)
(*                                                                         *)
(* HistoryInv.  The audit rows of each row that is no credential follow on *)
(* one another.                                                            *)
(*                                                                         *)
(* WaitInv.  Which rows a request may have locked by each statement, so    *)
(* that whoever waits, waits for a request further on its way to COMMIT.   *)
(*                                                                         *)
(* CreatedInv.  A row that a request creates appears when it commits, and  *)
(* until then nobody else finds it or has it locked.                       *)
(*                                                                         *)
(* SuccessorInv.  A rotation that has switched its credential off holds    *)
(* the lock under which that credential was still on.                      *)
(***************************************************************************)
EXTENDS AdminWrites, TLAPS, SequenceTheorems

USE TableAssumption DEF TableAssumption

IsTable(f) == f = [x \in Rows |-> f[x]]

LocksOK ==
    /\ IsTable(row) /\ IsTable(pending)
    /\ lock \in [Rows -> Requests \cup {Nobody}]
    /\ \A x \in Rows : lock[x] = Nobody => pending[x] = row[x]

RowApart(x, y) == ~(Counts(x, row[x]) /\ Counts(y, row[y]))
PendingApart(x, y) == ~(Counts(x, pending[x]) /\ Counts(y, pending[y]))
MeetInOneTransaction(x, y) ==
    Counts(x, row[x]) /\ Counts(y, pending[y]) => lock[x] = lock[y] /\ lock[x] # Nobody

Apart(x, y) == RowApart(x, y) /\ PendingApart(x, y) /\ MeetInOneTransaction(x, y)

KeyInv ==
    /\ LocksOK
    /\ op \in Arrivals
    /\ \A x \in Rows : \A y \in Rivals[x] \ {x} : Apart(x, y)

\* Rivals are rows, and each other's.
LEMMA RivalFacts ==
    ASSUME NEW x \in Rows, NEW y \in Rivals[x] \ {x}
    PROVE  y \in Rows /\ x \in Rivals[y] \ {y}
OBVIOUS

-----------------------------------------------------------------------------
(* What a statement may do to rows and locks.                              *)

\* The transaction leaves its rows as committed.
LEMMA RollbackKeeps ==
    ASSUME KeyInv, NEW r \in Requests, NEW a, Rollback(r, a)
    PROVE  KeyInv'
<1> USE DEF KeyInv, LocksOK, IsTable
<1>1. /\ row' = row /\ op' = op
      /\ \A x \in Rows : /\ pending'[x] = IF lock[x] = r THEN row[x] ELSE pending[x]
                         /\ lock'[x] = IF lock[x] = r THEN Nobody ELSE lock[x]
  BY DEF Rollback, Release
<1>2. LocksOK'
  BY <1>1 DEF Rollback, Release
<1>3. ASSUME NEW x \in Rows, NEW y \in Rivals[x] \ {x}
      PROVE  Apart(x, y)'
  <2>1. y \in Rows /\ Apart(x, y) /\ Apart(y, x)
    BY RivalFacts
  <2> QED
    BY <1>1, <2>1 DEF Apart, RowApart, PendingApart, MeetInOneTransaction, Counts
<1> QED
  BY <1>1, <1>2, <1>3

\* The rows of the transaction become the committed ones.
LEMMA CommitKeeps ==
    ASSUME KeyInv, NEW r \in Requests, NEW a, Commit(r, a)
    PROVE  KeyInv'
<1> USE DEF KeyInv, LocksOK, IsTable
<1>1. /\ pending' = pending /\ op' = op
      /\ \A x \in Rows : /\ row'[x] = IF lock[x] = r THEN pending[x] ELSE row[x]
                         /\ lock'[x] = IF lock[x] = r THEN Nobody ELSE lock[x]
  BY DEF Commit, Committed, Release
<1>2. LocksOK'
  BY <1>1 DEF Commit, Committed, Release
<1>3. ASSUME NEW x \in Rows, NEW y \in Rivals[x] \ {x}
      PROVE  Apart(x, y)'
  <2>1. y \in Rows /\ Apart(x, y) /\ Apart(y, x)
    BY RivalFacts
  <2> QED
    BY <1>1, <2>1 DEF Apart, RowApart, PendingApart, MeetInOneTransaction, Counts
<1> QED
  BY <1>1, <1>2, <1>3

\* A lock that was free or one's own is taken.
LEMMA LockKeeps ==
    ASSUME KeyInv, NEW r \in Requests, NEW z \in Rows, CanLock(r, z),
           lock' = [lock EXCEPT ![z] = r], UNCHANGED <<row, pending, op>>
    PROVE  KeyInv'
<1> USE DEF KeyInv, LocksOK, IsTable
<1>1. LocksOK'
  OBVIOUS
<1>2. ASSUME NEW x \in Rows, NEW y \in Rivals[x] \ {x}
      PROVE  Apart(x, y)'
  <2>1. y \in Rows /\ Apart(x, y)
    BY RivalFacts
  <2> QED
    BY <2>1 DEF Apart, RowApart, PendingApart, MeetInOneTransaction, Counts, CanLock
<1> QED
  BY <1>1, <1>2

\* A new version of z that no version of a rival clashes with.
LEMMA PutKeeps ==
    ASSUME KeyInv, NEW r \in Requests, NEW z \in Rows, NEW v, CanLock(r, z), Put(r, z, v),
           UNCHANGED <<row, op>>,
           Counts(z, v) => \A y \in Rivals[z] \ {z} :
               /\ ~Counts(y, pending[y])
               /\ Counts(y, row[y]) => lock[y] = r
    PROVE  KeyInv'
<1> USE DEF KeyInv, LocksOK, IsTable
<1>1. /\ \A x \in Rows : /\ pending'[x] = IF x = z THEN v ELSE pending[x]
                         /\ lock'[x] = IF x = z THEN r ELSE lock[x]
      /\ LocksOK'
  BY DEF Put
<1>2. ASSUME NEW x \in Rows, NEW y \in Rivals[x] \ {x}
      PROVE  Apart(x, y)'
  <2>1. y \in Rows /\ x \in Rivals[y] \ {y} /\ Apart(x, y) /\ Apart(y, x)
    BY RivalFacts
  <2>2. RowApart(x, y)'
    BY <2>1 DEF Apart, RowApart, Counts
  <2>3. PendingApart(x, y)'
    BY <1>1, <2>1 DEF Apart, PendingApart, Counts
  <2>4. MeetInOneTransaction(x, y)'
    BY <1>1, <2>1 DEF Apart, MeetInOneTransaction, Counts, CanLock
  <2> QED
    BY <2>2, <2>3, <2>4 DEF Apart
<1> QED
  BY <1>1, <1>2

\* A unique index lets a version in once every rival is decided and off.
LEMMA WriteKeeps ==
    ASSUME KeyInv, NEW r \in Requests, NEW z \in Rows, NEW v, NEW next, Write(r, z, v, next)
    PROVE  KeyInv'
<1>1. CASE Rollback(r, "conflict")
  BY <1>1, RollbackKeeps
<1>2. CASE ~KeyTaken(r, z, v) /\ Put(r, z, v) /\ UNCHANGED <<row, op>>
  <2>1. ASSUME Counts(z, v), NEW y \in Rivals[z] \ {z}
        PROVE  ~Counts(y, pending[y]) /\ (Counts(y, row[y]) => lock[y] = r)
    <3>1. y \in Rows /\ ~Counts(y, View(r, y))
      BY <1>2, <2>1, RivalFacts DEF KeyTaken
    <3>2. ~(/\ lock[y] \notin {Nobody, r}
            /\ pending[y] # row[y]
            /\ Counts(y, pending[y]) \/ Counts(y, row[y]))
      BY <2>1 DEF Write, KeyUndecided
    <3>3. lock[y] = Nobody => pending[y] = row[y]
      BY <3>1 DEF KeyInv, LocksOK
    <3> QED
      BY <3>1, <3>2, <3>3 DEF View
  <2> QED
    BY <1>2, <2>1, PutKeeps DEF Write
<1> QED
  BY <1>1, <1>2 DEF Write

\* A step that leaves rows, versions and locks alone.
LEMMA QuietKeeps ==
    ASSUME KeyInv, UNCHANGED <<row, pending, lock, op>>
    PROVE  KeyInv'
BY DEF KeyInv, LocksOK, IsTable, Apart, RowApart, PendingApart, MeetInOneTransaction, Counts

-----------------------------------------------------------------------------
(* Every statement of every handler is one of these.                       *)

\* What a request names, as far as rows and keys need it.
LEMMA OperationFacts ==
    ASSUME op \in Arrivals, NEW r \in Requests
    PROVE  /\ op[r].row \in Rows /\ Parent[op[r].row] \in Rows
           /\ op[r].kind = "create_credential" =>
                /\ op[r].user \in Rows
                /\ op[r].password \in Rows \cup {Nobody}
                /\ Rivals[op[r].user] \subseteq {op[r].user}
           /\ op[r].kind = "rotate" => op[r].new \in Rows
<1>1. op[r] \in RelationshipOperations \cup CredentialOperations
  BY ArrivalAssumption
<1>2. op[r].kind = "create_credential" => Rivals[op[r].user] \subseteq {op[r].user}
  BY ArrivalAssumption
<1>3. op[r].row \in Rows
  BY <1>1 DEF RelationshipOperations, CredentialOperations
<1>4. op[r].kind = "create_credential" =>
        op[r].user \in Rows /\ op[r].password \in Rows \cup {Nobody}
  BY <1>1 DEF RelationshipOperations, CredentialOperations
<1>5. op[r].kind = "rotate" => op[r].new \in Rows
  BY <1>1 DEF RelationshipOperations, CredentialOperations
<1> QED
  BY <1>2, <1>3, <1>4, <1>5

\* BEGIN touches no row.
LEMMA BeginKeeps ==
    ASSUME KeyInv, NEW r \in Requests, NEW s, Begin(r, s)
    PROVE  KeyInv'
BY QuietKeeps DEF Begin

\* The audit insert touches no keyed row.
LEMMA InsertAuditKeeps ==
    ASSUME KeyInv, NEW r \in Requests, NEW es, InsertAudit(r, es)
    PROVE  KeyInv'
BY QuietKeeps DEF InsertAudit

\* A foreign key check touches no row, or the transaction is rolled back.
LEMMA ReferenceKeeps ==
    ASSUME KeyInv, NEW r \in Requests, NEW x, NEW s, Reference(r, x, s)
    PROVE  KeyInv'
BY QuietKeeps, RollbackKeeps DEF Reference

\* SELECT FOR UPDATE takes a lock, or the transaction ends.
LEMMA SelectKeeps ==
    ASSUME KeyInv, NEW r \in Requests, NEW x \in Rows, NEW s, SelectForUpdate(r, x, s)
    PROVE  KeyInv'
BY CommitKeeps, LockKeeps DEF SelectForUpdate, CanLockForUpdate

\* COMMIT, or a transaction the server has lost.
LEMMA FinishKeeps ==
    ASSUME KeyInv, NEW r \in Requests, CommitTransaction(r)
    PROVE  KeyInv'
BY CommitKeeps DEF CommitTransaction

\* Relationships, risk settings, accounts and subscriptions.
LEMMA RelationshipKeeps ==
    ASSUME KeyInv, NEW r \in Requests, RelationshipStep(r)
    PROVE  KeyInv'
<1> USE BeginKeeps, InsertAuditKeeps, ReferenceKeeps, SelectKeeps, FinishKeeps, WriteKeeps
<1>0. op[r].row \in Rows
  BY OperationFacts DEF KeyInv
<1>1. CASE CreateRelationship(r)
  BY <1>0, <1>1 DEF CreateRelationship
<1>2. CASE UpdateRelationship(r) \/ UpdateExchangeAccount(r)
  BY <1>0, <1>2 DEF UpdateRelationship, UpdateExchangeAccount, Update
<1>3. CASE CreateExchangeAccount(r)
  BY <1>0, <1>3 DEF CreateExchangeAccount
<1>4. CASE UpsertSubscription(r) \/ UpsertRiskSettings(r)
  BY <1>0, <1>4 DEF UpsertSubscription, UpsertRiskSettings, UpsertRow, Upsert
<1> QED
  BY <1>1, <1>2, <1>3, <1>4 DEF RelationshipStep

\* Users, passwords and credentials.
LEMMA CredentialKeeps ==
    ASSUME KeyInv, NEW r \in Requests, CredentialStep(r)
    PROVE  KeyInv'
<1> USE BeginKeeps, InsertAuditKeeps, SelectKeeps, FinishKeeps, WriteKeeps
<1>0. op[r].row \in Rows /\ Parent[op[r].row] \in Rows
  BY OperationFacts DEF KeyInv
<1>1. CASE op[r].kind = "create_credential" /\ UpsertActiveUser(r)
  <2>1. op[r].user \in Rows /\ Rivals[op[r].user] \ {op[r].user} = {}
    BY <1>1, OperationFacts DEF KeyInv
  <2> QED
    BY <1>1, <2>1, RollbackKeeps, PutKeeps DEF UpsertActiveUser
<1>2. CASE op[r].kind = "create_credential" /\ UpsertPassword(r)
  <2>1. op[r].password \in Rows
    BY <1>2, OperationFacts DEF KeyInv, UpsertPassword
  <2> QED
    BY <1>2, <2>1 DEF UpsertPassword
<1>3. CASE CreateAdminCredential(r)
  BY <1>0, <1>1, <1>2, <1>3 DEF CreateAdminCredential
<1>4. CASE SelectUserForUpdate(r)
  BY <1>0, <1>4, LockKeeps DEF SelectUserForUpdate, CanLockForUpdate
<1>5. ASSUME NEW a, NEW s, SwitchOff(r, a, s)
      PROVE  KeyInv'
  BY <1>0, <1>5, RollbackKeeps DEF SwitchOff
<1>6. CASE DeactivateAdminCredential(r)
  BY <1>0, <1>4, <1>5, <1>6 DEF DeactivateAdminCredential
<1>7. CASE RotateAdminCredential(r)
  <2>1. op[r].new \in Rows
    BY <1>7, OperationFacts DEF KeyInv, RotateAdminCredential
  <2> QED
    BY <1>0, <1>4, <1>5, <1>7, <2>1 DEF RotateAdminCredential
<1> QED
  BY <1>3, <1>6, <1>7 DEF CredentialStep

-----------------------------------------------------------------------------

\* A connection that breaks ends its transaction either way.
LEMMA KeyStep == KeyInv /\ [Next]_vars => KeyInv'
<1> SUFFICES ASSUME KeyInv, [Next]_vars
             PROVE  KeyInv'
  OBVIOUS
<1>1. ASSUME NEW r \in Requests, RequestStep(r)
      PROVE  KeyInv'
  BY <1>1, RelationshipKeeps, CredentialKeeps DEF RequestStep
<1>2. ASSUME NEW r \in Requests, LoseConnection(r)
      PROVE  KeyInv'
  BY <1>2, RollbackKeeps, CommitKeeps DEF LoseConnection
<1>3. CASE UNCHANGED vars
  BY <1>3, QuietKeeps DEF vars
<1> QED
  BY <1>1, <1>2, <1>3 DEF Next

\* The table of a start state has one row per key and no locks.
LEMMA Init_KeyInv == Init => KeyInv
<1> SUFFICES ASSUME Init
             PROVE  KeyInv
  OBVIOUS
<1>1. PICK content \in Contents : row = content /\ pending = content
  BY DEF Init
<1>2. LocksOK
  BY <1>1 DEF Init, LocksOK, IsTable
<1>3. ASSUME NEW x \in Rows, NEW y \in Rivals[x] \ {x}
      PROVE  Apart(x, y)
  BY <1>1, ContentAssumption DEF Apart, RowApart, PendingApart, MeetInOneTransaction
<1> QED
  BY <1>2, <1>3 DEF KeyInv, Init

\* The unique indexes hold among committed rows and within every transaction.
THEOREM KeyInvariant == Spec => []KeyInv
BY Init_KeyInv, KeyStep, PTL DEF Spec

\* One active relationship per route and one account per name are committed,
\* whichever handlers overlap: no handler checks this before it writes.
THEOREM RowsUnique == Spec => []OneRowPerKey
<1>1. KeyInv => OneRowPerKey
  BY DEF KeyInv, OneRowPerKey, Apart, RowApart
<1> QED
  BY <1>1, KeyInvariant, PTL

-----------------------------------------------------------------------------
(* Transactions and the audit log.                                         *)

Reads(r) ==
    op[r].kind \in {"update_relationship", "update_account", "deactivate", "rotate"}

\* The request has locked the row it names.
HasRow(r) ==
    \/ pc[r] \in {"reference", "audit", "commit"}
    \/ Reads(r) /\ pc[r] \in {"select_user", "update", "replace"}

Named(r) == {op[r].row} \cup (IF op[r].kind = "rotate" THEN {op[r].new} ELSE {})

\* The audited rows that r will change.
Touched(r) == {x \in Audited : lock[x] = r /\ pending[x] # row[x]}

Holds(r, x) == lock[x] = r /\ pending[x] \in Value

Held(r) ==
    /\ HasRow(r) => Holds(r, op[r].row)
    /\ op[r].kind = "rotate" /\ pc[r] \in {"audit", "commit"} => Holds(r, op[r].new)

Seen(r) == Reads(r) /\ HasRow(r) => seen[r] = row[op[r].row] /\ seen[r] \in Value

\* The audit rows of the request.
Told(r) ==
    IF op[r].kind = "rotate"
    THEN <<Describe(r, op[r].row, seen[r]), Describe(r, op[r].new, Absent)>>
    ELSE <<Describe(r, op[r].row, IF Reads(r) THEN seen[r] ELSE Absent)>>

Telling(r) == entries[r] = IF pc[r] = "commit" THEN Told(r) ELSE << >>

Transaction(r) ==
    /\ Held(r) /\ Seen(r) /\ Telling(r)
    /\ Touched(r) \subseteq Named(r)
    /\ pc[r] \in {"begin", "select"} => Touched(r) = {}

\* What the log says of a request.
InLog(r) ==
    /\ \A i \in DOMAIN audit : audit[i].by = r => pc[r] \in {"ok", "error"}
    /\ pc[r] = "ok" => \E i \in DOMAIN audit : audit[i].by = r /\ audit[i].row = op[r].row

LogInv == TypeOK /\ KeyInv /\ \A r \in Requests : Transaction(r) /\ InLog(r)

LogStep == [Log!Write]_<<AuditedRows, audit>>

-----------------------------------------------------------------------------
(* Facts used throughout.                                                  *)

\* A concatenation is split where it was joined.
LEMMA SplitConcat ==
    ASSUME NEW S, NEW s \in Seq(S), NEW t \in Seq(S)
    PROVE  /\ s \o t \in Seq(S)
           /\ Len(s \o t) = Len(s) + Len(t)
           /\ SubSeq(s \o t, 1, Len(s)) = s
           /\ SubSeq(s \o t, Len(s) + 1, Len(s \o t)) = t
<1>1. s \o t \in Seq(S) /\ Len(s \o t) = Len(s) + Len(t)
  BY ConcatProperties
<1>2. SubSeq(s \o t, 1, Len(s)) = s
  OBVIOUS
<1>3. SubSeq(s \o t, Len(s) + 1, Len(s \o t)) = t
  OBVIOUS
<1> QED
  BY <1>1, <1>2, <1>3

\* A missing row is no version of a row.
LEMMA AbsentIsNoValue == Absent \notin Value
BY DEF Value, Absent

\* A patched version is a version.
LEMMA PatchedIsValue ==
    ASSUME NEW v \in Value, NEW p \in Patches
    PROVE  Patched(v, p) \in Value
BY DEF Value, Patches, Patched

\* What a request names, by kind.
LEMMA RequestFacts ==
    ASSUME op \in Arrivals, NEW r \in Requests
    PROVE  /\ op[r].row \in Audited /\ op[r].row \in Rows /\ Parent[op[r].row] \in Rows
           /\ op[r].kind \in {"create_relationship", "create_account", "upsert_subscription",
                              "upsert_risk_settings", "create_credential", "rotate"}
                => op[r].value \in Value
           /\ op[r].kind \in {"update_relationship", "update_account"} => op[r].patch \in Patches
           /\ op[r].kind = "rotate" => op[r].new \in Audited /\ op[r].new \in Rows
           /\ op[r].kind = "create_credential" =>
                /\ op[r].user \in Rows \ Audited
                /\ op[r].password # Nobody => op[r].password \in Rows \ Audited
<1>1. op[r] \in RelationshipOperations \cup CredentialOperations
  BY ArrivalAssumption
<1>2. /\ op[r].row \in Audited
      /\ op[r].kind = "rotate" => op[r].new \in Audited
      /\ op[r].kind = "create_credential" => {op[r].user, op[r].password} \cap Audited = {}
  BY ArrivalAssumption
<1>3. op[r].kind \in {"create_relationship", "create_account", "upsert_subscription",
                      "upsert_risk_settings", "create_credential", "rotate"}
        => op[r].value \in Value
  BY <1>1 DEF RelationshipOperations, CredentialOperations
<1>4. op[r].kind \in {"update_relationship", "update_account"} => op[r].patch \in Patches
  BY <1>1 DEF RelationshipOperations, CredentialOperations
<1> QED
  BY <1>2, <1>3, <1>4, OperationFacts

\* The parts of TypeOK the provers need one at a time.
LEMMA Types ==
    ASSUME TypeOK
    PROVE  /\ row \in [Rows -> Value \cup {Absent}]
           /\ pending \in [Rows -> Value \cup {Absent}]
           /\ lock \in [Rows -> Requests \cup {Nobody}]
           /\ share \in [Rows -> SUBSET Requests]
           /\ audit \in Seq(Entry)
           /\ entries \in [Requests -> Seq(Entry)]
           /\ seen \in [Requests -> Value \cup {Absent}]
           /\ pc \in [Requests -> Statements \cup Answers]
           /\ \A x \in Rows : lock[x] = Nobody => pending[x] = row[x]
           /\ \A r \in Requests :
                pc[r] \in Answers => /\ entries[r] = << >>
                                     /\ \A x \in Rows : lock[x] # r /\ r \notin share[x]
BY DEF TypeOK

-----------------------------------------------------------------------------
(* What a step of r leaves alone, and so what the others keep.             *)

Alone(r) ==
    /\ op' = op
    /\ \A x \in Rows : /\ lock'[x] \in {lock[x], r, Nobody}
                       /\ lock[x] \notin {Nobody, r} => /\ lock'[x] = lock[x]
                                                       /\ row'[x] = row[x]
                                                       /\ pending'[x] = pending[x]
    /\ \A q \in Requests \ {r} :
         pc'[q] = pc[q] /\ entries'[q] = entries[q] /\ seen'[q] = seen[q]
    /\ \A i \in DOMAIN audit : i \in DOMAIN audit' /\ audit'[i] = audit[i]
    /\ \A i \in DOMAIN audit' : i \in DOMAIN audit \/ audit'[i].by = r

\* A step of one request leaves the transactions of the others as they were.
LEMMA OthersKeep ==
    ASSUME LogInv, NEW r \in Requests, Alone(r), NEW q \in Requests, q # r
    PROVE  Transaction(q)' /\ InLog(q)'
<1>0. op \in Arrivals /\ TypeOK /\ Transaction(q) /\ InLog(q)
  BY DEF LogInv, KeyInv
<1> USE RequestFacts, Types
<1>1. /\ pc'[q] = pc[q] /\ entries'[q] = entries[q] /\ seen'[q] = seen[q] /\ op' = op
      /\ \A x \in Rows : /\ lock'[x] = q <=> lock[x] = q
                         /\ lock[x] = q => row'[x] = row[x] /\ pending'[x] = pending[x]
  BY <1>0 DEF Alone
<1>2. Held(q)'
  BY <1>0, <1>1 DEF Transaction, Held, HasRow, Reads, Holds
<1>3. Seen(q)'
  BY <1>0, <1>1 DEF Transaction, Held, Seen, HasRow, Reads, Holds
<1>4. Touched(q)' = Touched(q)
  <2>1. ASSUME NEW x \in Audited
        PROVE  lock'[x] = q /\ pending'[x] # row'[x] <=> lock[x] = q /\ pending[x] # row[x]
    BY <1>1
  <2> QED
    BY <2>1 DEF Touched
<1>5. Telling(q)'
  <2>1. CASE pc[q] = "commit"
    <3>1. Holds(q, op[q].row) /\ (op[q].kind = "rotate" => Holds(q, op[q].new))
      BY <1>0, <2>1 DEF Transaction, Held, HasRow
    <3>2. Told(q)' = Told(q)
      BY <1>0, <1>1, <3>1 DEF Told, Describe, View, Holds, Reads
    <3> QED
      BY <1>0, <1>1, <2>1, <3>2 DEF Transaction, Telling
  <2>2. CASE pc[q] # "commit"
    BY <1>0, <1>1, <2>2 DEF Transaction, Telling
  <2> QED
    BY <2>1, <2>2
<1>6. Transaction(q)'
  BY <1>0, <1>1, <1>2, <1>3, <1>4, <1>5 DEF Transaction, Named
<1>7. InLog(q)'
  BY <1>0, <1>1 DEF InLog, Alone
<1> QED
  BY <1>6, <1>7

-----------------------------------------------------------------------------
(* What a step of r does to its own transaction, statement by statement.   *)

Kept(r) == TypeOK' /\ Alone(r) /\ Transaction(r)' /\ InLog(r)' /\ LogStep

\* The rows and the log stay: a stutter of the log.
LEMMA NothingLogged ==
    ASSUME \A x \in Audited : row'[x] = row[x], audit' = audit
    PROVE  LogStep
BY DEF LogStep, AuditedRows

\* What LogInv says of one request, with the types spelled out.
LEMMA Own ==
    ASSUME LogInv, NEW r \in Requests
    PROVE  /\ op \in Arrivals /\ TypeOK
           /\ Held(r) /\ Seen(r) /\ Telling(r) /\ Transaction(r) /\ InLog(r)
           /\ Touched(r) \subseteq Named(r)
BY DEF LogInv, KeyInv, Transaction

\* BEGIN.
LEMMA BeginLog ==
    ASSUME LogInv, NEW r \in Requests, NEW s \in {"insert", "select", "upsert", "upsert_user"},
           Begin(r, s), s = "select" <=> Reads(r)
    PROVE  Kept(r)
<1>0. op \in Arrivals /\ TypeOK /\ Transaction(r) /\ InLog(r)
  BY Own
<1>1. pc[r] = "begin" /\ pc' = [pc EXCEPT ![r] = s]
      /\ UNCHANGED <<row, pending, lock, share, audit, entries, seen, op>>
  BY DEF Begin, Goto
<1>2. pc'[r] = s /\ \A q \in Requests \ {r} : pc'[q] = pc[q]
  BY <1>0, <1>1, Types
<1>3. TypeOK'
  BY <1>0, <1>1, Types DEF TypeOK, Statements, Answers
<1>4. Alone(r)
  BY <1>0, <1>1, <1>2, Types DEF Alone
<1>5. Transaction(r)'
  <2>1. Held(r)' /\ Seen(r)'
    BY <1>1, <1>2 DEF Held, Seen, HasRow, Reads
  <2>2. Telling(r)'
    BY <1>0, <1>1, <1>2 DEF Transaction, Telling
  <2>3. Touched(r)' = {}
    BY <1>0, <1>1 DEF Transaction, Touched
  <2> QED
    BY <2>1, <2>2, <2>3 DEF Transaction
<1>6. InLog(r)'
  BY <1>0, <1>1, <1>2 DEF InLog
<1> QED
  BY <1>1, <1>3, <1>4, <1>5, <1>6, NothingLogged DEF Kept

\* What ends a transaction without a commit.
LEMMA RollbackLog ==
    ASSUME LogInv, NEW r \in Requests, NEW a \in Answers \ {"ok"}, pc[r] \notin Answers,
           Rollback(r, a)
    PROVE  Kept(r)
<1>0. op \in Arrivals /\ TypeOK /\ Transaction(r) /\ InLog(r)
  BY Own
<1>1. /\ row' = row /\ audit' = audit /\ seen' = seen /\ op' = op
      /\ pending' = [x \in Rows |-> IF lock[x] = r THEN row[x] ELSE pending[x]]
      /\ lock' = [x \in Rows |-> IF lock[x] = r THEN Nobody ELSE lock[x]]
      /\ share' = [x \in Rows |-> share[x] \ {r}]
      /\ entries' = [entries EXCEPT ![r] = << >>]
      /\ pc' = [pc EXCEPT ![r] = a]
  BY DEF Rollback, Release, Goto
<1>2. /\ pc'[r] = a /\ entries'[r] = << >>
      /\ \A q \in Requests \ {r} : pc'[q] = pc[q] /\ entries'[q] = entries[q]
  BY <1>0, <1>1, Types
<1>3. TypeOK'
  <2>1. entries' \in [Requests -> Seq(Entry)]
    BY <1>0, <1>1, Types
  <2> QED
    BY <1>0, <1>1, <1>2, <2>1, Types DEF TypeOK
<1>4. Alone(r)
  BY <1>0, <1>1, <1>2, Types DEF Alone
<1>5. Transaction(r)'
  <2>1. Held(r)' /\ Seen(r)'
    BY <1>2 DEF Held, Seen, HasRow, Reads, Answers
  <2>2. Telling(r)'
    BY <1>2 DEF Telling, Answers
  <2>3. Touched(r)' = {}
    BY <1>1 DEF Touched
  <2> QED
    BY <2>1, <2>2, <2>3 DEF Transaction
<1>6. InLog(r)'
  BY <1>0, <1>1, <1>2 DEF InLog, Answers
<1> QED
  BY <1>1, <1>3, <1>4, <1>5, <1>6, NothingLogged DEF Kept

\* A row that is not there ends the transaction with an answer.
LEMMA NotFoundLog ==
    ASSUME LogInv, NEW r \in Requests, pc[r] = "select", Commit(r, "not_found")
    PROVE  Kept(r)
<1>0. op \in Arrivals /\ TypeOK /\ Transaction(r) /\ InLog(r)
  BY Own
<1>1. /\ pending' = pending /\ seen' = seen /\ op' = op
      /\ row' = [x \in Rows |-> IF lock[x] = r THEN pending[x] ELSE row[x]]
      /\ audit' = audit \o entries[r]
      /\ lock' = [x \in Rows |-> IF lock[x] = r THEN Nobody ELSE lock[x]]
      /\ share' = [x \in Rows |-> share[x] \ {r}]
      /\ entries' = [entries EXCEPT ![r] = << >>]
      /\ pc' = [pc EXCEPT ![r] = "not_found"]
  BY DEF Commit, Committed, Release, Goto
<1>2. /\ pc'[r] = "not_found" /\ entries'[r] = << >>
      /\ \A q \in Requests \ {r} : pc'[q] = pc[q] /\ entries'[q] = entries[q]
  BY <1>0, <1>1, Types
<1>3. audit' = audit
  <2>1. entries[r] = << >>
    BY <1>0 DEF Transaction, Telling
  <2> QED
    BY <1>0, <1>1, <2>1, Types
<1>4. TypeOK'
  <2>1. entries' \in [Requests -> Seq(Entry)]
    BY <1>0, <1>1, Types
  <2> QED
    BY <1>0, <1>1, <1>2, <1>3, <2>1, Types DEF TypeOK, Answers
<1>5. Alone(r)
  BY <1>0, <1>1, <1>2, <1>3, Types DEF Alone
<1>6. Transaction(r)'
  <2>1. Held(r)' /\ Seen(r)'
    BY <1>2 DEF Held, Seen, HasRow, Reads
  <2>2. Telling(r)'
    BY <1>2 DEF Telling
  <2>3. Touched(r)' = {}
    BY <1>1 DEF Touched
  <2> QED
    BY <2>1, <2>2, <2>3 DEF Transaction
<1>7. InLog(r)'
  BY <1>0, <1>2, <1>3 DEF InLog
<1>8. \A x \in Audited : row'[x] = row[x]
  BY <1>0, <1>1 DEF Transaction, Touched
<1> QED
  BY <1>3, <1>4, <1>5, <1>6, <1>7, <1>8, NothingLogged DEF Kept

\* What a request at COMMIT has told is true of its rows.
LEMMA ToldIsTrue ==
    ASSUME LogInv, NEW r \in Requests, pc[r] = "commit"
    PROVE  /\ entries[r] = Told(r) /\ Told(r) \in Seq(Entry)
           /\ Len(Told(r)) \in {1, 2} /\ DOMAIN Told(r) = 1..Len(Told(r))
           /\ Told(r)[1].row = op[r].row
           /\ \A i, j \in DOMAIN Told(r) : Told(r)[i].row = Told(r)[j].row => i = j
           /\ Named(r) = {Told(r)[i].row : i \in DOMAIN Told(r)}
           /\ \A i \in DOMAIN Told(r) :
                LET e == Told(r)[i] IN
                /\ e.row \in Audited /\ e.by = r
                /\ e.before \in {row[e.row], Absent}
                /\ lock[e.row] = r /\ e.after = pending[e.row]
<1>0. op \in Arrivals /\ TypeOK /\ Held(r) /\ Seen(r) /\ Telling(r)
  BY Own
<1> DEFINE k == op[r].row
           n == op[r].new
           before == IF Reads(r) THEN seen[r] ELSE Absent
<1>1. /\ k \in Audited /\ k \in Rows /\ lock[k] = r /\ pending[k] \in Value
      /\ seen[r] \in Value \cup {Absent}
      /\ Reads(r) => seen[r] = row[k]
  BY <1>0, RequestFacts, Types DEF Held, HasRow, Holds, Seen
<1>2. entries[r] = Told(r)
  BY <1>0 DEF Telling
<1>3. CASE op[r].kind = "rotate"
  <2>1. /\ n \in Audited /\ n \in Rows /\ lock[n] = r /\ pending[n] \in Value /\ Reads(r)
        /\ n # k
    BY <1>0, <1>3, RequestFacts, ArrivalAssumption DEF Held, Holds, Reads
  <2>2. Told(r) = <<[row |-> k, before |-> seen[r], after |-> pending[k], by |-> r],
                    [row |-> n, before |-> Absent, after |-> pending[n], by |-> r]>>
    BY <1>1, <1>3, <2>1 DEF Told, Describe, View
  <2>3. Told(r) \in Seq(Entry) /\ Len(Told(r)) = 2 /\ DOMAIN Told(r) = {1, 2}
    BY <1>1, <2>1, <2>2 DEF Entry
  <2>4. /\ Told(r)[1].row = k /\ Told(r)[2].row = n
        /\ Told(r)[1].before = row[k] /\ Told(r)[2].before = Absent
        /\ Told(r)[1].after = pending[k] /\ Told(r)[2].after = pending[n]
        /\ Told(r)[1].by = r /\ Told(r)[2].by = r
    BY <1>1, <2>1, <2>2
  <2> HIDE DEF k, n, before
  <2>5. Named(r) = {Told(r)[i].row : i \in DOMAIN Told(r)}
    BY <1>3, <2>3, <2>4 DEF Named, k, n
  <2> QED
    BY <1>1, <1>2, <2>1, <2>3, <2>4, <2>5 DEF k, n
<1>4. CASE op[r].kind # "rotate"
  <2>2. Told(r) = <<[row |-> k, before |-> before, after |-> pending[k], by |-> r]>>
    BY <1>1, <1>4 DEF Told, Describe, View
  <2>3. Told(r) \in Seq(Entry) /\ Len(Told(r)) = 1 /\ DOMAIN Told(r) = {1}
    BY <1>1, <2>2 DEF Entry
  <2>4. /\ Told(r)[1].row = k /\ Told(r)[1].before \in {row[k], Absent}
        /\ Told(r)[1].after = pending[k] /\ Told(r)[1].by = r
    BY <1>1, <2>2
  <2> HIDE DEF k, n, before
  <2>5. Named(r) = {Told(r)[i].row : i \in DOMAIN Told(r)}
    BY <1>4, <2>3, <2>4 DEF Named, k
  <2> QED
    BY <1>1, <1>2, <2>3, <2>4, <2>5 DEF k
<1> QED
  BY <1>3, <1>4

\* COMMIT shows the versions and the log entries at once, and what the log
\* says of a row is what the row was and became.
LEMMA CommitLog ==
    ASSUME LogInv, NEW r \in Requests, pc[r] = "commit", NEW a \in {"ok", "error"}, Commit(r, a)
    PROVE  Kept(r)
<1>0. op \in Arrivals /\ TypeOK /\ Transaction(r) /\ InLog(r)
  BY Own
<1> DEFINE told == Told(r)
<1>1. /\ pending' = pending /\ seen' = seen /\ op' = op
      /\ row' = [x \in Rows |-> IF lock[x] = r THEN pending[x] ELSE row[x]]
      /\ audit' = audit \o told
      /\ lock' = [x \in Rows |-> IF lock[x] = r THEN Nobody ELSE lock[x]]
      /\ share' = [x \in Rows |-> share[x] \ {r}]
      /\ entries' = [entries EXCEPT ![r] = << >>]
      /\ pc' = [pc EXCEPT ![r] = a]
  BY ToldIsTrue DEF Commit, Committed, Release, Goto
<1>2. /\ pc'[r] = a /\ entries'[r] = << >>
      /\ \A q \in Requests \ {r} : pc'[q] = pc[q] /\ entries'[q] = entries[q]
  BY <1>0, <1>1, Types
<1>3. /\ audit \in Seq(Entry) /\ told \in Seq(Entry) /\ Len(told) \in {1, 2}
      /\ DOMAIN told = 1..Len(told)
  BY <1>0, ToldIsTrue, Types
<1>4. /\ audit' \in Seq(Entry)
      /\ Len(audit') = Len(audit) + Len(told)
      /\ SubSeq(audit', 1, Len(audit)) = audit
      /\ SubSeq(audit', Len(audit) + 1, Len(audit')) = told
  BY <1>1, <1>3, SplitConcat
<1>5. /\ \A i \in DOMAIN audit : i \in DOMAIN audit' /\ audit'[i] = audit[i]
      /\ \A i \in DOMAIN audit' :
           \/ i \in DOMAIN audit
           \/ i - Len(audit) \in DOMAIN told /\ audit'[i] = told[i - Len(audit)]
      /\ Len(audit) + 1 \in DOMAIN audit' /\ audit'[Len(audit) + 1] = told[1]
  <2> HIDE DEF told
  <2> QED
    BY <1>1, <1>3, <1>4
<1>6. TypeOK'
  <2>1. entries' \in [Requests -> Seq(Entry)]
    BY <1>0, <1>1, Types
  <2> QED
    BY <1>0, <1>1, <1>2, <1>4, <2>1, Types DEF TypeOK, Answers
<1>7. Alone(r)
  <2>1. \A i \in DOMAIN audit' : i \in DOMAIN audit \/ audit'[i].by = r
    BY <1>5, ToldIsTrue
  <2> QED
    BY <1>0, <1>1, <1>2, <1>5, <2>1, Types DEF Alone
<1>8. Transaction(r)'
  <2>1. Held(r)' /\ Seen(r)'
    BY <1>2 DEF Held, Seen, HasRow, Reads
  <2>2. Telling(r)'
    BY <1>2 DEF Telling
  <2>3. Touched(r)' = {}
    BY <1>1 DEF Touched
  <2> QED
    BY <2>1, <2>2, <2>3 DEF Transaction
<1>9. InLog(r)'
  <2>1. audit'[Len(audit) + 1].by = r /\ audit'[Len(audit) + 1].row = op'[r].row
    BY <1>1, <1>3, <1>5, ToldIsTrue
  <2> QED
    BY <1>2, <1>5, <2>1 DEF InLog
<1>10. Log!Write
  <2>1. \A x \in Audited : /\ row'[x] = IF lock[x] = r THEN pending[x] ELSE row[x]
                           /\ AuditedRows[x] = row[x] /\ AuditedRows'[x] = row'[x]
    BY <1>1 DEF AuditedRows
  <2>2. ASSUME NEW i \in DOMAIN told
        PROVE  Log!Describes(told[i], told[i].row)
    <3> DEFINE e == told[i]
    <3>1. /\ e.row \in Audited /\ e.before \in {row[e.row], Absent}
          /\ lock[e.row] = r /\ e.after = pending[e.row]
      BY <2>2, ToldIsTrue
    <3> HIDE DEF e
    <3>2. e.before \in {AuditedRows[e.row], Absent} /\ e.after = AuditedRows'[e.row]
      BY <2>1, <3>1
    <3> QED
      BY <3>2 DEF e, Log!Describes
  <2>3. ASSUME NEW x \in Audited, row'[x] # row[x]
        PROVE  \E i \in DOMAIN told : told[i].row = x
    <3>1. x \in Named(r)
      BY <1>0, <2>1, <2>3 DEF Transaction, Touched
    <3> QED
      BY <3>1, ToldIsTrue
  <2>4. Log!Added = told
    BY <1>4 DEF Log!Added
  <2> HIDE DEF told
  <2>5. Len(audit') > Len(audit)
    <3>1. Len(audit) \in Nat /\ Len(told) \in {1, 2} /\ Len(audit') = Len(audit) + Len(told)
      BY <1>3, <1>4
    <3>2. ASSUME NEW m \in Nat, NEW n \in {1, 2}
          PROVE  m + n > m
      OBVIOUS
    <3> QED
      BY <3>1, <3>2
  <2>6. DOMAIN AuditedRows = Audited /\ DOMAIN AuditedRows' = Audited
    BY DEF AuditedRows
  <2>7. \A i \in DOMAIN Log!Added :
          /\ Log!Added[i].row \in DOMAIN AuditedRows
          /\ Log!Describes(Log!Added[i], Log!Added[i].row)
          /\ \A j \in DOMAIN Log!Added : Log!Added[i].row = Log!Added[j].row => i = j
    BY <2>2, <2>4, <2>6, ToldIsTrue DEF told
  <2>8. ASSUME NEW x \in DOMAIN AuditedRows, AuditedRows'[x] # AuditedRows[x]
        PROVE  \E i \in DOMAIN Log!Added : Log!Added[i].row = x
    BY <2>1, <2>3, <2>4, <2>6, <2>8
  <2> QED
    BY <1>4, <2>5, <2>6, <2>7, <2>8 DEF Log!Write
<1> QED
  BY <1>6, <1>7, <1>8, <1>9, <1>10 DEF Kept, LogStep

\* A statement that changes neither rows nor audit rows and leaves r where it
\* is safe to go on.
LEMMA QuietLog ==
    ASSUME LogInv, NEW r \in Requests, pc[r] \notin Answers,
           NEW s \in Statements, pc' = [pc EXCEPT ![r] = s],
           UNCHANGED <<row, pending, audit, op>>,
           TypeOK', Held(r)', Seen(r)', Telling(r)', s \notin {"begin", "select"},
           \A x \in Rows : lock'[x] = lock[x] \/ (lock'[x] = r /\ lock[x] = Nobody),
           \A q \in Requests \ {r} : entries'[q] = entries[q] /\ seen'[q] = seen[q]
    PROVE  Kept(r)
<1>0. op \in Arrivals /\ TypeOK /\ Transaction(r) /\ InLog(r)
  BY Own
<1>1. pc'[r] = s /\ \A q \in Requests \ {r} : pc'[q] = pc[q]
  BY <1>0, Types
<1>2. Alone(r)
  BY <1>0, <1>1, Types DEF Alone
<1>3. Touched(r)' \subseteq Touched(r)
  BY <1>0, Types DEF Touched
<1>4. Transaction(r)'
  BY <1>0, <1>1, <1>3 DEF Transaction, Named
<1>5. InLog(r)'
  BY <1>0, <1>1 DEF InLog, Statements, Answers
<1> QED
  BY <1>2, <1>4, <1>5, NothingLogged DEF Kept

\* SELECT FOR UPDATE of the named row: what is seen is the committed version.
LEMMA SelectLog ==
    ASSUME LogInv, NEW r \in Requests, NEW s \in {"update", "select_user"}, Reads(r),
           SelectForUpdate(r, op[r].row, s)
    PROVE  Kept(r)
<1>0. op \in Arrivals /\ TypeOK /\ Transaction(r)
  BY Own
<1> DEFINE x == op[r].row
<1>1. CASE Commit(r, "not_found")
  BY <1>1, NotFoundLog DEF SelectForUpdate
<1>2. CASE /\ row[x] # Absent
           /\ lock' = [lock EXCEPT ![x] = r] /\ seen' = [seen EXCEPT ![r] = row[x]]
           /\ Goto(r, s) /\ UNCHANGED <<row, pending, share, audit, entries, op>>
  <2>1. /\ x \in Audited /\ x \in Rows /\ row[x] \in Value
        /\ lock[x] \in {Nobody, r} /\ pc[r] = "select"
    BY <1>0, <1>2, RequestFacts, Types DEF SelectForUpdate, CanLockForUpdate, CanLock
  <2>2. pending[x] = row[x]
    BY <1>0, <2>1, Types DEF Transaction, Touched
  <2>3. /\ pc' = [pc EXCEPT ![r] = s] /\ pc'[r] = s /\ seen'[r] = row[x] /\ lock'[x] = r
        /\ \A y \in Rows : y # x => lock'[y] = lock[y]
        /\ \A q \in Requests \ {r} : pc'[q] = pc[q] /\ seen'[q] = seen[q]
    BY <1>0, <1>2, <2>1, Types DEF Goto
  <2>4. TypeOK'
    <3>1. \A y \in Rows : lock'[y] = Nobody => pending'[y] = row'[y]
      BY <1>0, <1>2, <2>1, <2>3, Types
    <3>2. \A q \in Requests :
            pc'[q] \in Answers => /\ entries'[q] = << >>
                                  /\ \A y \in Rows : lock'[y] # q /\ q \notin share'[y]
      BY <1>0, <1>2, <2>1, <2>3, Types DEF Answers
    <3>3. /\ lock' \in [Rows -> Requests \cup {Nobody}]
          /\ seen' \in [Requests -> Value \cup {Absent}]
          /\ pc' \in [Requests -> Statements \cup Answers]
      BY <1>0, <1>2, <2>1, <2>3, Types DEF Statements
    <3> QED
      BY <1>0, <1>2, <3>1, <3>2, <3>3, Types DEF TypeOK
  <2>5. Held(r)'
    BY <1>2, <2>1, <2>2, <2>3 DEF Held, Holds
  <2>6. Seen(r)'
    BY <1>2, <2>1, <2>3 DEF Seen
  <2>7. Telling(r)'
    BY <1>0, <1>2, <2>1, <2>3 DEF Transaction, Telling
  <2>8. \A y \in Rows : lock'[y] = lock[y] \/ (lock'[y] = r /\ lock[y] = Nobody)
    BY <2>1, <2>3
  <2> HIDE DEF x
  <2> QED
    BY <1>2, <2>1, <2>3, <2>4, <2>5, <2>6, <2>7, <2>8, QuietLog DEF Statements, Answers
<1> QED
  BY <1>1, <1>2 DEF SelectForUpdate

\* SELECT FOR UPDATE of a credential's user.
LEMMA SelectUserLog ==
    ASSUME LogInv, NEW r \in Requests, op[r].kind \in {"deactivate", "rotate"},
           SelectUserForUpdate(r)
    PROVE  Kept(r)
<1>0. op \in Arrivals /\ TypeOK /\ Transaction(r)
  BY Own
<1> DEFINE u == Parent[op[r].row]
<1>1. /\ u \in Rows /\ lock[u] \in {Nobody, r} /\ pc[r] = "select_user"
      /\ lock' = [lock EXCEPT ![u] = r] /\ pc' = [pc EXCEPT ![r] = "update"]
      /\ UNCHANGED <<row, pending, share, audit, entries, seen, op>>
  BY <1>0, RequestFacts DEF SelectUserForUpdate, CanLockForUpdate, CanLock, Goto
<1> HIDE DEF u
<1>2. /\ pc'[r] = "update" /\ lock'[u] = r
      /\ \A y \in Rows : y # u => lock'[y] = lock[y]
      /\ \A q \in Requests \ {r} : pc'[q] = pc[q]
  BY <1>0, <1>1, Types
<1>3. TypeOK'
  <2>1. \A y \in Rows : lock'[y] = Nobody => pending'[y] = row'[y]
    BY <1>0, <1>1, <1>2, Types
  <2>2. \A q \in Requests :
          pc'[q] \in Answers => /\ entries'[q] = << >>
                                /\ \A y \in Rows : lock'[y] # q /\ q \notin share'[y]
    BY <1>0, <1>1, <1>2, Types DEF Answers
  <2>3. /\ lock' \in [Rows -> Requests \cup {Nobody}]
        /\ pc' \in [Requests -> Statements \cup Answers]
    BY <1>0, <1>1, Types DEF Statements
  <2> QED
    BY <1>0, <1>1, <2>1, <2>2, <2>3, Types DEF TypeOK
<1>4. Held(r)'
  <2>1. Holds(r, op[r].row) /\ op[r].row \in Rows
    BY <1>0, <1>1, RequestFacts DEF Transaction, Held, HasRow, Reads
  <2> QED
    BY <1>1, <1>2, <2>1 DEF Held, Holds
<1>5. Seen(r)'
  BY <1>0, <1>1, <1>2 DEF Transaction, Seen, HasRow, Reads
<1>6. Telling(r)'
  BY <1>0, <1>1, <1>2 DEF Transaction, Telling
<1>7. \A y \in Rows : lock'[y] = lock[y] \/ (lock'[y] = r /\ lock[y] = Nobody)
  BY <1>1, <1>2
<1> QED
  BY <1>1, <1>3, <1>4, <1>5, <1>6, <1>7, QuietLog DEF Statements, Answers

\* The foreign key check of an insert.
LEMMA ReferenceLog ==
    ASSUME LogInv, NEW r \in Requests,
           op[r].kind \in {"create_account", "upsert_subscription", "upsert_risk_settings"},
           Reference(r, op[r].row, "audit")
    PROVE  Kept(r)
<1>0. op \in Arrivals /\ TypeOK /\ Transaction(r) /\ pc[r] = "reference"
  BY Own DEF Reference
<1> DEFINE u == Parent[op[r].row]
<1>1. CASE Rollback(r, "not_found")
  BY <1>0, <1>1, RollbackLog DEF Answers
<1>2. CASE /\ share' = [share EXCEPT ![u] = @ \cup {r}]
           /\ Goto(r, "audit") /\ UNCHANGED <<row, pending, lock, audit, entries, seen, op>>
  <2>1. /\ u \in Rows /\ pc' = [pc EXCEPT ![r] = "audit"] /\ pc'[r] = "audit"
        /\ \A q \in Requests \ {r} : pc'[q] = pc[q]
    BY <1>0, <1>2, RequestFacts, Types DEF Goto
  <2>2. TypeOK'
    <3>1. \A q \in Requests :
            pc'[q] \in Answers => /\ entries'[q] = << >>
                                  /\ \A y \in Rows : lock'[y] # q /\ q \notin share'[y]
      BY <1>0, <1>2, <2>1, Types DEF Answers
    <3>2. /\ share' \in [Rows -> SUBSET Requests]
          /\ pc' \in [Requests -> Statements \cup Answers]
      BY <1>0, <1>2, <2>1, Types DEF Statements
    <3> QED
      BY <1>0, <1>2, <3>1, <3>2, Types DEF TypeOK
  <2>3. Held(r)'
    BY <1>0, <1>2, <2>1 DEF Transaction, Held, HasRow, Holds
  <2>4. Seen(r)'
    BY <1>2 DEF Seen, Reads
  <2>5. Telling(r)'
    BY <1>0, <1>2, <2>1 DEF Transaction, Telling
  <2> QED
    BY <1>0, <1>2, <2>1, <2>2, <2>3, <2>4, <2>5, QuietLog DEF Statements, Answers
<1> QED
  BY <1>1, <1>2 DEF Reference

\* The audit insert tells what the request has seen and written.
LEMMA InsertAuditLog ==
    ASSUME LogInv, NEW r \in Requests, InsertAudit(r, Told(r))
    PROVE  Kept(r)
<1>0. op \in Arrivals /\ TypeOK /\ Transaction(r) /\ Held(r) /\ Seen(r) /\ pc[r] = "audit"
  BY Own DEF InsertAudit
<1>1. /\ entries' = [entries EXCEPT ![r] = Told(r)] /\ pc' = [pc EXCEPT ![r] = "commit"]
      /\ UNCHANGED <<row, pending, lock, share, audit, seen, op>>
  BY DEF InsertAudit, Goto
<1>2. Told(r) \in Seq(Entry)
  <2> DEFINE k == op[r].row
             n == op[r].new
  <2>1. /\ k \in Rows /\ View(r, k) \in Value /\ seen[r] \in Value \cup {Absent}
    BY <1>0, RequestFacts, Types DEF Held, HasRow, Holds, View
  <2>2. op[r].kind = "rotate" => n \in Rows /\ View(r, n) \in Value
    BY <1>0, RequestFacts DEF Held, Holds, View
  <2>3. \A b \in Value \cup {Absent} : Describe(r, k, b) \in Entry
    BY <2>1 DEF Describe, Entry
  <2>4. op[r].kind = "rotate" => Describe(r, n, Absent) \in Entry
    BY <2>2 DEF Describe, Entry
  <2> HIDE DEF k, n
  <2>5. <<Describe(r, k, IF Reads(r) THEN seen[r] ELSE Absent)>> \in Seq(Entry)
    BY <2>1, <2>3
  <2>6. op[r].kind = "rotate" =>
          <<Describe(r, k, seen[r]), Describe(r, n, Absent)>> \in Seq(Entry)
    BY <2>1, <2>3, <2>4
  <2> QED
    BY <2>5, <2>6 DEF Told, k, n
<1>3. /\ pc'[r] = "commit" /\ entries'[r] = Told(r)
      /\ \A q \in Requests \ {r} : pc'[q] = pc[q] /\ entries'[q] = entries[q]
  BY <1>0, <1>1, Types
<1>4. TypeOK'
  <2>1. \A q \in Requests :
          pc'[q] \in Answers => /\ entries'[q] = << >>
                                /\ \A y \in Rows : lock'[y] # q /\ q \notin share'[y]
    BY <1>0, <1>1, <1>3, Types DEF Answers
  <2>2. /\ entries' \in [Requests -> Seq(Entry)]
        /\ pc' \in [Requests -> Statements \cup Answers]
    BY <1>0, <1>1, <1>2, Types DEF Statements
  <2> QED
    BY <1>0, <1>1, <2>1, <2>2, Types DEF TypeOK
<1>5. Held(r)'
  BY <1>0, <1>1, <1>3 DEF Held, HasRow, Holds
<1>6. Seen(r)'
  BY <1>0, <1>1, <1>3 DEF Seen, HasRow, Reads
<1>7. Telling(r)'
  BY <1>1, <1>3 DEF Telling, Told, Describe, View, Reads
<1> QED
  BY <1>0, <1>1, <1>3, <1>4, <1>5, <1>6, <1>7, QuietLog DEF Statements, Answers

\* A new version of z, which the request names or which is not audited.
LEMMA PutLog ==
    ASSUME LogInv, NEW r \in Requests, NEW z \in Rows, NEW v \in Value, CanLock(r, z),
           z \in Named(r) \/ z \notin Audited,
           Put(r, z, v),
           pc[r] \in {"upsert_user", "password", "insert", "upsert", "update", "replace"},
           NEW s \in {"password", "insert", "reference", "replace", "audit"},
           pc' = [pc EXCEPT ![r] = s], UNCHANGED <<row, share, audit, entries, seen, op>>,
           s \in {"reference", "replace", "audit"} => z = op[r].row \/ HasRow(r),
           Reads(r) => HasRow(r),
           s = "audit" /\ op[r].kind = "rotate" => z = op[r].new
    PROVE  Kept(r)
<1>0. /\ op \in Arrivals /\ TypeOK /\ Held(r) /\ Seen(r) /\ Telling(r) /\ InLog(r)
      /\ Touched(r) \subseteq Named(r)
  BY Own
<1>1. /\ lock' = [lock EXCEPT ![z] = r] /\ pending' = [pending EXCEPT ![z] = v]
      /\ lock[z] \in {Nobody, r}
  BY DEF Put, CanLock
<1>2. /\ pc'[r] = s /\ lock'[z] = r /\ pending'[z] = v
      /\ \A y \in Rows : y # z => lock'[y] = lock[y] /\ pending'[y] = pending[y]
      /\ \A q \in Requests \ {r} : pc'[q] = pc[q]
  BY <1>0, <1>1, Types
<1>3. TypeOK'
  <2>1. ASSUME NEW y \in Rows, lock'[y] = Nobody
        PROVE  pending'[y] = row'[y]
    <3>1. y # z
      BY <1>2, <2>1
    <3>2. lock[y] = Nobody /\ pending'[y] = pending[y] /\ row' = row
      BY <1>2, <2>1, <3>1
    <3> QED
      BY <1>0, <3>2, Types
  <2>2. \A q \in Requests :
          pc'[q] \in Answers => /\ entries'[q] = << >>
                                /\ \A y \in Rows : lock'[y] # q /\ q \notin share'[y]
    BY <1>0, <1>2, Types DEF Answers
  <2>3. /\ lock' \in [Rows -> Requests \cup {Nobody}]
        /\ pending' \in [Rows -> Value \cup {Absent}]
        /\ pc' \in [Requests -> Statements \cup Answers]
    BY <1>0, <1>1, Types DEF Statements
  <2> QED
    BY <1>0, <2>1, <2>2, <2>3, Types DEF TypeOK
<1>4. Alone(r)
  BY <1>0, <1>1, <1>2, Types DEF Alone
<1>5. Held(r)'
  <2>1. HasRow(r)' => Holds(r, op[r].row)'
    <3>1. op[r].row \in Rows
      BY <1>0, RequestFacts
    <3>2. HasRow(r)' => z = op[r].row \/ HasRow(r)
      BY <1>2 DEF HasRow, Reads
    <3> QED
      BY <1>0, <1>2, <3>1, <3>2 DEF Held, Holds
  <2>2. s = "audit" /\ op[r].kind = "rotate" => Holds(r, op[r].new)'
    BY <1>2 DEF Holds
  <2> QED
    BY <1>2, <2>1, <2>2 DEF Held
<1>6. Seen(r)'
  BY <1>0 DEF Seen, Reads
<1>7. Telling(r)'
  BY <1>0, <1>2 DEF Telling
<1>8. Touched(r)' \subseteq Named(r)
  <2>1. ASSUME NEW y \in Audited, lock'[y] = r, pending'[y] # row'[y]
        PROVE  y \in Named(r)
    BY <1>0, <1>2, <2>1 DEF Touched
  <2> QED
    BY <2>1 DEF Touched
<1>9. Transaction(r)'
  BY <1>2, <1>5, <1>6, <1>7, <1>8 DEF Transaction, Named
<1>10. InLog(r)'
  BY <1>0, <1>2 DEF InLog
<1> QED
  BY <1>3, <1>4, <1>9, <1>10, NothingLogged DEF Kept

\* Any statement that writes a row the request names.
LEMMA WriteLog ==
    ASSUME LogInv, NEW r \in Requests, NEW z \in Rows, NEW v \in Value,
           z \in Named(r) \/ z \notin Audited,
           pc[r] \in {"password", "insert", "upsert", "update", "replace"},
           NEW s \in {"insert", "reference", "replace", "audit"},
           s \in {"reference", "replace", "audit"} => z = op[r].row \/ HasRow(r),
           Reads(r) => HasRow(r),
           s = "audit" /\ op[r].kind = "rotate" => z = op[r].new,
           Write(r, z, v, s)
    PROVE  Kept(r)
<1>1. CASE Rollback(r, "conflict")
  BY <1>1, RollbackLog DEF Answers
<1>2. CASE Put(r, z, v) /\ Goto(r, s) /\ UNCHANGED <<row, share, audit, entries, seen, op>>
  BY <1>2, PutLog DEF Write, Goto
<1> QED
  BY <1>1, <1>2 DEF Write

\* The user of a new credential is switched on.
LEMMA UpsertActiveUserLog ==
    ASSUME LogInv, NEW r \in Requests, op[r].kind = "create_credential", UpsertActiveUser(r)
    PROVE  Kept(r)
<1>0. /\ op \in Arrivals /\ op[r].user \in Rows \ Audited /\ op[r].value \in Value
      /\ pc[r] = "upsert_user" /\ ~Reads(r)
  BY Own, RequestFacts DEF UpsertActiveUser, Reads
<1> DEFINE v == [on |-> TRUE, data |-> op[r].value.data]
           s == IF op[r].password # Nobody THEN "password" ELSE "insert"
<1>1. CASE Rollback(r, "conflict")
  BY <1>0, <1>1, RollbackLog DEF Answers
<1>2. CASE /\ Put(r, op[r].user, v) /\ Goto(r, s)
           /\ UNCHANGED <<row, share, audit, entries, seen, op>>
  <2>1. v \in Value
    BY <1>0 DEF Value
  <2>2. s \in {"password", "insert"}
    OBVIOUS
  <2>3. pc' = [pc EXCEPT ![r] = s] /\ CanLock(r, op[r].user)
    BY <1>2 DEF Goto, UpsertActiveUser
  <2> HIDE DEF v, s
  <2> QED
    BY <1>0, <1>2, <2>1, <2>2, <2>3, PutLog
<1> QED
  BY <1>1, <1>2 DEF UpsertActiveUser

-----------------------------------------------------------------------------
(* The handlers are made of these statements.                              *)

\* The end of a transaction.
LEMMA FinishLog ==
    ASSUME LogInv, NEW r \in Requests, CommitTransaction(r)
    PROVE  Kept(r)
BY CommitLog DEF CommitTransaction

\* The update of a relationship or an account.
LEMMA UpdateLog ==
    ASSUME LogInv, NEW r \in Requests,
           op[r].kind \in {"update_relationship", "update_account"}, Update(r)
    PROVE  Kept(r)
<1> DEFINE x == op[r].row
           v == Patched(View(r, x), op[r].patch)
<1>1. /\ pc[r] = "update" /\ Reads(r) /\ HasRow(r) /\ x \in Rows /\ x \in Named(r)
      /\ op[r].patch \in Patches /\ lock[x] = r /\ pending[x] \in Value
  BY Own, RequestFacts DEF Update, Reads, HasRow, Held, Holds, Named
<1>2. v \in Value
  BY <1>1, PatchedIsValue DEF View
<1>3. Write(r, x, v, "audit")
  BY DEF Update
<1> HIDE DEF v
<1> QED
  BY <1>1, <1>2, <1>3, WriteLog

\* Deactivation, and the first half of a rotation.
LEMMA SwitchOffLog ==
    ASSUME LogInv, NEW r \in Requests, NEW a \in {"unchanged", "conflict"}, NEW s,
           \/ op[r].kind = "deactivate" /\ s = "audit"
           \/ op[r].kind = "rotate" /\ s = "replace",
           SwitchOff(r, a, s)
    PROVE  Kept(r)
<1> DEFINE x == op[r].row
           v == [seen[r] EXCEPT !.on = FALSE]
<1>1. /\ pc[r] = "update" /\ Reads(r) /\ HasRow(r) /\ x \in Rows /\ x \in Named(r)
      /\ seen[r] \in Value
  BY Own, RequestFacts DEF SwitchOff, Reads, HasRow, Seen, Named
<1>2. v \in Value
  BY <1>1 DEF Value
<1>3. CASE Rollback(r, a)
  BY <1>1, <1>3, RollbackLog DEF Answers
<1>4. CASE Write(r, x, v, s)
  <2> HIDE DEF v
  <2> QED
    BY <1>1, <1>2, <1>4, WriteLog
<1> QED
  BY <1>3, <1>4 DEF SwitchOff

\* Every step of the relationship handlers.
LEMMA RelationshipLog ==
    ASSUME LogInv, NEW r \in Requests, RelationshipStep(r)
    PROVE  Kept(r)
<1> DEFINE x == op[r].row
<1>0. op \in Arrivals /\ x \in Rows /\ x \in Named(r)
  BY Own, RequestFacts DEF Named
<1>1. ASSUME op[r].kind \in {"create_relationship", "create_account",
                             "upsert_subscription", "upsert_risk_settings"}
      PROVE  /\ ~Reads(r) /\ op[r].kind # "rotate" /\ op[r].value \in Value
             /\ <<Describe(r, x, Absent)>> = Told(r)
  BY <1>0, <1>1, RequestFacts DEF Reads, Told
<1>2. ASSUME op[r].kind \in {"update_relationship", "update_account"}
      PROVE  /\ Reads(r) /\ op[r].kind # "rotate"
             /\ <<Describe(r, x, seen[r])>> = Told(r)
  BY <1>2 DEF Reads, Told
<1>3. CASE CreateRelationship(r)
  <2>1. op[r].kind = "create_relationship"
    BY <1>3 DEF CreateRelationship
  <2>2. CASE pc[r] = "insert" /\ Write(r, x, op[r].value, "audit")
    BY <1>0, <1>1, <2>1, <2>2, WriteLog
  <2>3. CASE Begin(r, "insert")
    BY <1>1, <2>1, <2>3, BeginLog
  <2>4. CASE InsertAudit(r, <<Describe(r, x, Absent)>>)
    BY <1>1, <2>1, <2>4, InsertAuditLog
  <2> QED
    BY <1>3, <2>2, <2>3, <2>4, FinishLog DEF CreateRelationship
<1>4. CASE UpdateRelationship(r) \/ UpdateExchangeAccount(r)
  <2>1. op[r].kind \in {"update_relationship", "update_account"}
    BY <1>4 DEF UpdateRelationship, UpdateExchangeAccount
  <2>2. CASE Begin(r, "select")
    BY <1>2, <2>1, <2>2, BeginLog
  <2>3. CASE SelectForUpdate(r, x, "update")
    BY <1>2, <2>1, <2>3, SelectLog
  <2>4. CASE InsertAudit(r, <<Describe(r, x, seen[r])>>)
    BY <1>2, <2>1, <2>4, InsertAuditLog
  <2> QED
    BY <1>4, <2>1, <2>2, <2>3, <2>4, UpdateLog, FinishLog
    DEF UpdateRelationship, UpdateExchangeAccount
<1>5. CASE CreateExchangeAccount(r)
  <2>1. op[r].kind = "create_account"
    BY <1>5 DEF CreateExchangeAccount
  <2>2. CASE pc[r] = "insert" /\ Write(r, x, op[r].value, "reference")
    BY <1>0, <1>1, <2>1, <2>2, WriteLog
  <2>3. CASE Begin(r, "insert")
    BY <1>1, <2>1, <2>3, BeginLog
  <2>4. CASE InsertAudit(r, <<Describe(r, x, Absent)>>)
    BY <1>1, <2>1, <2>4, InsertAuditLog
  <2>5. CASE Reference(r, x, "audit")
    BY <2>1, <2>5, ReferenceLog
  <2> QED
    BY <1>5, <2>2, <2>3, <2>4, <2>5, FinishLog DEF CreateExchangeAccount
<1>6. CASE UpsertSubscription(r) \/ UpsertRiskSettings(r)
  <2>1. op[r].kind \in {"upsert_subscription", "upsert_risk_settings"}
    BY <1>6 DEF UpsertSubscription, UpsertRiskSettings
  <2>2. CASE Upsert(r, x, op[r].value)
    <3> DEFINE s == IF View(r, x) = Absent THEN "reference" ELSE "audit"
    <3>1. s \in {"reference", "audit"}
      OBVIOUS
    <3>2. pc[r] = "upsert" /\ Write(r, x, op[r].value, s)
      BY <2>2 DEF Upsert
    <3> HIDE DEF s
    <3> QED
      BY <1>0, <1>1, <2>1, <3>1, <3>2, WriteLog
  <2>3. CASE Begin(r, "upsert")
    BY <1>1, <2>1, <2>3, BeginLog
  <2>4. CASE InsertAudit(r, <<Describe(r, x, Absent)>>)
    BY <1>1, <2>1, <2>4, InsertAuditLog
  <2>5. CASE Reference(r, x, "audit")
    BY <2>1, <2>5, ReferenceLog
  <2> QED
    BY <1>6, <2>2, <2>3, <2>4, <2>5, FinishLog
    DEF UpsertSubscription, UpsertRiskSettings, UpsertRow
<1> QED
  BY <1>3, <1>4, <1>5, <1>6 DEF RelationshipStep

\* Every step of the credential handlers.
LEMMA CredentialLog ==
    ASSUME LogInv, NEW r \in Requests, CredentialStep(r)
    PROVE  Kept(r)
<1> DEFINE k == op[r].row
<1>0. op \in Arrivals /\ k \in Rows /\ k \in Named(r)
  BY Own, RequestFacts DEF Named
<1>1. CASE CreateAdminCredential(r)
  <2>1. /\ op[r].kind = "create_credential" /\ ~Reads(r) /\ op[r].value \in Value
        /\ <<Describe(r, k, Absent)>> = Told(r)
    BY <1>0, <1>1, RequestFacts DEF CreateAdminCredential, Reads, Told
  <2>2. CASE Begin(r, "upsert_user")
    BY <2>1, <2>2, BeginLog
  <2>3. CASE UpsertPassword(r)
    <3>1. op[r].password \in Rows \ Audited
      BY <1>0, <2>1, <2>3, RequestFacts DEF UpsertPassword
    <3> QED
      BY <2>1, <2>3, <3>1, WriteLog DEF UpsertPassword
  <2>4. CASE pc[r] = "insert" /\ Write(r, k, op[r].value, "audit")
    BY <1>0, <2>1, <2>4, WriteLog
  <2>5. CASE InsertAudit(r, <<Describe(r, k, Absent)>>)
    BY <2>1, <2>5, InsertAuditLog
  <2> QED
    BY <1>1, <2>1, <2>2, <2>3, <2>4, <2>5, UpsertActiveUserLog, FinishLog
    DEF CreateAdminCredential
<1>2. CASE DeactivateAdminCredential(r)
  <2>1. /\ op[r].kind = "deactivate" /\ Reads(r)
        /\ <<Describe(r, k, seen[r])>> = Told(r)
    BY <1>2 DEF DeactivateAdminCredential, Reads, Told
  <2>2. CASE Begin(r, "select")
    BY <2>1, <2>2, BeginLog
  <2>3. CASE SelectForUpdate(r, k, "select_user")
    BY <2>1, <2>3, SelectLog
  <2>4. CASE InsertAudit(r, <<Describe(r, k, seen[r])>>)
    BY <2>1, <2>4, InsertAuditLog
  <2>5. CASE SwitchOff(r, "unchanged", "audit")
    BY <2>1, <2>5, SwitchOffLog
  <2> QED
    BY <1>2, <2>1, <2>2, <2>3, <2>4, <2>5, SelectUserLog, FinishLog
    DEF DeactivateAdminCredential
<1>3. CASE RotateAdminCredential(r)
  <2>1. /\ op[r].kind = "rotate" /\ Reads(r) /\ op[r].value \in Value
        /\ op[r].new \in Rows /\ op[r].new \in Named(r)
        /\ <<Describe(r, k, seen[r]), Describe(r, op[r].new, Absent)>> = Told(r)
    BY <1>0, <1>3, RequestFacts DEF RotateAdminCredential, Reads, Told, Named
  <2>2. CASE Begin(r, "select")
    BY <2>1, <2>2, BeginLog
  <2>3. CASE SelectForUpdate(r, k, "select_user")
    BY <2>1, <2>3, SelectLog
  <2>4. CASE InsertAudit(r, <<Describe(r, k, seen[r]), Describe(r, op[r].new, Absent)>>)
    BY <2>1, <2>4, InsertAuditLog
  <2>5. CASE SwitchOff(r, "conflict", "replace")
    BY <2>1, <2>5, SwitchOffLog
  <2>6. CASE pc[r] = "replace" /\ Write(r, op[r].new, op[r].value, "audit")
    <3>1. HasRow(r)
      BY <2>1, <2>6 DEF HasRow
    <3> QED
      BY <2>1, <2>6, <3>1, WriteLog
  <2> QED
    BY <1>3, <2>1, <2>2, <2>3, <2>4, <2>5, <2>6, SelectUserLog, FinishLog
    DEF RotateAdminCredential
<1> QED
  BY <1>1, <1>2, <1>3 DEF CredentialStep

-----------------------------------------------------------------------------

\* What every step of a request keeps.
LEMMA StepKept ==
    ASSUME LogInv, NEW r \in Requests, RequestStep(r) \/ LoseConnection(r)
    PROVE  Kept(r)
<1>1. CASE RequestStep(r)
  BY <1>1, RelationshipLog, CredentialLog DEF RequestStep
<1>2. CASE LoseConnection(r)
  BY <1>2, RollbackLog, CommitLog DEF LoseConnection, Answers
<1> QED
  BY <1>1, <1>2

\* The invariant is inductive, and under it each step is one of the log's.
LEMMA LogKept == LogInv /\ [Next]_vars => LogInv' /\ LogStep
<1> SUFFICES ASSUME LogInv, [Next]_vars
             PROVE  LogInv' /\ LogStep
  OBVIOUS
<1>1. KeyInv'
  BY KeyStep DEF LogInv
<1>2. ASSUME NEW r \in Requests, Kept(r)
      PROVE  LogInv' /\ LogStep
  BY <1>1, <1>2, OthersKeep DEF LogInv, Kept
<1>3. CASE UNCHANGED vars
  <2>1. ASSUME NEW r \in Requests
        PROVE  Transaction(r)' /\ InLog(r)'
    <3>1. Transaction(r) /\ InLog(r)
      BY Own
    <3>2. Transaction(r)'
      BY <1>3, <3>1 DEF vars, Transaction, Held, Seen, Telling, Touched, Named, Told, Describe,
                        View, HasRow, Reads, Holds
    <3>3. InLog(r)'
      BY <1>3, <3>1 DEF vars, InLog
    <3> QED
      BY <3>2, <3>3
  <2>2. TypeOK'
    BY <1>3 DEF vars, LogInv, TypeOK
  <2>3. LogStep
    BY <1>3, NothingLogged DEF vars
  <2> QED
    BY <1>1, <2>1, <2>2, <2>3 DEF LogInv
<1> QED
  BY <1>2, <1>3, StepKept DEF Next

\* Nothing is written or logged at first.
LEMMA Init_LogInv == Init => LogInv /\ Log!Init
<1> SUFFICES ASSUME Init
             PROVE  LogInv /\ Log!Init
  OBVIOUS
<1>1. KeyInv /\ Log!Init
  BY Init_KeyInv DEF Init, Log!Init
<1>2. TypeOK
  <2>1. row \in [Rows -> Value \cup {Absent}]
    BY DEF Init
  <2>2. audit \in Seq(Entry) /\ entries \in [Requests -> Seq(Entry)]
    BY DEF Init
  <2>3. \A r \in Requests : pc[r] = "begin"
    BY DEF Init
  <2> QED
    BY <2>1, <2>2, <2>3 DEF Init, TypeOK, Statements, Answers
<1>3. ASSUME NEW r \in Requests
      PROVE  Transaction(r) /\ InLog(r)
  <2>1. pc[r] = "begin" /\ entries[r] = << >> /\ audit = << >> /\ row = pending
    BY DEF Init
  <2>2. Held(r) /\ Seen(r) /\ Telling(r)
    BY <2>1 DEF Held, Seen, Telling, HasRow, Reads
  <2>3. Touched(r) = {}
    BY <2>1 DEF Touched
  <2>4. InLog(r)
    BY <2>1 DEF InLog
  <2> QED
    BY <2>2, <2>3, <2>4 DEF Transaction
<1> QED
  BY <1>1, <1>2, <1>3 DEF LogInv

\* What a transaction has seen, locked, written and told holds in every state.
THEOREM LogInvariant == Spec => []LogInv
BY Init_LogInv, LogKept, PTL DEF Spec

\* Rows, versions and answers have their types; a row without a lock has no
\* second version, and an answered request holds nothing.
THEOREM WritesTypeCorrect == Spec => []TypeOK
<1>1. LogInv => TypeOK
  BY DEF LogInv
<1> QED
  BY <1>1, LogInvariant, PTL

\* The writing handlers implement the abstract log: audited rows change only
\* together with audit rows that describe them, in the same COMMIT.
THEOREM HandlersKeepAuditedLog == Spec => KeepsAuditedLog
<1>1. LogInv /\ [Next]_vars => [Log!Write]_<<AuditedRows, audit>>
  BY LogKept DEF LogStep
<1>2. Init => Log!Init
  BY Init_LogInv
<1> QED
  BY <1>1, <1>2, LogInvariant, PTL DEF Spec, KeepsAuditedLog, Log!Spec

-----------------------------------------------------------------------------
(* The log as a history.                                                   *)

\* Audit rows tell of audited rows, and each one of a row that is followed
\* continues the one before it.
HistoryInv ==
    /\ \A i \in DOMAIN audit : audit[i].row \in Audited
    /\ AuditIsHistory

\* What a step of the log does to the sequence of audit rows.
LEMMA LogGrows ==
    ASSUME TypeOK, TypeOK', Log!Write
    PROVE  /\ Len(audit) \in Nat /\ Len(audit') \in Nat /\ Len(audit) < Len(audit')
           /\ DOMAIN audit = 1..Len(audit) /\ DOMAIN audit' = 1..Len(audit')
           /\ \A i \in DOMAIN audit : audit'[i] = audit[i]
           /\ \A i \in DOMAIN audit' \ DOMAIN audit :
                /\ audit'[i].row \in Audited
                /\ audit'[i].before \in {row[audit'[i].row], Absent}
                /\ audit'[i].after = row'[audit'[i].row]
                /\ \A j \in DOMAIN audit' \ DOMAIN audit :
                     audit'[i].row = audit'[j].row => i = j
           /\ \A x \in Audited : row'[x] # row[x] =>
                \E i \in DOMAIN audit' \ DOMAIN audit : audit'[i].row = x
<1> DEFINE n == Len(audit)
           m == Len(audit')
<1>1. audit \in Seq(Entry) /\ audit' \in Seq(Entry)
  BY DEF TypeOK
<1>2. n \in Nat /\ m \in Nat /\ n < m /\ DOMAIN audit = 1..n /\ DOMAIN audit' = 1..m
  BY <1>1 DEF Log!Write
<1>3. SubSeq(audit', 1, n) = audit
  BY DEF Log!Write
<1>4. \A i \in DOMAIN audit : audit'[i] = audit[i]
  <2>1. \A i \in 1..n : SubSeq(audit', 1, n)[i] = audit'[i]
    BY <1>1, <1>2
  <2> QED
    BY <1>2, <1>3, <2>1
<1>5. /\ DOMAIN Log!Added = 1..(m - n)
      /\ \A i \in 1..(m - n) : Log!Added[i] = audit'[n + i]
  BY <1>1, <1>2 DEF Log!Added
<1>6. \A i \in DOMAIN audit' \ DOMAIN audit :
        i - n \in DOMAIN Log!Added /\ Log!Added[i - n] = audit'[i]
  BY <1>2, <1>5
<1>7. DOMAIN AuditedRows = Audited
      /\ \A x \in Audited : AuditedRows[x] = row[x] /\ AuditedRows'[x] = row'[x]
  BY DEF AuditedRows
<1>8. ASSUME NEW i \in DOMAIN audit' \ DOMAIN audit
      PROVE  /\ audit'[i].row \in Audited
             /\ audit'[i].before \in {row[audit'[i].row], Absent}
             /\ audit'[i].after = row'[audit'[i].row]
  BY <1>6, <1>7 DEF Log!Write, Log!Describes
<1>9. ASSUME NEW i \in DOMAIN audit' \ DOMAIN audit, NEW j \in DOMAIN audit' \ DOMAIN audit,
             audit'[i].row = audit'[j].row
      PROVE  i = j
  <2>1. i - n = j - n
    BY <1>6, <1>9 DEF Log!Write
  <2> QED
    BY <1>2, <2>1
<1>10. ASSUME NEW x \in Audited, row'[x] # row[x]
       PROVE  \E i \in DOMAIN audit' \ DOMAIN audit : audit'[i].row = x
  <2>1. PICK i \in DOMAIN Log!Added : Log!Added[i].row = x
    BY <1>7, <1>10 DEF Log!Write
  <2>2. i \in 1..(m - n) /\ audit'[n + i].row = x
    BY <1>5, <2>1
  <2>3. n + i \in DOMAIN audit' \ DOMAIN audit
    <3> HIDE DEF n, m
    <3> QED
      BY <1>2, <2>2
  <2> QED
    BY <2>2, <2>3
<1> QED
  BY <1>2, <1>4, <1>8, <1>9, <1>10

\* A row without a new audit row is unchanged, so its last one stays true; a
\* new one follows the old last one, which tells what it found.
LEMMA HistoryStep ==
    ASSUME TypeOK, TypeOK', HistoryInv, LogStep
    PROVE  HistoryInv'
<1> DEFINE n == Len(audit)
           m == Len(audit')
<1>1. CASE UNCHANGED <<AuditedRows, audit>>
  <2>1. \A x \in Audited : row'[x] = row[x]
    <3>1. \A x \in Audited : AuditedRows[x] = row[x] /\ AuditedRows'[x] = row'[x]
      BY DEF AuditedRows
    <3> QED
      BY <1>1, <3>1
  <2> QED
    BY <1>1, <2>1 DEF HistoryInv, AuditIsHistory, Log!History, Log!LastBefore, AuditedRows
<1>2. CASE Log!Write
  <2>1. /\ n \in Nat /\ m \in Nat /\ n < m /\ DOMAIN audit = 1..n /\ DOMAIN audit' = 1..m
        /\ \A i \in 1..n : audit'[i] = audit[i] /\ audit[i].row \in Audited
    BY <1>2, LogGrows DEF HistoryInv
  <2>2. ASSUME NEW i \in 1..m
        PROVE  audit'[i].row \in Audited
    BY <1>2, <2>1, LogGrows
  <2>3. ASSUME NEW i \in 1..n, audit[i].row \in Followed,
               \A k \in 1..n : i < k => audit[k].row # audit[i].row
        PROVE  audit[i].after = row[audit[i].row]
    <3>1. Log!LastBefore(i, n + 1)
      BY <2>1, <2>3 DEF Log!LastBefore
    <3>2. audit[i].after = AuditedRows[audit[i].row]
      BY <2>1, <2>3, <3>1 DEF HistoryInv, AuditIsHistory, Log!History
    <3> QED
      BY <2>1, <3>2 DEF AuditedRows
  <2>4. ASSUME NEW i \in 1..m, audit'[i].row \in Followed,
               \A k \in 1..m : i < k => audit'[k].row # audit'[i].row
        PROVE  audit'[i].after = row'[audit'[i].row]
    <3>1. CASE i \in 1..n
      <4>1. audit[i].after = row[audit[i].row]
        BY <2>1, <2>3, <2>4, <3>1
      <4>2. row'[audit[i].row] = row[audit[i].row]
        BY <1>2, <2>1, <2>4, <3>1, LogGrows
      <4> QED
        BY <2>1, <3>1, <4>1, <4>2
    <3>2. CASE i \notin 1..n
      BY <1>2, <2>1, <3>2, LogGrows
    <3> QED
      BY <3>1, <3>2
  <2>5. ASSUME NEW i \in 1..m, NEW j \in 1..m, i < j, audit'[j].row = audit'[i].row,
               audit'[i].row \in Followed,
               \A k \in 1..m : i < k /\ k < j => audit'[k].row # audit'[i].row
        PROVE  audit'[j].before \in {audit'[i].after, Absent}
    <3>1. CASE j \in 1..n
      <4>1. i \in 1..n /\ audit[j].row = audit[i].row /\ Log!LastBefore(i, j)
        BY <2>1, <2>5, <3>1 DEF Log!LastBefore
      <4>2. audit[j].before \in {audit[i].after, Absent}
        BY <2>1, <2>5, <3>1, <4>1 DEF HistoryInv, AuditIsHistory, Log!History
      <4> QED
        BY <2>1, <3>1, <4>1, <4>2
    <3>2. CASE j \notin 1..n /\ i \in 1..n
      <4>1. audit[i].after = row[audit[i].row]
        BY <2>1, <2>3, <2>5, <3>2
      <4>2. audit'[j].before \in {row[audit'[j].row], Absent}
        BY <1>2, <2>1, <3>2, LogGrows
      <4> QED
        BY <2>1, <2>5, <3>2, <4>1, <4>2
    <3>3. CASE j \notin 1..n /\ i \notin 1..n
      BY <1>2, <2>1, <2>5, <3>3, LogGrows
    <3> QED
      BY <3>1, <3>2, <3>3
  <2>6. AuditIsHistory'
    <3>1. ASSUME NEW i \in 1..m, audit'[i].row \in Followed,
                 Log!LastBefore(i, Len(audit) + 1)'
          PROVE  audit'[i].after = AuditedRows'[audit'[i].row]
      <4>1. \A k \in 1..m : i < k => audit'[k].row # audit'[i].row
        BY <2>1, <3>1 DEF Log!LastBefore
      <4> QED
        BY <2>2, <2>4, <3>1, <4>1 DEF AuditedRows
    <3>2. ASSUME NEW i \in 1..m, NEW j \in 1..m, audit'[i].row \in Followed,
                 i < j /\ audit'[j].row = audit'[i].row /\ Log!LastBefore(i, j)'
          PROVE  audit'[j].before \in {audit'[i].after, Absent}
      BY <2>1, <2>5, <3>2 DEF Log!LastBefore
    <3> QED
      BY <2>1, <3>1, <3>2 DEF AuditIsHistory, Log!History
  <2> QED
    BY <2>1, <2>2, <2>6 DEF HistoryInv
<1> QED
  BY <1>1, <1>2 DEF LogStep

\* Whatever requests overlap and whichever connections break, the audit rows
\* of each row that is no credential follow on one another up to what the row
\* holds now.
THEOREM LogIsHistory == Spec => []AuditIsHistory
<1>1. Init => HistoryInv
  BY DEF Init, HistoryInv, AuditIsHistory, Log!History
<1>2. LogInv /\ LogInv' /\ HistoryInv /\ [Next]_vars => HistoryInv'
  BY LogKept, HistoryStep DEF LogInv
<1>3. HistoryInv => AuditIsHistory
  BY DEF HistoryInv
<1> QED
  BY <1>1, <1>2, <1>3, LogInvariant, PTL DEF Spec

\* Success has its audit row; not found, conflict and "already inactive" have
\* committed nothing, whatever the other requests and connections do.
THEOREM AnswersAreTrue == Spec => []AnswerIsTrue
<1>1. LogInv => AnswerIsTrue
  BY DEF LogInv, InLog, AnswerIsTrue
<1> QED
  BY <1>1, LogInvariant, PTL
-----------------------------------------------------------------------------
(* No circle of waiting requests.  The order in which a request takes its  *)
(* locks depends on its kind, so no order of the tables explains why there *)
(* is none.  What does is that whoever has a lock another may wait for is  *)
(* further on (Level): accounts wait for the user's row, the credentials'  *)
(* handlers that have it wait for nobody.  WaitInv says which locks a      *)
(* request may have at each statement.                                     *)

\* The statements of each handler.
AtStatement(r) ==
    LET kind == op[r].kind IN
    /\ pc[r] = "select" => Reads(r)
    /\ pc[r] \in {"select_user", "replace"} => kind \in {"deactivate", "rotate"}
    /\ pc[r] = "replace" => kind = "rotate"
    /\ pc[r] = "update" => Reads(r)
    /\ pc[r] = "reference" =>
         kind \in {"create_account", "upsert_subscription", "upsert_risk_settings"}
    /\ pc[r] = "insert" =>
         kind \in {"create_relationship", "create_account", "create_credential"}
    /\ pc[r] \in {"upsert_user", "password"} => kind = "create_credential"
    /\ pc[r] = "password" => op[r].password # Nobody

\* The rows r may have locked by now.
MayHold(r, x) ==
    LET o == op[r] IN
    \/ x = o.row /\ HasRow(r)
    \/ /\ o.kind \in {"deactivate", "rotate"} /\ x = Parent[o.row]
       /\ pc[r] \in {"update", "replace", "audit", "commit"}
    \/ o.kind = "rotate" /\ x = o.new /\ pc[r] \in {"audit", "commit"}
    \/ /\ o.kind = "create_credential" /\ x = o.user
       /\ pc[r] \in {"password", "insert", "audit", "commit"}
    \/ /\ o.kind = "create_credential" /\ x = o.password /\ o.password # Nobody
       /\ pc[r] \in {"insert", "audit", "commit"}

Locking(r) == \A x \in Rows : lock[x] = r => MayHold(r, x)

Sharing(r) == \A x \in Rows : r \in share[x] => pc[r] \in {"audit", "commit"}

\* A row is locked before it is changed.
Unwritten(r) ==
    Reads(r) /\ pc[r] \in {"select_user", "update"} => pending[op[r].row] = row[op[r].row]

WaitState(r) == AtStatement(r) /\ Locking(r) /\ Sharing(r) /\ Unwritten(r)

\* Where r is on the way to COMMIT: whoever waits, waits for somebody further.
Level(r) ==
    CASE pc[r] \in {"audit", "commit", "replace"} -> 4
      [] pc[r] = "insert" /\ op[r].kind = "create_credential" -> 4
      [] pc[r] = "update" /\ op[r].kind \in {"deactivate", "rotate"} -> 4
      [] pc[r] = "update" /\ op[r].kind = "update_relationship" -> 3
      [] pc[r] = "password" -> 3
      [] pc[r] = "reference" -> 2
      [] pc[r] = "update" /\ op[r].kind = "update_account" -> 1
      [] pc[r] = "select_user" -> 1
      [] OTHER -> 0

WaitInv == LogInv /\ \A r \in Requests : WaitState(r)

\* What a request names, by table.
LEMMA SchemaFacts ==
    ASSUME op \in Arrivals, NEW r \in Requests
    PROVE  /\ Table[op[r].row] = TableOf(op[r].kind)
           /\ op[r].kind = "rotate" => Table[op[r].new] = "credentials"
           /\ op[r].kind = "create_credential" =>
                /\ Table[op[r].user] = "users"
                /\ op[r].password # Nobody => Table[op[r].password] = "passwords"
           /\ \A x \in Creates(op[r]) : \A q \in Requests \ {r} : x \notin Creates(op[q])
<1>1. /\ Table[op[r].row] = TableOf(op[r].kind)
      /\ op[r].kind = "rotate" => Table[op[r].new] = "credentials"
      /\ op[r].kind = "create_credential" =>
           /\ Table[op[r].user] = "users"
           /\ op[r].password # Nobody => Table[op[r].password] = "passwords"
  BY SchemaAssumption
<1>2. \A x \in Creates(op[r]) : \A q \in Requests \ {r} : x \notin Creates(op[q])
  BY ArrivalAssumption
<1> QED
  BY <1>1, <1>2

-----------------------------------------------------------------------------
(* What a statement of r does to locks: the request ends, or goes on to s  *)
(* with at most the rows Z locked in addition.                             *)

SharesStay(r) == \A x \in Rows : share'[x] \subseteq share[x] \cup {r}

Ends(r) == pc'[r] \in Answers /\ SharesStay(r)

Moves(r, s, Z) ==
    /\ pc'[r] = s /\ op' = op /\ SharesStay(r)
    /\ \A x \in Rows : lock'[x] = r => lock[x] = r \/ x \in Z
    /\ s \in {"audit", "commit"} \/ share' = share

\* Rollback and commit.
LEMMA AnswerEnds ==
    ASSUME TypeOK, NEW r \in Requests, NEW a \in Answers, Rollback(r, a) \/ Commit(r, a)
    PROVE  Ends(r)
BY Types DEF Rollback, Commit, Release, Goto, Ends, SharesStay

\* INSERT and UPDATE.
LEMMA WriteMoves ==
    ASSUME TypeOK, NEW r \in Requests, NEW x \in Rows, NEW v, NEW s, Write(r, x, v, s)
    PROVE  Ends(r) \/ Moves(r, s, {x})
<1>1. CASE Rollback(r, "conflict")
  BY <1>1, AnswerEnds DEF Answers
<1>2. CASE Put(r, x, v) /\ Goto(r, s) /\ UNCHANGED <<share, op>>
  BY <1>2, Types DEF Put, Goto, Moves, SharesStay
<1> QED
  BY <1>1, <1>2 DEF Write

\* SELECT FOR UPDATE locks a row that nobody has.
LEMMA SelectMoves ==
    ASSUME TypeOK, NEW r \in Requests, NEW x \in Rows, NEW s, SelectForUpdate(r, x, s)
    PROVE  /\ pc[r] = "select"
           /\ \/ Ends(r)
              \/ Moves(r, s, {x}) /\ lock[x] \in {Nobody, r} /\ UNCHANGED <<row, pending>>
<1>1. CASE Commit(r, "not_found")
  BY <1>1, AnswerEnds DEF Answers, SelectForUpdate
<1>2. CASE ~Commit(r, "not_found")
  BY <1>2, Types DEF SelectForUpdate, CanLockForUpdate, CanLock, Goto, Moves, SharesStay
<1> QED
  BY <1>1, <1>2

\* The statements that lock nothing, or the user's row.
LEMMA OtherMoves ==
    ASSUME TypeOK, op \in Arrivals, NEW r \in Requests
    PROVE  /\ \A s : Begin(r, s) => Moves(r, s, {})
           /\ \A es : InsertAudit(r, es) => Moves(r, "commit", {})
           /\ \A x : Reference(r, x, "audit") => Ends(r) \/ Moves(r, "audit", {})
           /\ CommitTransaction(r) => Ends(r)
           /\ SelectUserForUpdate(r) =>
                Moves(r, "update", {Parent[op[r].row]}) /\ UNCHANGED <<row, pending>>
           /\ UpsertActiveUser(r) =>
                \/ Ends(r)
                \/ op[r].password # Nobody /\ Moves(r, "password", {op[r].user})
                \/ Moves(r, "insert", {op[r].user})
<1>1. \A s : Begin(r, s) => Moves(r, s, {})
  BY Types DEF Begin, Goto, Moves, SharesStay
<1>2. \A es : InsertAudit(r, es) => Moves(r, "commit", {})
  BY Types DEF InsertAudit, Goto, Moves, SharesStay
<1>3. ASSUME NEW x, Reference(r, x, "audit")
      PROVE  Ends(r) \/ Moves(r, "audit", {})
  <2>1. CASE Rollback(r, "not_found")
    BY <2>1, AnswerEnds DEF Answers
  <2>2. CASE ~Rollback(r, "not_found")
    <3>1. /\ share' = [share EXCEPT ![Parent[x]] = @ \cup {r}]
          /\ pc' = [pc EXCEPT ![r] = "audit"] /\ UNCHANGED <<lock, op>>
      BY <1>3, <2>2 DEF Reference, Goto
    <3>2. SharesStay(r)
      BY <3>1, Types DEF SharesStay
    <3> QED
      BY <3>1, <3>2, Types DEF Moves
  <2> QED
    BY <2>1, <2>2
<1>4. CommitTransaction(r) => Ends(r)
  BY AnswerEnds DEF CommitTransaction, Answers
<1>5. SelectUserForUpdate(r) =>
        Moves(r, "update", {Parent[op[r].row]}) /\ UNCHANGED <<row, pending>>
  BY Types DEF SelectUserForUpdate, Goto, Moves, SharesStay
<1>6. ASSUME UpsertActiveUser(r)
      PROVE  \/ Ends(r)
             \/ op[r].password # Nobody /\ Moves(r, "password", {op[r].user})
             \/ Moves(r, "insert", {op[r].user})
  <2>1. CASE Rollback(r, "conflict")
    BY <2>1, AnswerEnds DEF Answers
  <2>2. CASE ~Rollback(r, "conflict")
    BY <1>6, <2>2, Types DEF UpsertActiveUser, Put, Goto, Moves, SharesStay
  <2> QED
    BY <2>1, <2>2
<1> QED
  BY <1>1, <1>2, <1>3, <1>4, <1>5, <1>6

-----------------------------------------------------------------------------
(* What a request's own steps do to its part of the invariant.             *)

\* An answered request has no locks.
LEMMA EndKeeps ==
    ASSUME TypeOK', NEW r \in Requests, Ends(r)
    PROVE  WaitState(r)'
BY DEF TypeOK, Ends, Answers, WaitState, AtStatement, Locking, Sharing, Unwritten

\* A request that goes on keeps the locks it had.
LEMMA MoveKeeps ==
    ASSUME NEW r \in Requests, WaitState(r), NEW s, NEW Z, Moves(r, s, Z),
           pc[r] \in {"audit", "commit"} => s \in {"audit", "commit"},
           \A x \in Rows : MayHold(r, x) \/ x \in Z => MayHold(r, x)',
           AtStatement(r)', Unwritten(r)'
    PROVE  WaitState(r)'
<1>1. Locking(r)'
  BY DEF WaitState, Locking, Moves
<1>2. Sharing(r)'
  BY DEF WaitState, Sharing, Moves
<1> QED
  BY <1>1, <1>2 DEF WaitState

\* BEGIN, before a first statement of the handler's.
LEMMA BeginWaits ==
    ASSUME WaitInv, NEW r \in Requests, NEW s, Begin(r, s),
           \/ s = "insert" /\ op[r].kind \in {"create_relationship", "create_account"}
           \/ s = "upsert"
           \/ s = "select" /\ Reads(r)
           \/ s = "upsert_user" /\ op[r].kind = "create_credential"
    PROVE  WaitState(r)'
<1>0. TypeOK /\ op \in Arrivals /\ WaitState(r)
  BY DEF WaitInv, LogInv, KeyInv
<1>1. Moves(r, s, {}) /\ pc[r] = "begin" /\ pc'[r] = s /\ op' = op
  BY <1>0, OtherMoves DEF Moves, Begin
<1>2. AtStatement(r)' /\ Unwritten(r)'
  BY <1>1 DEF AtStatement, Unwritten, Reads
<1>3. \A x \in Rows : ~MayHold(r, x)
  BY <1>1 DEF MayHold, HasRow
<1> QED
  BY <1>0, <1>1, <1>2, <1>3, MoveKeeps

\* SELECT FOR UPDATE finds the row as it is committed.
LEMMA SelectWaits ==
    ASSUME WaitInv, TypeOK', NEW r \in Requests, NEW s, SelectForUpdate(r, op[r].row, s),
           \/ s = "update" /\ op[r].kind \in {"update_relationship", "update_account"}
           \/ s = "select_user" /\ op[r].kind \in {"deactivate", "rotate"}
    PROVE  WaitState(r)'
<1>0. TypeOK /\ op \in Arrivals /\ WaitState(r) /\ op[r].row \in Rows
  BY RequestFacts DEF WaitInv, LogInv, KeyInv
<1>1. pc[r] = "select"
  BY <1>0, SelectMoves
<1>2. \A x \in Rows : lock[x] # r
  BY <1>0, <1>1 DEF WaitState, Locking, MayHold, HasRow
<1>3. CASE /\ Moves(r, s, {op[r].row}) /\ lock[op[r].row] \in {Nobody, r}
           /\ UNCHANGED <<row, pending>>
  <2>1. pc'[r] = s /\ op' = op
    BY <1>3 DEF Moves
  <2>2. AtStatement(r)'
    BY <2>1 DEF AtStatement, Reads
  <2>3. Unwritten(r)'
    BY <1>0, <1>2, <1>3, <2>1, Types DEF Unwritten
  <2>4. \A x \in Rows : MayHold(r, x) \/ x \in {op[r].row} => MayHold(r, x)'
    BY <1>1, <2>1 DEF MayHold, HasRow, Reads
  <2> QED
    BY <1>0, <1>1, <1>3, <2>2, <2>3, <2>4, MoveKeeps
<1> QED
  BY <1>0, <1>3, SelectMoves, EndKeeps

\* A statement that may lock row z and is followed by one that is no update.
LEMMA StatementWaits ==
    ASSUME WaitInv, TypeOK', NEW r \in Requests, NEW s, NEW Z, Ends(r) \/ Moves(r, s, Z),
           pc[r] \in {"audit", "commit"} => s \in {"audit", "commit"},
           s \notin {"select_user", "update"},
           Moves(r, s, Z) => /\ AtStatement(r)'
                             /\ \A x \in Rows : MayHold(r, x) \/ x \in Z => MayHold(r, x)'
    PROVE  WaitState(r)'
<1>1. Moves(r, s, Z) => Unwritten(r)'
  BY DEF Moves, Unwritten
<1> QED
  BY <1>1, EndKeeps, MoveKeeps DEF WaitInv

\* A write that is followed by statement s.
LEMMA WriteWaits ==
    ASSUME WaitInv, TypeOK', NEW r \in Requests, NEW z \in Rows, NEW v, NEW s, Write(r, z, v, s),
           \/ /\ z = op[r].row /\ s = "audit"
              /\ \/ pc[r] \in {"insert", "upsert"}
                 \/ pc[r] = "update" /\ op[r].kind # "rotate"
           \/ /\ z = op[r].row /\ s = "reference" /\ pc[r] \in {"insert", "upsert"}
              /\ op[r].kind \in {"create_account", "upsert_subscription", "upsert_risk_settings"}
           \/ /\ z = op[r].row /\ s = "replace" /\ pc[r] = "update" /\ op[r].kind = "rotate"
           \/ /\ z = op[r].new /\ s = "audit" /\ pc[r] = "replace" /\ op[r].kind = "rotate"
           \/ /\ z = op[r].password /\ s = "insert" /\ pc[r] = "password"
              /\ op[r].kind = "create_credential"
    PROVE  WaitState(r)'
<1>0. TypeOK /\ AtStatement(r)
  BY DEF WaitInv, LogInv, WaitState
<1>1. Ends(r) \/ Moves(r, s, {z})
  BY <1>0, WriteMoves
<1>2. ASSUME Moves(r, s, {z})
      PROVE  /\ AtStatement(r)'
             /\ \A x \in Rows : MayHold(r, x) \/ x \in {z} => MayHold(r, x)'
  <2>1. pc'[r] = s /\ op' = op
    BY <1>2 DEF Moves
  <2>2. AtStatement(r)'
    BY <2>1 DEF AtStatement, Reads
  <2>3. \A x \in Rows : MayHold(r, x) \/ x = z => MayHold(r, x)'
    BY <1>0, <2>1 DEF MayHold, HasRow, Reads, AtStatement
  <2> QED
    BY <2>2, <2>3
<1> QED
  BY <1>1, <1>2, StatementWaits

\* The statements the handlers end with.
LEMMA LastWaits ==
    ASSUME WaitInv, TypeOK', NEW r \in Requests,
           \/ \E es : InsertAudit(r, es)
           \/ CommitTransaction(r)
           \/ LoseConnection(r)
           \/ \E x : Reference(r, x, "audit")
    PROVE  WaitState(r)'
<1>0. TypeOK /\ op \in Arrivals /\ AtStatement(r)
  BY DEF WaitInv, LogInv, WaitState, KeyInv
<1>1. CASE CommitTransaction(r) \/ LoseConnection(r)
  BY <1>0, <1>1, OtherMoves, AnswerEnds, EndKeeps DEF LoseConnection, Answers
<1>2. ASSUME NEW s \in {"audit", "commit"}, Moves(r, s, {}), pc[r] \in {"audit", "reference"}
      PROVE  WaitState(r)'
  <2>1. pc'[r] = s /\ op' = op
    BY <1>2 DEF Moves
  <2>2. AtStatement(r)'
    BY <2>1 DEF AtStatement
  <2>3. \A x \in Rows : MayHold(r, x) => MayHold(r, x)'
    BY <1>0, <1>2, <2>1 DEF MayHold, HasRow, Reads, AtStatement
  <2> QED
    BY <1>2, <2>2, <2>3, StatementWaits
<1>3. CASE \E es : InsertAudit(r, es)
  BY <1>0, <1>2, <1>3, OtherMoves DEF InsertAudit
<1>4. CASE \E x : Reference(r, x, "audit")
  <2>1. pc[r] = "reference"
    BY <1>4 DEF Reference
  <2>2. Ends(r) \/ Moves(r, "audit", {})
    BY <1>0, <1>4, OtherMoves
  <2> QED
    BY <1>2, <2>1, <2>2, EndKeeps
<1> QED
  BY <1>1, <1>3, <1>4

\* The user's row, locked first by a creation and second by the others.
LEMMA UserWaits ==
    ASSUME WaitInv, TypeOK', NEW r \in Requests,
           \/ op[r].kind = "create_credential" /\ UpsertActiveUser(r)
           \/ op[r].kind \in {"deactivate", "rotate"} /\ SelectUserForUpdate(r)
    PROVE  WaitState(r)'
<1>0. TypeOK /\ op \in Arrivals /\ WaitState(r)
  BY DEF WaitInv, LogInv, KeyInv
<1>1. CASE op[r].kind \in {"deactivate", "rotate"} /\ SelectUserForUpdate(r)
  <2>1. /\ Moves(r, "update", {Parent[op[r].row]}) /\ UNCHANGED <<row, pending>>
        /\ pc[r] = "select_user"
    BY <1>0, <1>1, OtherMoves DEF SelectUserForUpdate
  <2>2. pc'[r] = "update" /\ op' = op
    BY <2>1 DEF Moves
  <2>3. AtStatement(r)' /\ Unwritten(r)'
    BY <1>0, <1>1, <2>1, <2>2 DEF AtStatement, Unwritten, WaitState, Reads
  <2>4. \A x \in Rows : MayHold(r, x) \/ x \in {Parent[op[r].row]} => MayHold(r, x)'
    BY <1>1, <2>1, <2>2 DEF MayHold, HasRow, Reads
  <2> QED
    BY <1>0, <2>1, <2>3, <2>4, MoveKeeps
<1>2. ASSUME NEW s \in {"password", "insert"}, Moves(r, s, {op[r].user}),
             op[r].kind = "create_credential", pc[r] = "upsert_user",
             s = "password" => op[r].password # Nobody
      PROVE  WaitState(r)'
  <2>1. pc'[r] = s /\ op' = op
    BY <1>2 DEF Moves
  <2>2. AtStatement(r)'
    BY <1>2, <2>1 DEF AtStatement
  <2>3. \A x \in Rows : MayHold(r, x) \/ x \in {op[r].user} => MayHold(r, x)'
    BY <1>2, <2>1 DEF MayHold, HasRow, Reads
  <2> QED
    BY <1>2, <2>2, <2>3, StatementWaits
<1>3. CASE op[r].kind = "create_credential" /\ UpsertActiveUser(r)
  <2>1. pc[r] = "upsert_user"
    BY <1>3 DEF UpsertActiveUser
  <2>2. \/ Ends(r)
        \/ op[r].password # Nobody /\ Moves(r, "password", {op[r].user})
        \/ Moves(r, "insert", {op[r].user})
    BY <1>0, <1>3, OtherMoves
  <2> QED
    BY <1>2, <1>3, <2>1, <2>2, EndKeeps
<1> QED
  BY <1>1, <1>3

\* Every statement of every handler.
LEMMA OwnWaits ==
    ASSUME WaitInv, TypeOK', NEW r \in Requests, RequestStep(r) \/ LoseConnection(r)
    PROVE  WaitState(r)'
<1> USE BeginWaits, SelectWaits, WriteWaits, LastWaits, UserWaits
<1>0. op[r].row \in Rows
  BY RequestFacts DEF WaitInv, LogInv, KeyInv
<1>1. CASE CreateRelationship(r)
  BY <1>0, <1>1 DEF CreateRelationship
<1>2. CASE UpdateRelationship(r) \/ UpdateExchangeAccount(r)
  BY <1>0, <1>2 DEF UpdateRelationship, UpdateExchangeAccount, Update, Reads
<1>3. CASE CreateExchangeAccount(r)
  BY <1>0, <1>3 DEF CreateExchangeAccount
<1>4. CASE UpsertSubscription(r) \/ UpsertRiskSettings(r)
  BY <1>0, <1>4 DEF UpsertSubscription, UpsertRiskSettings, UpsertRow, Upsert
<1>5. CASE CreateAdminCredential(r)
  <2>1. ASSUME UpsertPassword(r), op[r].kind = "create_credential"
        PROVE  WaitState(r)'
    <3>1. op[r].password \in Rows
      BY <2>1, OperationFacts DEF UpsertPassword, WaitInv, LogInv, KeyInv
    <3> QED
      BY <2>1, <3>1 DEF UpsertPassword
  <2> QED
    BY <1>0, <1>5, <2>1 DEF CreateAdminCredential
<1>6. ASSUME NEW a \in Answers, NEW s, SwitchOff(r, a, s),
             \/ s = "audit" /\ op[r].kind = "deactivate"
             \/ s = "replace" /\ op[r].kind = "rotate"
      PROVE  WaitState(r)'
  <2>1. CASE Rollback(r, a)
    BY <2>1, AnswerEnds, EndKeeps DEF WaitInv, LogInv
  <2>2. CASE ~Rollback(r, a)
    BY <1>0, <1>6, <2>2 DEF SwitchOff
  <2> QED
    BY <2>1, <2>2
<1>7. CASE DeactivateAdminCredential(r)
  BY <1>0, <1>6, <1>7 DEF DeactivateAdminCredential, Reads, Answers
<1>8. CASE RotateAdminCredential(r)
  <2>1. op[r].new \in Rows
    BY <1>8, RequestFacts DEF RotateAdminCredential, WaitInv, LogInv, KeyInv
  <2> QED
    BY <1>0, <1>6, <1>8, <2>1 DEF RotateAdminCredential, Reads, Answers
<1>9. CASE LoseConnection(r)
  BY <1>9
<1> QED
  BY <1>1, <1>2, <1>3, <1>4, <1>5, <1>7, <1>8, <1>9
     DEF RequestStep, RelationshipStep, CredentialStep

\* What r does leaves the locks of the others, and the rows under them.
LEMMA OthersWait ==
    ASSUME WaitInv, NEW r \in Requests, Alone(r), SharesStay(r), NEW q \in Requests, q # r
    PROVE  WaitState(q)'
<1>0. TypeOK /\ op \in Arrivals /\ WaitState(q) /\ Held(q) /\ op[q].row \in Rows
  BY Own, RequestFacts DEF WaitInv
<1>1. /\ pc'[q] = pc[q] /\ op' = op
      /\ \A x \in Rows : lock'[x] = q => lock[x] = q
      /\ \A x \in Rows : lock[x] = q => row'[x] = row[x] /\ pending'[x] = pending[x]
      /\ \A x \in Rows : q \in share'[x] => q \in share[x]
  BY <1>0, Types DEF Alone, SharesStay
<1>2. AtStatement(q)'
  BY <1>0, <1>1 DEF WaitState, AtStatement, Reads
<1>3. Locking(q)'
  BY <1>0, <1>1 DEF WaitState, Locking, MayHold, HasRow, Reads
<1>4. Sharing(q)'
  BY <1>0, <1>1 DEF WaitState, Sharing
<1>5. Unwritten(q)'
  BY <1>0, <1>1 DEF WaitState, Unwritten, Held, HasRow, Holds, Reads
<1> QED
  BY <1>2, <1>3, <1>4, <1>5 DEF WaitState

\* Only the share locks of r change.
LEMMA SharesOfOthers ==
    ASSUME TypeOK, op \in Arrivals, NEW r \in Requests, RequestStep(r) \/ LoseConnection(r)
    PROVE  SharesStay(r)
<1>1. \A a : Rollback(r, a) \/ Commit(r, a) => SharesStay(r)
  BY Types DEF Rollback, Commit, Release, SharesStay
<1>2. share' = share => SharesStay(r)
  BY DEF SharesStay
<1>3. \A x, v, s : Write(r, x, v, s) => SharesStay(r)
  BY <1>1, <1>2 DEF Write
<1>4. \A x, s : SelectForUpdate(r, x, s) => SharesStay(r)
  BY <1>1, <1>2 DEF SelectForUpdate
<1>5. \A x : Reference(r, x, "audit") => SharesStay(r)
  BY OtherMoves DEF Ends, Moves
<1>6. \A s, es : Begin(r, s) \/ InsertAudit(r, es) => SharesStay(r)
  BY <1>2 DEF Begin, InsertAudit
<1>7. CommitTransaction(r) \/ LoseConnection(r) => SharesStay(r)
  BY <1>1 DEF CommitTransaction, LoseConnection
<1>8. SelectUserForUpdate(r) \/ UpsertActiveUser(r) => SharesStay(r)
  BY <1>1, <1>2 DEF SelectUserForUpdate, UpsertActiveUser
<1>9. \A a, s : SwitchOff(r, a, s) => SharesStay(r)
  BY <1>1, <1>3 DEF SwitchOff
<1> USE <1>3, <1>4, <1>5, <1>6, <1>7, <1>8, <1>9
<1>10. RelationshipStep(r) => SharesStay(r)
  BY DEF RelationshipStep, CreateRelationship, UpdateRelationship, Update,
         CreateExchangeAccount, UpdateExchangeAccount, UpsertSubscription, UpsertRiskSettings,
         UpsertRow, Upsert
<1>11. CredentialStep(r) => SharesStay(r)
  BY DEF CredentialStep, CreateAdminCredential, UpsertPassword, DeactivateAdminCredential,
         RotateAdminCredential
<1> QED
  BY <1>10, <1>11 DEF RequestStep

\* The invariant is inductive.
LEMMA WaitKept == WaitInv /\ [Next]_vars => WaitInv'
<1> SUFFICES ASSUME WaitInv, [Next]_vars
             PROVE  WaitInv'
  OBVIOUS
<1>1. LogInv' /\ TypeOK'
  BY LogKept DEF WaitInv, LogInv
<1>2. ASSUME NEW r \in Requests, RequestStep(r) \/ LoseConnection(r), NEW q \in Requests
      PROVE  WaitState(q)'
  <2>1. Alone(r) /\ SharesStay(r)
    BY <1>2, StepKept, SharesOfOthers DEF Kept, WaitInv, LogInv, KeyInv
  <2> QED
    BY <1>1, <1>2, <2>1, OwnWaits, OthersWait
<1>3. CASE UNCHANGED vars
  <2>1. ASSUME NEW q \in Requests
        PROVE  WaitState(q)'
    <3>1. WaitState(q)
      BY DEF WaitInv
    <3> QED
      BY <1>3, <3>1 DEF vars, WaitState, AtStatement, Locking, MayHold, HasRow, Reads,
                        Sharing, Unwritten
  <2> QED
    BY <1>1, <2>1 DEF WaitInv
<1> QED
  BY <1>1, <1>2, <1>3 DEF Next, WaitInv

\* Nobody has a lock at first.
LEMMA Init_WaitInv == Init => WaitInv
<1> SUFFICES ASSUME Init
             PROVE  WaitInv
  OBVIOUS
<1>1. LogInv
  BY Init_LogInv
<1>2. ASSUME NEW r \in Requests
      PROVE  WaitState(r)
  BY DEF Init, WaitState, AtStatement, Locking, Sharing, Unwritten
<1> QED
  BY <1>1, <1>2 DEF WaitInv

\* At every statement a request has the locks of the rows it has passed.
THEOREM WaitInvariant == Spec => []WaitInv
BY Init_WaitInv, WaitKept, PTL DEF Spec

-----------------------------------------------------------------------------
(* Waiting leads upwards.                                                  *)

\* Level is a number of 0..4; whoever has a lock is above 0, whoever shares
\* one at the top.
LEMMA HoldersAreUp ==
    ASSUME WaitInv, NEW q \in Requests, NEW x \in Rows
    PROVE  /\ Level(q) \in 0..4
           /\ lock[x] = q => MayHold(q, x) /\ Level(q) > 0
           /\ q \in share[x] => Level(q) = 4
<1>1. AtStatement(q) /\ Locking(q) /\ Sharing(q)
  BY DEF WaitInv, WaitState
<1>2. Level(q) \in 0..4
  BY DEF Level
<1>3. MayHold(q, x) => Level(q) > 0
  BY <1>1 DEF MayHold, HasRow, Reads, AtStatement, Level
<1>4. q \in share[x] => Level(q) = 4
  BY <1>1 DEF Sharing, Level
<1> QED
  BY <1>1, <1>2, <1>3, <1>4 DEF Locking

\* The user's row is held by handlers of credentials, those of subscriptions
\* and accounts share it: only a creation that waits for a password holds it
\* without being at the top.
LEMMA UsersHeldBy ==
    ASSUME WaitInv, NEW q \in Requests, NEW x \in Rows, lock[x] = q, Table[x] = "users"
    PROVE  Level(q) >= 3 /\ (op[q].kind # "create_credential" => Level(q) = 4)
<1>1. AtStatement(q) /\ op \in Arrivals /\ MayHold(q, x)
  BY HoldersAreUp DEF WaitInv, WaitState, LogInv, KeyInv
<1>2. x # op[q].row
  BY <1>1, SchemaFacts DEF TableOf
<1>3. op[q].kind = "rotate" => x # op[q].new
  BY <1>1, SchemaFacts
<1> QED
  BY <1>1, <1>2, <1>3, SchemaFacts DEF MayHold, AtStatement, Level

\* A relationship is held by its own handlers.
LEMMA RelationshipsHeldBy ==
    ASSUME WaitInv, NEW q \in Requests, NEW x \in Rows, lock[x] = q, Table[x] = "relationships"
    PROVE  Level(q) >= 3 /\ (pending[x] # row[x] => Level(q) = 4)
<1>1. /\ AtStatement(q) /\ Unwritten(q) /\ op \in Arrivals /\ MayHold(q, x)
      /\ op[q].row \in Rows
  BY HoldersAreUp, RequestFacts DEF WaitInv, WaitState, LogInv, KeyInv
<1>2. op[q].kind \in {"deactivate", "rotate"} => Table[Parent[op[q].row]] = "users"
  BY <1>1, SchemaFacts, SchemaAssumption DEF TableOf
<1>3. x = op[q].row /\ HasRow(q)
  BY <1>1, <1>2, SchemaFacts DEF MayHold
<1>4. TableOf(op[q].kind) = "relationships"
  BY <1>1, <1>3, SchemaFacts
<1>5. op[q].kind \in {"create_relationship", "update_relationship"}
  BY <1>4 DEF TableOf
<1> QED
  BY <1>1, <1>3, <1>5 DEF HasRow, Reads, AtStatement, Unwritten, Level

\* A changed account is held by a handler that is past its write.
LEMMA AccountsHeldBy ==
    ASSUME WaitInv, NEW q \in Requests, NEW x \in Rows, lock[x] = q, Table[x] = "accounts",
           pending[x] # row[x]
    PROVE  Level(q) >= 2
<1>1. /\ AtStatement(q) /\ Unwritten(q) /\ op \in Arrivals /\ MayHold(q, x)
      /\ op[q].row \in Rows
  BY HoldersAreUp, RequestFacts DEF WaitInv, WaitState, LogInv, KeyInv
<1>2. op[q].kind \in {"deactivate", "rotate"} => Table[Parent[op[q].row]] = "users"
  BY <1>1, SchemaFacts, SchemaAssumption DEF TableOf
<1>3. x = op[q].row /\ HasRow(q)
  BY <1>1, <1>2, SchemaFacts DEF MayHold
<1>4. TableOf(op[q].kind) = "accounts"
  BY <1>1, <1>3, SchemaFacts
<1>5. op[q].kind \in {"create_account", "update_account"}
  BY <1>4 DEF TableOf
<1> QED
  BY <1>1, <1>3, <1>5 DEF HasRow, Reads, AtStatement, Unwritten, Level

\* Passwords are written by creations that wait for nobody afterwards.
LEMMA PasswordsHeldBy ==
    ASSUME WaitInv, NEW q \in Requests, NEW x \in Rows, lock[x] = q, Table[x] = "passwords"
    PROVE  Level(q) = 4
<1>1. /\ AtStatement(q) /\ op \in Arrivals /\ MayHold(q, x)
      /\ op[q].row \in Rows
  BY HoldersAreUp, RequestFacts DEF WaitInv, WaitState, LogInv, KeyInv
<1>2. op[q].kind \in {"deactivate", "rotate"} => Table[Parent[op[q].row]] = "users"
  BY <1>1, SchemaFacts, SchemaAssumption DEF TableOf
<1>3. x # op[q].row
  BY <1>1, SchemaFacts DEF TableOf
<1> QED
  BY <1>1, <1>2, <1>3, SchemaFacts DEF MayHold, Level

-----------------------------------------------------------------------------
(* Created rows.  Other requests may name a row that a request creates,    *)
(* but find it only when it is committed, and lock nothing before.         *)

Creating(r) == \A x \in Creates(op[r]) : row[x] # Absent => pc[r] \in {"ok", "error"}

CreatedInv == WaitInv /\ \A r \in Requests : Creating(r)

\* What a request creates is an audited row of the request's own.
LEMMA CreatedFacts ==
    ASSUME op \in Arrivals, NEW r \in Requests, NEW x \in Creates(op[r])
    PROVE  /\ x \in Rows /\ x \in Audited
           /\ Table[x] \in {"relationships", "accounts", "credentials"}
           /\ \A q \in Requests \ {r} : x \notin Creates(op[q])
<1>1. \/ /\ x = op[r].row
         /\ op[r].kind \in {"create_relationship", "create_account", "create_credential"}
      \/ x = op[r].new /\ op[r].kind = "rotate"
  BY DEF Creates
<1>2. Table[x] \in {"relationships", "accounts", "credentials"}
  BY <1>1, SchemaFacts DEF TableOf
<1>3. \A q \in Requests \ {r} : x \notin Creates(op[q])
  BY SchemaFacts
<1> QED
  BY <1>1, <1>2, <1>3, RequestFacts

\* Nobody else locks a row before it has been created.
LEMMA CreatedHeldBy ==
    ASSUME WaitInv, NEW r \in Requests, NEW x \in Creates(op[r]), row[x] = Absent,
           NEW q \in Requests \ {r}
    PROVE  lock[x] # q
<1> SUFFICES ASSUME lock[x] = q
             PROVE  FALSE
  OBVIOUS
<1>1. /\ op \in Arrivals /\ op[q].row \in Rows /\ Seen(q)
      /\ op[q] \in RelationshipOperations \cup CredentialOperations
  BY Own, RequestFacts, ArrivalAssumption DEF WaitInv
<1>2. /\ x \in Rows /\ x \notin Creates(op[q])
      /\ Table[x] \in {"relationships", "accounts", "credentials"}
  BY <1>1, CreatedFacts
<1>3. MayHold(q, x)
  BY <1>2, HoldersAreUp
<1>4. op[q].kind \in {"deactivate", "rotate"} => Table[Parent[op[q].row]] = "users"
  BY <1>1, SchemaFacts, SchemaAssumption DEF TableOf
<1>5. x = op[q].row /\ HasRow(q)
  BY <1>1, <1>2, <1>3, <1>4, SchemaFacts DEF MayHold, Creates
<1>6. Reads(q)
  <2>1. Table[x] = TableOf(op[q].kind)
    BY <1>1, <1>5, SchemaFacts
  <2>2. op[q].kind \notin {"create_relationship", "create_account", "create_credential"}
    BY <1>2, <1>5 DEF Creates
  <2>3. op[q].kind \notin {"upsert_subscription", "upsert_risk_settings"}
    BY <1>2, <2>1 DEF TableOf
  <2> QED
    BY <1>1, <2>2, <2>3 DEF RelationshipOperations, CredentialOperations, Reads
<1> QED
  BY <1>1, <1>5, <1>6, AbsentIsNoValue DEF Seen

\* Only COMMIT changes committed rows.
LEMMA RowsByCommit ==
    ASSUME NEW r \in Requests, RequestStep(r) \/ LoseConnection(r), row' # row
    PROVE  \/ pc[r] = "select" /\ Commit(r, "not_found")
           \/ pc[r] = "commit" /\ \E a \in {"ok", "error"} : Commit(r, a)
<1>1. \A a : ~Rollback(r, a)
  BY DEF Rollback
<1>2. \A x, v, s : ~Write(r, x, v, s)
  BY <1>1 DEF Write
<1>3. \A x, s : SelectForUpdate(r, x, s) => pc[r] = "select" /\ Commit(r, "not_found")
  BY DEF SelectForUpdate
<1>4. \A x, s : ~Reference(r, x, s)
  BY <1>1 DEF Reference
<1>5. \A s, es : ~Begin(r, s) /\ ~InsertAudit(r, es)
  BY DEF Begin, InsertAudit
<1>6. ~SelectUserForUpdate(r) /\ ~UpsertActiveUser(r)
  BY <1>1 DEF SelectUserForUpdate, UpsertActiveUser
<1>7. \A a, s : ~SwitchOff(r, a, s)
  BY <1>1, <1>2 DEF SwitchOff
<1> USE <1>2, <1>3, <1>4, <1>5, <1>6, <1>7
<1>8. CASE RelationshipStep(r)
  BY <1>8 DEF RelationshipStep, CreateRelationship, UpdateRelationship, Update,
              CreateExchangeAccount, UpdateExchangeAccount, UpsertSubscription,
              UpsertRiskSettings, UpsertRow, Upsert, CommitTransaction
<1>9. CASE CredentialStep(r)
  BY <1>9 DEF CredentialStep, CreateAdminCredential, UpsertPassword,
              DeactivateAdminCredential, RotateAdminCredential, CommitTransaction
<1>10. CASE LoseConnection(r)
  BY <1>1, <1>10 DEF LoseConnection
<1> QED
  BY <1>8, <1>9, <1>10 DEF RequestStep

\* An answered request runs no statement.
LEMMA AnswersStay ==
    ASSUME NEW r \in Requests, RequestStep(r) \/ LoseConnection(r)
    PROVE  pc[r] \notin Answers
<1> USE DEF Answers
<1>1. \A s, es : Begin(r, s) \/ InsertAudit(r, es) \/ CommitTransaction(r)
        => pc[r] \in {"begin", "audit", "commit"}
  BY DEF Begin, InsertAudit, CommitTransaction
<1>2. \A x, s : SelectForUpdate(r, x, s) \/ Reference(r, x, s)
        => pc[r] \in {"select", "reference"}
  BY DEF SelectForUpdate, Reference
<1>3. CASE RelationshipStep(r)
  BY <1>1, <1>2, <1>3 DEF RelationshipStep, CreateRelationship, UpdateRelationship, Update,
     CreateExchangeAccount, UpdateExchangeAccount, UpsertSubscription, UpsertRiskSettings,
     UpsertRow, Upsert
<1>4. CASE CredentialStep(r)
  BY <1>1, <1>2, <1>4 DEF CredentialStep, CreateAdminCredential, UpsertActiveUser,
     UpsertPassword, DeactivateAdminCredential, RotateAdminCredential, SelectUserForUpdate,
     SwitchOff
<1> QED
  BY <1>3, <1>4 DEF RequestStep, LoseConnection

\* A row appears when its creator commits.
LEMMA CreatedKept == CreatedInv /\ [Next]_vars => CreatedInv'
<1> SUFFICES ASSUME CreatedInv, [Next]_vars
             PROVE  CreatedInv'
  OBVIOUS
<1>1. WaitInv'
  BY WaitKept DEF CreatedInv
<1>2. ASSUME NEW q \in Requests, RequestStep(q) \/ LoseConnection(q), NEW r \in Requests
      PROVE  Creating(r)'
  <2>1. /\ op \in Arrivals /\ TypeOK /\ Transaction(q) /\ Alone(q) /\ op' = op
    BY <1>2, StepKept, Own DEF CreatedInv, WaitInv, Kept, Alone
  <2>2. pc[q] \notin {"ok", "error"}
    BY <1>2, <2>1, AnswersStay DEF Answers
  <2>3. SUFFICES ASSUME NEW x \in Creates(op[r]), row'[x] # Absent
                 PROVE  pc'[r] \in {"ok", "error"}
    BY <2>1 DEF Creating
  <2>4. CASE row[x] # Absent
    <3>1. pc[r] \in {"ok", "error"}
      BY <2>4 DEF CreatedInv, Creating
    <3> QED
      BY <2>1, <2>2, <3>1 DEF Alone
  <2>5. CASE row[x] = Absent
    <3>1. x \in Rows /\ x \in Audited
      BY <2>1, CreatedFacts
    <3>2. PICK a : /\ Commit(q, a)
                   /\ \/ pc[q] = "select"
                      \/ pc[q] = "commit" /\ a \in {"ok", "error"}
      BY <1>2, <2>3, <2>5, RowsByCommit
    <3>3. /\ row' = [y \in Rows |-> IF lock[y] = q THEN pending[y] ELSE row[y]]
          /\ pc' = [pc EXCEPT ![q] = a]
      BY <3>2 DEF Commit, Committed, Goto
    <3>4. lock[x] = q /\ pending[x] # row[x]
      BY <2>3, <2>5, <3>1, <3>3
    <3>5. pc[q] # "select"
      BY <2>1, <3>1, <3>4 DEF Transaction, Touched
    <3>6. q = r
      BY <2>5, <3>4, CreatedHeldBy DEF CreatedInv
    <3> QED
      BY <2>1, <3>2, <3>3, <3>5, <3>6, Types
  <2> QED
    BY <2>4, <2>5
<1>3. CASE UNCHANGED vars
  BY <1>1, <1>3 DEF CreatedInv, Creating, vars
<1> QED
  BY <1>1, <1>2, <1>3 DEF CreatedInv, Next

\* Created rows are not there at first.
LEMMA Init_CreatedInv == Init => CreatedInv
<1> SUFFICES ASSUME Init, NEW r \in Requests, NEW x \in Creates(op[r])
             PROVE  row[x] = Absent
  BY Init_WaitInv DEF CreatedInv, Creating
<1> QED
  BY ArrivalAssumption DEF Init

\* A row that a request creates appears with the request's success.
THEOREM CreatedInvariant == Spec => []CreatedInv
BY Init_CreatedInv, CreatedKept, PTL DEF Spec

-----------------------------------------------------------------------------
(* Nobody waits in a circle.                                               *)

\* Whom a request waits for is further on than the request.
LEMMA WaitingClimbs ==
    ASSUME CreatedInv, NEW r \in Requests, NEW q \in Blockers(r)
    PROVE  q \in Requests /\ Level(q) > Level(r)
<1>0. /\ TypeOK /\ op \in Arrivals /\ AtStatement(r) /\ Held(r) /\ WaitInv
      /\ op[r].row \in Rows /\ Parent[op[r].row] \in Rows
  BY Own, RequestFacts DEF CreatedInv, WaitInv, WaitState, LogInv, KeyInv
<1>1. ASSUME NEW x \in Rows, q \in Holders(r, x) \cup (share[x] \ {r})
      PROVE  q \in Requests \ {r} /\ Level(q) > 0
             /\ (q \in Holders(r, x) => lock[x] = q)
             /\ (q \notin Holders(r, x) => Level(q) = 4)
  <2>1. q \in Requests \ {r} /\ (q \in Holders(r, x) => lock[x] = q)
    BY <1>0, <1>1, Types DEF Holders
  <2> QED
    BY <1>0, <1>1, <2>1, HoldersAreUp
<1>2. ASSUME pc[r] \in {"insert", "upsert", "password", "update", "replace"}
      PROVE  /\ Target(r) \in Rows
             /\ \E x \in Rows : /\ q \in Holders(r, x)
                                /\ x = Target(r)
                                   \/ (x \in Rivals[Target(r)] /\ pending[x] # row[x])
  <2>1. Target(r) \in Rows
    BY <1>0, <1>2, RequestFacts DEF Target, AtStatement
  <2>2. Rivals[Target(r)] \subseteq Rows
    BY <2>1
  <2>3. q \in Holders(r, Target(r)) \cup
              UNION {Holders(r, y) : y \in {z \in Rivals[Target(r)] : pending[z] # row[z]}}
    BY <1>2 DEF Blockers
  <2> QED
    BY <2>1, <2>2, <2>3
<1>3. CASE Level(r) = 0
  <2>1. CASE pc[r] \in {"insert", "upsert"}
    BY <1>1, <1>2, <1>3, <2>1
  <2>2. CASE pc[r] \notin {"insert", "upsert"}
    <3>1. pc[r] \in {"select", "upsert_user"}
      BY <1>0, <1>3, <2>2 DEF Blockers, Level, AtStatement, Reads
    <3>2. \E x \in Rows : q \in Holders(r, x) \cup (share[x] \ {r})
      BY <1>0, <3>1, RequestFacts DEF Blockers, AtStatement
    <3> QED
      BY <1>1, <1>3, <3>2
  <2> QED
    BY <2>1, <2>2
<1>4. CASE pc[r] = "select_user"
  <2>1. /\ Level(r) = 1 /\ Table[Parent[op[r].row]] = "users"
        /\ q \in Holders(r, Parent[op[r].row]) \cup (share[Parent[op[r].row]] \ {r})
    BY <1>0, <1>4, SchemaFacts, SchemaAssumption DEF Blockers, Level, AtStatement, TableOf
  <2> QED
    BY <1>0, <1>1, <2>1, UsersHeldBy, HoldersAreUp
<1>5. CASE pc[r] = "reference"
  <2>1. /\ Level(r) = 2 /\ Table[Parent[op[r].row]] \in {"users", "relationships"}
        /\ q \in Holders(r, Parent[op[r].row])
    BY <1>0, <1>5, SchemaFacts, SchemaAssumption DEF Blockers, Level, AtStatement, TableOf
  <2>2. q \in Requests /\ lock[Parent[op[r].row]] = q
    BY <1>0, <1>1, <2>1
  <2> QED
    BY <1>0, <2>1, <2>2, UsersHeldBy, RelationshipsHeldBy, HoldersAreUp
<1>6. CASE pc[r] = "update"
  <2>1. Target(r) = op[r].row /\ lock[op[r].row] = r /\ Reads(r)
    BY <1>0, <1>6 DEF Target, Held, HasRow, Holds, AtStatement
  <2>2. PICK x \in Rows : /\ q \in Requests /\ lock[x] = q /\ q # r
                          /\ x \in Rivals[op[r].row] /\ pending[x] # row[x]
    BY <1>0, <1>1, <1>2, <1>6, <2>1 DEF Holders
  <2>3. Table[x] = Table[op[r].row] /\ Table[x] # "credentials"
    BY <1>0, <2>1, <2>2, SchemaAssumption
  <2>4. \/ op[r].kind = "update_relationship" /\ Level(r) = 3 /\ Table[x] = "relationships"
        \/ op[r].kind = "update_account" /\ Level(r) = 1 /\ Table[x] = "accounts"
    BY <1>0, <1>6, <2>1, <2>3, SchemaFacts DEF Reads, Level, TableOf
  <2> QED
    BY <1>0, <2>2, <2>4, RelationshipsHeldBy, AccountsHeldBy, HoldersAreUp
<1>7. CASE pc[r] = "password"
  <2>1. /\ Level(r) = 3 /\ Target(r) = op[r].password /\ Table[Target(r)] = "passwords"
    BY <1>0, <1>7, SchemaFacts DEF Target, Level, AtStatement
  <2>2. q \in Requests /\ lock[Target(r)] = q
    BY <1>1, <1>2, <1>7, <2>1, SchemaAssumption
  <2> QED
    BY <1>0, <1>2, <1>7, <2>1, <2>2, PasswordsHeldBy
<1>8. CASE \/ pc[r] = "insert" /\ op[r].kind = "create_credential"
           \/ pc[r] = "replace"
  <2>1. /\ Target(r) \in Creates(op[r]) /\ Table[Target(r)] = "credentials"
        /\ row[Target(r)] = Absent
    BY <1>0, <1>8, SchemaFacts DEF Target, Creates, AtStatement, TableOf, CreatedInv, Creating
  <2>2. q \in Requests \ {r} /\ lock[Target(r)] = q
    BY <1>1, <1>2, <1>8, <2>1, SchemaAssumption
  <2> QED
    BY <1>0, <2>1, <2>2, CreatedHeldBy
<1>9. pc[r] \notin {"audit", "commit"}
  BY DEF Blockers
<1> QED
  BY <1>3, <1>4, <1>5, <1>6, <1>7, <1>8, <1>9 DEF Level

\* No circle of requests waits for one another's locks, however many there
\* are and whatever they write: PostgreSQL has no deadlock to break.
THEOREM NoCircle == Spec => []NoWaitCycle
<1>1. CreatedInv => NoWaitCycle
  <2> SUFFICES ASSUME CreatedInv, NEW S \in (SUBSET Requests) \ {{}},
                      \A r \in S : Blockers(r) \cap S # {}
               PROVE  FALSE
    BY DEF NoWaitCycle
  <2>1. \A r \in S : Level(r) \in 0..4 /\ \E q \in S : Level(q) > Level(r)
    <3> SUFFICES ASSUME NEW r \in S
                 PROVE  Level(r) \in 0..4 /\ \E q \in S : Level(q) > Level(r)
      OBVIOUS
    <3>1. PICK q \in S : q \in Blockers(r)
      OBVIOUS
    <3>2. Level(q) > Level(r)
      BY <3>1, WaitingClimbs
    <3>3. Level(r) \in 0..4
      BY DEF Level
    <3> QED
      BY <3>2, <3>3
  <2>2. \A r \in S : Level(r) # 4
    BY <2>1
  <2>3. \A r \in S : Level(r) # 3
    BY <2>1, <2>2
  <2>4. \A r \in S : Level(r) # 2
    BY <2>1, <2>2, <2>3
  <2>5. \A r \in S : Level(r) # 1
    BY <2>1, <2>2, <2>3, <2>4
  <2> QED
    BY <2>1, <2>2, <2>3, <2>4, <2>5
<1> QED
  BY <1>1, CreatedInvariant, PTL

\* Blockers names everybody a statement waits for: a request that is not
\* answered and has none is free to go on.
THEOREM UnblockedGoesOn ==
    ASSUME TypeOK, op \in Arrivals, NEW r \in Requests, Blockers(r) = {}
    PROVE  LET x == op[r].row IN
           /\ pc[r] = "select" => row[x] = Absent \/ CanLockForUpdate(r, x)
           /\ pc[r] = "select_user" => CanLockForUpdate(r, Parent[x])
           /\ pc[r] = "upsert_user" => CanLock(r, op[r].user)
           /\ pc[r] = "reference" => View(r, Parent[x]) = Absent \/ CanShare(r, Parent[x])
           /\ pc[r] \in {"insert", "upsert", "password", "update", "replace"} =>
                CanLock(r, Target(r)) /\ \A v : ~KeyUndecided(r, Target(r), v)
<1>1. pc[r] = "select" => row[op[r].row] = Absent \/ CanLockForUpdate(r, op[r].row)
  BY DEF Blockers, Holders, CanLockForUpdate, CanLock
<1>2. pc[r] = "select_user" => CanLockForUpdate(r, Parent[op[r].row])
  BY DEF Blockers, Holders, CanLockForUpdate, CanLock
<1>3. pc[r] = "upsert_user" => CanLock(r, op[r].user)
  BY DEF Blockers, Holders, CanLock
<1>4. pc[r] = "reference" =>
        View(r, Parent[op[r].row]) = Absent \/ CanShare(r, Parent[op[r].row])
  BY Types, RequestFacts DEF Blockers, Holders, CanShare
<1>5. ASSUME pc[r] \in {"insert", "upsert", "password", "update", "replace"}
      PROVE  CanLock(r, Target(r)) /\ \A v : ~KeyUndecided(r, Target(r), v)
  <2>0. {} = Holders(r, Target(r)) \cup
             UNION {Holders(r, y) : y \in {z \in Rivals[Target(r)] : pending[z] # row[z]}}
    BY <1>5 DEF Blockers
  <2>1. /\ Holders(r, Target(r)) = {}
        /\ \A y \in Rivals[Target(r)] : pending[y] # row[y] => Holders(r, y) = {}
    <3>1. ASSUME NEW y \in Rivals[Target(r)], pending[y] # row[y], NEW q \in Holders(r, y)
          PROVE  FALSE
      <4>1. Holders(r, y) \in {Holders(r, z) : z \in {w \in Rivals[Target(r)] : pending[w] # row[w]}}
        BY <3>1
      <4>2. q \in {}
        BY <2>0, <3>1, <4>1
      <4> QED
        BY <4>2
    <3> QED
      BY <2>0, <3>1
  <2>2. \A y : Holders(r, y) = {} => lock[y] \in {Nobody, r}
    BY DEF Holders
  <2>3. CanLock(r, Target(r))
    BY <2>1, <2>2 DEF CanLock
  <2>4. ASSUME NEW v, KeyUndecided(r, Target(r), v)
        PROVE  FALSE
    BY <2>1, <2>2, <2>4 DEF KeyUndecided
  <2> QED
    BY <2>3, <2>4
<1> QED
  BY <1>1, <1>2, <1>3, <1>4, <1>5

Unanswered == {r \in Requests : pc[r] \notin Answers}

SomeoneIsFree == Unanswered # {} => \E r \in Unanswered : Blockers(r) = {}

\* While requests are unanswered, one of them waits for nobody.
THEOREM SomeoneGoesOn == Spec => []SomeoneIsFree
<1>1. CreatedInv /\ NoWaitCycle => SomeoneIsFree
  <2> SUFFICES ASSUME CreatedInv, NoWaitCycle, Unanswered # {}
               PROVE  \E r \in Unanswered : Blockers(r) = {}
    BY DEF SomeoneIsFree
  <2>1. PICK r \in Unanswered : Blockers(r) \cap Unanswered = {}
    BY DEF NoWaitCycle, Unanswered
  <2>2. \A p \in Blockers(r) : p \in Unanswered
    <3> SUFFICES ASSUME NEW p \in Blockers(r)
                 PROVE  p \in Unanswered
      OBVIOUS
    <3>1. p \in Requests /\ Level(p) > Level(r) /\ Level(r) \in 0..4
      BY WaitingClimbs DEF Level, Unanswered
    <3>2. pc[p] \notin Answers
      BY <3>1 DEF Level, Answers
    <3> QED
      BY <3>1, <3>2 DEF Unanswered
  <2> QED
    BY <2>1, <2>2
<1> QED
  BY <1>1, CreatedInvariant, NoCircle, PTL

-----------------------------------------------------------------------------
(* One successor per credential.  A rotation that has switched its         *)
(* credential off holds the lock under which it was still on, so no other  *)
(* rotation of it has committed; the successor is written under that lock. *)

Changing == {"replace", "audit", "commit"}

Replacing(r) ==
    LET k == op[r].row
        n == op[r].new IN
    /\ row[n] # Absent =>
         row[k] # Absent /\ ~row[k].on /\ pc[r] \in {"ok", "error"}
    /\ row[n] = Absent /\ pending[n] # Absent => pc[r] \in {"audit", "commit"}
    /\ row[k] # Absent /\ pending[k] # row[k] => pending[k] # Absent /\ ~pending[k].on
    /\ pc[r] \in Changing => row[k].on /\ ~pending[k].on

OneReplacement ==
    \A q, r \in Rotations :
        op[q].row = op[r].row /\ row[op[q].new] # Absent /\ row[op[r].new] # Absent => q = r

\* LogInv is part of CreatedInv, and named for the proofs that need only it.
SuccessorInv == CreatedInv /\ LogInv /\ OneReplacement /\ \A r \in Rotations : Replacing(r)

\* Which requests may name the rows of a rotation.
LEMMA RotationFacts ==
    ASSUME op \in Arrivals, NEW r \in Rotations
    PROVE  /\ r \in Requests /\ op[r].kind = "rotate"
           /\ op[r].row \in Audited /\ op[r].row \in Rows
           /\ op[r].new \in Audited /\ op[r].new \in Rows
           /\ op[r].new # op[r].row
           /\ op[r].new \in Creates(op[r])
           /\ \A q \in Requests \ {r} : op[r].new \notin Creates(op[q])
           /\ Table[op[r].row] = "credentials" /\ Table[op[r].new] = "credentials"
<1>1. r \in Requests /\ op[r].kind = "rotate"
  BY DEF Rotations
<1>2. op[r].new \in Audited \ {op[r].row}
  BY <1>1, ArrivalAssumption
<1>3. op[r].new \in Creates(op[r])
  BY <1>1 DEF Creates
<1>4. \A q \in Requests \ {r} : op[r].new \notin Creates(op[q])
  BY <1>1, <1>3, CreatedFacts
<1>5. Table[op[r].row] = "credentials" /\ Table[op[r].new] = "credentials"
  BY <1>1, SchemaFacts DEF TableOf
<1> QED
  BY <1>1, <1>2, <1>3, <1>4, <1>5, RequestFacts

\* Only a rotation itself has a first version of its successor.
LEMMA VersionsOf ==
    ASSUME CreatedInv, LogInv, NEW r \in Rotations
    PROVE  /\ row[op[r].new] = Absent /\ pending[op[r].new] # Absent => lock[op[r].new] = r
           /\ pc[r] \in Changing => lock[op[r].row] = r
<1>1. op \in Arrivals /\ TypeOK
  BY DEF LogInv, KeyInv
<1>2. ASSUME row[op[r].new] = Absent, pending[op[r].new] # Absent
      PROVE  lock[op[r].new] = r
  <2>1. PICK q \in Requests : lock[op[r].new] = q
    BY <1>1, <1>2, RotationFacts, Types
  <2> QED
    BY <1>1, <1>2, <2>1, RotationFacts, CreatedHeldBy DEF CreatedInv
<1>3. pc[r] \in Changing => lock[op[r].row] = r
  BY <1>1, Own, RotationFacts DEF Changing, Held, HasRow, Reads, Holds
<1> QED
  BY <1>2, <1>3

\* The end of a transaction that changes nothing.
LEMMA RollbackReplacing ==
    ASSUME SuccessorInv, NEW q \in Requests, NEW a \in Answers \ {"ok"}, Rollback(q, a),
           pc[q] \notin Answers
    PROVE  OneReplacement' /\ \A r \in Rotations : Replacing(r)'
<1>1. op \in Arrivals /\ TypeOK
  BY DEF SuccessorInv, LogInv, KeyInv
<1>2. /\ row' = row /\ op' = op /\ pc' = [pc EXCEPT ![q] = a]
      /\ pending' = [x \in Rows |-> IF lock[x] = q THEN row[x] ELSE pending[x]]
  BY DEF Rollback, Goto
<1>3. OneReplacement'
  BY <1>2 DEF SuccessorInv, OneReplacement, Rotations
<1>4. ASSUME NEW r \in Rotations
      PROVE  Replacing(r)'
  <2>1. /\ op[r].row \in Rows /\ op[r].new \in Rows /\ r \in Requests
        /\ Replacing(r)
    BY <1>1, RotationFacts DEF SuccessorInv
  <2>2. /\ row[op[r].new] = Absent /\ pending[op[r].new] # Absent => lock[op[r].new] = r
        /\ pc[r] \in Changing => lock[op[r].row] = r
    BY VersionsOf DEF SuccessorInv
  <2>3. pc'[r] = IF r = q THEN a ELSE pc[r]
    BY <1>1, <1>2, <2>1, Types
  <2>4. r = q => pc[r] \notin {"ok", "error"}
    BY DEF Answers
  <2>5. a \notin Changing
    BY DEF Answers, Changing
  <2>6. CASE r = q
    BY <1>2, <2>1, <2>2, <2>3, <2>4, <2>5, <2>6 DEF Replacing, Changing
  <2>7. CASE r # q
    BY <1>2, <2>1, <2>2, <2>3, <2>7 DEF Replacing
  <2> QED
    BY <2>6, <2>7
<1> QED
  BY <1>3, <1>4

\* COMMIT, of a rotation or of anything else.
LEMMA CommitReplacing ==
    ASSUME SuccessorInv, NEW q \in Requests, NEW a, Commit(q, a),
           \/ pc[q] = "select" /\ a = "not_found"
           \/ pc[q] = "commit" /\ a \in {"ok", "error"}
    PROVE  OneReplacement' /\ \A r \in Rotations : Replacing(r)'
<1>1. op \in Arrivals /\ TypeOK
  BY DEF SuccessorInv, LogInv, KeyInv
<1>2. /\ pending' = pending /\ op' = op /\ pc' = [pc EXCEPT ![q] = a]
      /\ row' = [x \in Rows |-> IF lock[x] = q THEN pending[x] ELSE row[x]]
  BY DEF Commit, Committed, Goto
<1>3. ASSUME NEW r \in Rotations
      PROVE  /\ Replacing(r)'
             /\ r # q /\ row'[op[r].new] # Absent => row[op[r].new] # Absent
             /\ r = q => row[op[r].new] = Absent
             /\ r = q /\ row'[op[r].new] # Absent => row[op[r].row].on
  <2>1. /\ op[r].row \in Rows /\ op[r].new \in Rows /\ r \in Requests
        /\ Replacing(r)
    BY <1>1, RotationFacts DEF SuccessorInv
  <2>2. /\ row[op[r].new] = Absent /\ pending[op[r].new] # Absent => lock[op[r].new] = r
        /\ pc[r] \in Changing => lock[op[r].row] = r
    BY VersionsOf DEF SuccessorInv
  <2>3. pc'[r] = IF r = q THEN a ELSE pc[r]
    BY <1>1, <1>2, <2>1, Types
  <2>0. ~Absent.on
    BY DEF Absent
  <2>4. r = q => row[op[r].new] = Absent
    BY <2>1 DEF Replacing
  <2>5. CASE r = q
    BY <1>2, <2>0, <2>1, <2>2, <2>3, <2>4, <2>5 DEF Replacing, Changing
  <2>6. CASE r # q
    <3>1. row'[op[r].new] # Absent => row[op[r].new] # Absent
      BY <1>2, <2>1, <2>2, <2>6
    <3>2. row[op[r].row] # Absent /\ ~row[op[r].row].on =>
            row'[op[r].row] # Absent /\ ~row'[op[r].row].on
      BY <1>2, <2>1 DEF Replacing
    <3> QED
      BY <1>2, <2>1, <2>2, <2>3, <2>6, <3>1, <3>2 DEF Replacing
  <2> QED
    BY <2>4, <2>5, <2>6
<1>4. ASSUME NEW p \in Rotations, NEW r \in Rotations, op[p].row = op[r].row,
             row'[op[p].new] # Absent, row'[op[r].new] # Absent
      PROVE  p = r
  <2>1. CASE p # q /\ r # q
    BY <1>3, <1>4, <2>1 DEF SuccessorInv, OneReplacement
  <2>2. CASE p = q /\ r # q
    BY <1>3, <1>4, <2>2 DEF SuccessorInv, Replacing
  <2>3. CASE p # q /\ r = q
    BY <1>3, <1>4, <2>3 DEF SuccessorInv, Replacing
  <2> QED
    BY <2>1, <2>2, <2>3
<1>5. OneReplacement'
  BY <1>2, <1>4 DEF OneReplacement, Rotations
<1> QED
  BY <1>3, <1>5

\* A step that leaves all versions alone.
LEMMA QuietReplacing ==
    ASSUME SuccessorInv, NEW q \in Requests, NEW s, pc' = [pc EXCEPT ![q] = s],
           UNCHANGED <<row, pending, op>>, pc[q] \notin Answers,
           s \in Changing => (pc[q] = "audit" /\ s = "commit") \/ q \notin Rotations,
           pc[q] \in {"audit", "commit"} => s \in {"audit", "commit"}
    PROVE  OneReplacement' /\ \A r \in Rotations : Replacing(r)'
<1>1. op \in Arrivals /\ TypeOK
  BY DEF SuccessorInv, LogInv, KeyInv
<1>2. OneReplacement'
  BY DEF SuccessorInv, OneReplacement, Rotations
<1>3. ASSUME NEW r \in Rotations
      PROVE  Replacing(r)'
  <2>1. r \in Requests /\ Replacing(r)
    BY <1>1, RotationFacts DEF SuccessorInv
  <2>2. pc'[r] = IF r = q THEN s ELSE pc[r]
    BY <1>1, <2>1, Types
  <2>3. r = q => pc[r] \notin {"ok", "error"}
    BY DEF Answers
  <2> QED
    BY <2>1, <2>2, <2>3 DEF Replacing, Changing
<1> QED
  BY <1>2, <1>3

\* Which version z may get from q: a rotation's credential, once it is there,
\* only one that is switched off, a successor its first one only from its
\* rotation, after that.
Permitted(q, z, v, s) ==
    /\ pc[q] \notin Answers \cup {"audit", "commit"}
    /\ \A r \in Rotations : z = op[r].row /\ row[z] # Absent => v # Absent /\ ~v.on
    /\ \A r \in Rotations : z = op[r].new /\ row[z] = Absent => r = q /\ s = "audit"
    /\ q \in Rotations =>
           \/ s = "replace" /\ z = op[q].row /\ row[z].on
           \/ s = "audit" /\ pc[q] = "replace" /\ z = op[q].new

\* A version is written that q is permitted to write.
LEMMA PutReplacing ==
    ASSUME SuccessorInv, NEW q \in Requests, NEW z \in Rows, NEW v, NEW s,
           CanLock(q, z), Put(q, z, v), Goto(q, s), UNCHANGED <<row, op>>, Permitted(q, z, v, s)
    PROVE  OneReplacement' /\ \A r \in Rotations : Replacing(r)'
<1>1. op \in Arrivals /\ TypeOK
  BY DEF SuccessorInv, LogInv, KeyInv
<1>2. OneReplacement'
  BY DEF SuccessorInv, OneReplacement, Rotations
<1>3. ASSUME NEW r \in Rotations
      PROVE  Replacing(r)'
  <2>1. /\ op[r].row \in Rows /\ op[r].new \in Rows /\ r \in Requests
        /\ op[r].new # op[r].row /\ Replacing(r)
    BY <1>1, RotationFacts DEF SuccessorInv
  <2>2. pc'[r] = IF r = q THEN s ELSE pc[r]
    BY <1>1, <2>1, Types DEF Goto
  <2>3. \A x \in Rows : pending'[x] = IF x = z THEN v ELSE pending[x]
    BY <1>1, Types DEF Put
  <2>4. r = q => pc[r] \notin {"ok", "error", "audit", "commit"}
    BY DEF Answers, Permitted
  <2>0. ~Absent.on
    BY DEF Absent
  <2>5. CASE r = q
    BY <2>0, <2>1, <2>2, <2>3, <2>4, <2>5 DEF Replacing, Changing, Permitted
  <2>6. CASE r # q
    <3>1. pc[r] \in Changing => z # op[r].row
      BY <2>1, <2>6, VersionsOf DEF SuccessorInv, CanLock
    <3> QED
      BY <2>1, <2>2, <2>3, <2>6, <3>1 DEF Replacing, Permitted
  <2> QED
    BY <2>5, <2>6
<1> QED
  BY <1>2, <1>3

\* A write, or the conflict that ends the transaction.
LEMMA WriteReplacing ==
    ASSUME SuccessorInv, NEW q \in Requests, NEW z \in Rows, NEW v, NEW s, Write(q, z, v, s),
           Permitted(q, z, v, s)
    PROVE  OneReplacement' /\ \A r \in Rotations : Replacing(r)'
<1>1. CASE Rollback(q, "conflict")
  <2>1. pc[q] \notin Answers
    BY DEF Permitted
  <2>2. "conflict" \in Answers \ {"ok"}
    BY DEF Answers
  <2> QED
    BY <1>1, <2>1, <2>2, RollbackReplacing
<1>2. CASE Put(q, z, v) /\ Goto(q, s) /\ UNCHANGED <<row, share, audit, entries, seen, op>>
  <2>1. CanLock(q, z) /\ UNCHANGED <<row, op>>
    BY <1>2 DEF Write
  <2> QED
    BY <1>2, <2>1, PutReplacing
<1> QED
  BY <1>1, <1>2 DEF Write

\* Rotations name credentials.
LEMMA UnrelatedWrite ==
    ASSUME op \in Arrivals, NEW z, Table[z] # "credentials"
    PROVE  \A r \in Rotations : z # op[r].row /\ z # op[r].new
BY RotationFacts

\* Every statement of the handlers that change no credential that is there.
LEMMA RelationshipReplacing ==
    ASSUME SuccessorInv, NEW q \in Requests, RelationshipStep(q)
    PROVE  OneReplacement' /\ \A r \in Rotations : Replacing(r)'
<1> DEFINE x == op[q].row
<1>0. /\ op \in Arrivals /\ TypeOK /\ x \in Rows
      /\ q \notin Rotations /\ op[q].kind # "deactivate"
  BY RequestFacts DEF SuccessorInv, LogInv, KeyInv, RelationshipStep, CreateRelationship,
     UpdateRelationship, CreateExchangeAccount, UpdateExchangeAccount, UpsertSubscription,
     UpsertRiskSettings, Rotations
<1>1. \A r \in Rotations : x # op[r].row /\ x # op[r].new
  <2>1. Table[x] = TableOf(op[q].kind)
    BY <1>0, SchemaFacts
  <2>2. Table[x] # "credentials"
    BY <2>1 DEF TableOf, RelationshipStep, CreateRelationship, UpdateRelationship,
       CreateExchangeAccount, UpdateExchangeAccount, UpsertSubscription, UpsertRiskSettings
  <2> QED
    BY <1>0, <2>2, UnrelatedWrite
<1>2. ASSUME NEW v, NEW s, Write(q, x, v, s), pc[q] \in {"insert", "update", "upsert"}
      PROVE  OneReplacement' /\ \A r \in Rotations : Replacing(r)'
  <2>1. Permitted(q, x, v, s)
    BY <1>0, <1>1, <1>2 DEF Permitted, Answers
  <2> QED
    BY <1>0, <1>2, <2>1, WriteReplacing
<1>3. ASSUME NEW s, Begin(q, s)
      PROVE  OneReplacement' /\ \A r \in Rotations : Replacing(r)'
  BY <1>0, <1>3, QuietReplacing DEF Begin, Goto, Answers
<1>4. ASSUME NEW es, InsertAudit(q, es)
      PROVE  OneReplacement' /\ \A r \in Rotations : Replacing(r)'
  BY <1>0, <1>4, QuietReplacing DEF InsertAudit, Goto, Answers
<1>5. ASSUME NEW s, SelectForUpdate(q, x, s)
      PROVE  OneReplacement' /\ \A r \in Rotations : Replacing(r)'
  BY <1>0, <1>5, QuietReplacing, CommitReplacing DEF SelectForUpdate, Goto, Answers
<1>6. ASSUME Reference(q, x, "audit")
      PROVE  OneReplacement' /\ \A r \in Rotations : Replacing(r)'
  BY <1>0, <1>6, QuietReplacing, RollbackReplacing DEF Reference, Goto, Answers
<1>7. ASSUME CommitTransaction(q)
      PROVE  OneReplacement' /\ \A r \in Rotations : Replacing(r)'
  BY <1>7, CommitReplacing DEF CommitTransaction
<1>8. CASE CreateRelationship(q)
  BY <1>2, <1>3, <1>4, <1>7, <1>8 DEF CreateRelationship
<1>9. CASE UpdateRelationship(q) \/ UpdateExchangeAccount(q)
  BY <1>2, <1>3, <1>4, <1>5, <1>7, <1>9 DEF UpdateRelationship, UpdateExchangeAccount, Update
<1>10. CASE CreateExchangeAccount(q)
  BY <1>2, <1>3, <1>4, <1>6, <1>7, <1>10 DEF CreateExchangeAccount
<1>11. CASE UpsertSubscription(q) \/ UpsertRiskSettings(q)
  BY <1>2, <1>3, <1>4, <1>6, <1>7, <1>11
  DEF UpsertSubscription, UpsertRiskSettings, UpsertRow, Upsert
<1> QED
  BY <1>8, <1>9, <1>10, <1>11 DEF RelationshipStep

\* Every statement of the credential handlers.
LEMMA CredentialReplacing ==
    ASSUME SuccessorInv, NEW q \in Requests, CredentialStep(q)
    PROVE  OneReplacement' /\ \A r \in Rotations : Replacing(r)'
<1> DEFINE k == op[q].row
           Goal == OneReplacement' /\ \A r \in Rotations : Replacing(r)'
<1>0. op \in Arrivals /\ TypeOK /\ k \in Rows /\ k \in Audited
  BY RequestFacts DEF SuccessorInv, LogInv, KeyInv
<1>1. ASSUME NEW s, Begin(q, s), s \notin Changing
      PROVE  Goal
  BY <1>0, <1>1, QuietReplacing DEF Begin, Goto, Answers
<1>2. ASSUME NEW es, InsertAudit(q, es)
      PROVE  Goal
  BY <1>0, <1>2, QuietReplacing DEF InsertAudit, Goto, Answers
<1>3. ASSUME CommitTransaction(q)
      PROVE  Goal
  BY <1>3, CommitReplacing DEF CommitTransaction
<1>4. ASSUME SelectForUpdate(q, k, "select_user")
      PROVE  Goal
  BY <1>0, <1>4, QuietReplacing, CommitReplacing DEF SelectForUpdate, Goto, Answers, Changing
<1>5. ASSUME SelectUserForUpdate(q)
      PROVE  Goal
  BY <1>0, <1>5, QuietReplacing DEF SelectUserForUpdate, Goto, Answers, Changing
<1>6. ASSUME NEW a \in {"unchanged", "conflict"}, NEW s, SwitchOff(q, a, s),
             \/ op[q].kind = "deactivate" /\ s = "audit"
             \/ op[q].kind = "rotate" /\ s = "replace"
      PROVE  Goal
  <2> DEFINE v == [seen[q] EXCEPT !.on = FALSE]
  <2>1. pc[q] = "update" /\ seen[q] \in Value /\ seen[q] = row[k]
    BY <1>6, Own DEF SuccessorInv, SwitchOff, Seen, Reads, HasRow
  <2>2. ~v.on /\ v # Absent /\ row[k] # Absent
    BY <2>1 DEF Value, Absent
  <2>3. CASE Rollback(q, a)
    BY <1>6, <2>1, <2>3, RollbackReplacing DEF Answers
  <2>4. CASE seen[q].on /\ Write(q, k, v, s)
    <3>2. q \in Rotations => s = "replace" /\ row[k].on
      BY <1>6, <2>1, <2>4 DEF Rotations
    <3> HIDE DEF v
    <3>3. Permitted(q, k, v, s)
      BY <2>1, <2>2, <3>2 DEF Permitted, Answers
    <3> QED
      BY <1>0, <2>4, <3>3, WriteReplacing
  <2> QED
    BY <1>6, <2>3, <2>4 DEF SwitchOff
<1>7. CASE CreateAdminCredential(q)
  <2>1. op[q].kind = "create_credential" /\ q \notin Rotations
    BY <1>7 DEF CreateAdminCredential, Rotations
  <2>3. CASE UpsertActiveUser(q)
    <3> DEFINE u == op[q].user
               v == [on |-> TRUE, data |-> op[q].value.data]
               s == IF op[q].password # Nobody THEN "password" ELSE "insert"
    <3>1. u \in Rows /\ Table[u] = "users"
      BY <1>0, <2>1, RequestFacts, SchemaFacts
    <3>2. \A r \in Rotations : u # op[r].row /\ u # op[r].new
      BY <1>0, <3>1, UnrelatedWrite
    <3>3. CASE Rollback(q, "conflict")
      BY <2>3, <3>3, RollbackReplacing DEF UpsertActiveUser, Answers
    <3>4. CASE Put(q, u, v) /\ Goto(q, s) /\ UNCHANGED <<row, op>>
      <4>1. CanLock(q, u) /\ pc[q] = "upsert_user"
        BY <2>3 DEF UpsertActiveUser
      <4> HIDE DEF v, s, u
      <4>2. Permitted(q, u, v, s)
        BY <2>1, <3>2, <4>1 DEF Permitted, Answers
      <4> QED
        BY <3>1, <3>4, <4>1, <4>2, PutReplacing
    <3> QED
      BY <2>3, <3>3, <3>4 DEF UpsertActiveUser
  <2>4. CASE UpsertPassword(q)
    <3>1. /\ op[q].password \in Rows /\ Table[op[q].password] = "passwords"
          /\ pc[q] = "password"
      BY <1>0, <2>1, <2>4, RequestFacts, SchemaFacts DEF UpsertPassword
    <3>2. \A r \in Rotations : op[q].password # op[r].row /\ op[q].password # op[r].new
      BY <1>0, <3>1, UnrelatedWrite
    <3>3. Permitted(q, op[q].password, op[q].value, "insert")
      BY <2>1, <3>1, <3>2 DEF Permitted, Answers
    <3> QED
      BY <2>4, <3>1, <3>3, WriteReplacing DEF UpsertPassword
  <2>5. CASE Begin(q, "upsert_user")
    BY <1>1, <2>5 DEF Changing
  <2>6. CASE pc[q] = "insert" /\ Write(q, k, op[q].value, "audit")
    <3>1. k \in Creates(op[q]) /\ row[k] = Absent
      BY <2>1, <2>6 DEF Creates, SuccessorInv, CreatedInv, Creating
    <3>2. \A r \in Rotations : k # op[r].new
      BY <1>0, <2>1, <3>1, RotationFacts
    <3>3. Permitted(q, k, op[q].value, "audit")
      BY <2>1, <2>6, <3>1, <3>2 DEF Permitted, Answers
    <3> QED
      BY <1>0, <2>6, <3>3, WriteReplacing
  <2> QED
    BY <1>2, <1>3, <1>7, <2>3, <2>4, <2>5, <2>6 DEF CreateAdminCredential
<1>8. CASE DeactivateAdminCredential(q)
  <2>1. op[q].kind = "deactivate"
    BY <1>8 DEF DeactivateAdminCredential
  <2>2. CASE Begin(q, "select")
    BY <1>1, <2>2 DEF Changing
  <2> QED
    BY <1>2, <1>3, <1>4, <1>5, <1>6, <1>8, <2>1, <2>2 DEF DeactivateAdminCredential
<1>9. CASE RotateAdminCredential(q)
  <2>1. op[q].kind = "rotate" /\ q \in Rotations
    BY <1>9 DEF RotateAdminCredential, Rotations
  <2>2. CASE Begin(q, "select")
    BY <1>1, <2>2 DEF Changing
  <2>3. CASE pc[q] = "replace" /\ Write(q, op[q].new, op[q].value, "audit")
    <3>1. /\ op[q].new \in Rows /\ op[q].new \in Creates(op[q])
          /\ \A r \in Rotations : op[q].new = op[r].new => r = q
      BY <1>0, <2>1, RotationFacts
    <3>0. row[op[q].new] = Absent
      BY <2>3, <3>1 DEF SuccessorInv, CreatedInv, Creating
    <3>2. Permitted(q, op[q].new, op[q].value, "audit")
      BY <2>1, <2>3, <3>0, <3>1 DEF Permitted, Answers
    <3> QED
      BY <2>3, <3>1, <3>2, WriteReplacing
  <2> QED
    BY <1>2, <1>3, <1>4, <1>5, <1>6, <1>9, <2>1, <2>2, <2>3 DEF RotateAdminCredential
<1> QED
  BY <1>7, <1>8, <1>9 DEF CredentialStep

\* The rules for rotations are kept by every step.
LEMMA SuccessorKept == SuccessorInv /\ [Next]_vars => SuccessorInv'
<1> SUFFICES ASSUME SuccessorInv, [Next]_vars
             PROVE  SuccessorInv'
  OBVIOUS
<1>1. CreatedInv' /\ LogInv' /\ op' = op
  <2>1. CreatedInv' /\ LogInv'
    BY CreatedKept, LogKept DEF SuccessorInv
  <2>2. op' = op
    BY StepKept DEF SuccessorInv, Kept, Alone, Next, vars
  <2> QED
    BY <2>1, <2>2
<1>2. ASSUME OneReplacement', \A r \in Rotations : Replacing(r)'
      PROVE  SuccessorInv'
  BY <1>1, <1>2 DEF SuccessorInv, Rotations
<1>3. ASSUME NEW q \in Requests, RequestStep(q)
      PROVE  SuccessorInv'
  BY <1>2, <1>3, RelationshipReplacing, CredentialReplacing DEF RequestStep
<1>4. ASSUME NEW q \in Requests, LoseConnection(q)
      PROVE  SuccessorInv'
  BY <1>2, <1>4, RollbackReplacing, CommitReplacing DEF LoseConnection, Answers
<1>5. CASE UNCHANGED vars
  BY <1>2, <1>5 DEF vars, SuccessorInv, OneReplacement, Rotations, Replacing
<1> QED
  BY <1>3, <1>4, <1>5 DEF Next

\* No successor exists at first.
LEMMA Init_SuccessorInv == Init => SuccessorInv
<1> SUFFICES ASSUME Init
             PROVE  SuccessorInv
  OBVIOUS
<1>1. CreatedInv /\ LogInv /\ op \in Arrivals /\ row \in Contents /\ pending = row
  BY Init_LogInv, Init_CreatedInv DEF Init
<1>2. ASSUME NEW r \in Rotations
      PROVE  row[op[r].new] = Absent /\ pc[r] = "begin"
  <2>1. r \in Requests /\ op[r].new \in Creates(op[r])
    BY DEF Rotations, Creates
  <2> QED
    BY <1>1, <2>1, ArrivalAssumption DEF Init
<1> QED
  BY <1>1, <1>2 DEF SuccessorInv, OneReplacement, Replacing, Changing

\* What rotations have locked, switched off and written holds in every state.
THEOREM SuccessorInvariant == Spec => []SuccessorInv
BY Init_SuccessorInv, SuccessorKept, PTL DEF Spec

\* However rotations and deactivations overlap, a credential has at most one
\* successor, and none while it is itself still active.
THEOREM RotatedOnce == Spec => []OneSuccessor
<1>1. SuccessorInv => OneSuccessor
  BY DEF SuccessorInv, OneReplacement, Replacing, OneSuccessor
<1> QED
  BY <1>1, SuccessorInvariant, PTL
-----------------------------------------------------------------------------
(* Requests run forward.                                                   *)

\* The order in which the handlers reach their statements.
Rank(s) ==
    CASE s = "begin" -> 0
      [] s \in {"select", "upsert_user"} -> 1
      [] s \in {"select_user", "password"} -> 2
      [] s \in {"update", "insert", "upsert"} -> 3
      [] s \in {"replace", "reference"} -> 4
      [] s = "audit" -> 5
      [] s = "commit" -> 6
      [] OTHER -> 7

\* The step brings one request further and leaves the others where they are.
Forward ==
    \E r \in Requests :
        /\ Rank(pc[r]) < Rank(pc'[r])
        /\ \A q \in Requests \ {r} : pc'[q] = pc[q]

\* Going on to a later statement is a step forward.
LEMMA GotoForward ==
    ASSUME TypeOK, NEW r \in Requests, NEW s, Goto(r, s), Rank(pc[r]) < Rank(s)
    PROVE  Forward
<1>1. /\ pc'[r] = s
      /\ \A q \in Requests \ {r} : pc'[q] = pc[q]
  BY Types DEF Goto
<1> QED
  BY <1>1 DEF Forward

\* A statement that writes, and each of its ways on.
LEMMA WriteForward ==
    ASSUME TypeOK, NEW r \in Requests, NEW x, NEW v, NEW s, Write(r, x, v, s),
           Rank(pc[r]) < Rank(s), Rank(pc[r]) < 7
    PROVE  Forward
<1>1. Goto(r, s) \/ Goto(r, "conflict")
  BY DEF Write, Rollback
<1>2. Rank("conflict") = 7
  BY DEF Rank
<1> QED
  BY <1>1, <1>2, GotoForward

\* The statements that all handlers share.
LEMMA SharedForward ==
    ASSUME TypeOK, NEW r \in Requests,
           \/ \E s \in {"select", "upsert_user", "insert", "upsert"} : Begin(r, s)
           \/ \E x : \E s \in {"update", "select_user"} : SelectForUpdate(r, x, s)
           \/ \E x : Reference(r, x, "audit")
           \/ \E es : InsertAudit(r, es)
           \/ CommitTransaction(r)
    PROVE  Forward
<1> USE DEF Rank
<1>1. CASE \E s \in {"select", "upsert_user", "insert", "upsert"} : Begin(r, s)
  BY <1>1, GotoForward DEF Begin
<1>2. ASSUME NEW x, NEW s \in {"update", "select_user"}, SelectForUpdate(r, x, s)
      PROVE  Forward
  <2>1. pc[r] = "select" /\ (Goto(r, s) \/ Goto(r, "not_found"))
    BY <1>2 DEF SelectForUpdate, Commit
  <2> QED
    BY <2>1, GotoForward
<1>3. ASSUME NEW x, Reference(r, x, "audit")
      PROVE  Forward
  <2>1. pc[r] = "reference" /\ (Goto(r, "audit") \/ Goto(r, "not_found"))
    BY <1>3 DEF Reference, Rollback
  <2> QED
    BY <2>1, GotoForward
<1>4. ASSUME NEW es, InsertAudit(r, es)
      PROVE  Forward
  BY <1>4, GotoForward DEF InsertAudit
<1>5. CASE CommitTransaction(r)
  BY <1>5, GotoForward DEF CommitTransaction, Commit
<1> QED
  BY <1>1, <1>2, <1>3, <1>4, <1>5

\* No handler has a loop or goes back.
LEMMA StepForward ==
    ASSUME TypeOK, NEW r \in Requests, RequestStep(r) \/ LoseConnection(r)
    PROVE  Forward
<1> USE DEF Rank
<1>1. CASE LoseConnection(r)
  <2>1. pc[r] \in Statements
    BY <1>1, Types DEF LoseConnection
  <2>2. Goto(r, "error")
    BY <1>1 DEF LoseConnection, Rollback, Commit
  <2>3. Rank(pc[r]) < Rank("error")
    BY <2>1 DEF Statements
  <2> QED
    BY <2>2, <2>3, GotoForward
<1>2. CASE CreateRelationship(r) \/ CreateExchangeAccount(r)
  <2>1. ASSUME pc[r] = "insert", NEW s \in {"audit", "reference"},
               Write(r, op[r].row, op[r].value, s)
        PROVE  Forward
    BY <2>1, WriteForward
  <2> QED
    BY <1>2, <2>1, SharedForward DEF CreateRelationship, CreateExchangeAccount
<1>3. CASE UpdateRelationship(r) \/ UpdateExchangeAccount(r)
  <2>1. CASE Update(r)
    BY <2>1, WriteForward DEF Update
  <2>2. CASE SelectForUpdate(r, op[r].row, "update")
    BY <2>2, SharedForward
  <2>3. CASE Begin(r, "select")
    BY <2>3, SharedForward
  <2>4. ASSUME NEW es, InsertAudit(r, es) \/ CommitTransaction(r)
        PROVE  Forward
    BY <2>4, SharedForward
  <2> QED
    BY <1>3, <2>1, <2>2, <2>3, <2>4 DEF UpdateRelationship, UpdateExchangeAccount
<1>4. CASE UpsertRow(r)
  <2>1. CASE Upsert(r, op[r].row, op[r].value)
    <3>1. PICK s \in {"reference", "audit"} : Write(r, op[r].row, op[r].value, s)
      BY <2>1 DEF Upsert
    <3> QED
      BY <2>1, <3>1, WriteForward DEF Upsert
  <2> QED
    BY <1>4, <2>1, SharedForward DEF UpsertRow
<1>5. CASE CreateAdminCredential(r)
  <2>1. CASE UpsertActiveUser(r)
    <3>1. PICK s \in {"conflict", "password", "insert"} : Goto(r, s)
      BY <2>1 DEF UpsertActiveUser, Rollback
    <3> QED
      BY <2>1, <3>1, GotoForward DEF UpsertActiveUser
  <2>2. CASE UpsertPassword(r)
    BY <2>2, WriteForward DEF UpsertPassword
  <2>3. CASE pc[r] = "insert" /\ Write(r, op[r].row, op[r].value, "audit")
    BY <2>3, WriteForward
  <2> QED
    BY <1>5, <2>1, <2>2, <2>3, SharedForward DEF CreateAdminCredential
<1>6. CASE DeactivateAdminCredential(r) \/ RotateAdminCredential(r)
  <2>1. CASE SelectUserForUpdate(r)
    BY <2>1, GotoForward DEF SelectUserForUpdate
  <2>2. ASSUME NEW a \in {"unchanged", "conflict"}, NEW s \in {"audit", "replace"},
               SwitchOff(r, a, s)
        PROVE  Forward
    <3>1. CASE Rollback(r, a)
      BY <2>2, <3>1, GotoForward DEF SwitchOff, Rollback
    <3>2. CASE Write(r, op[r].row, [seen[r] EXCEPT !.on = FALSE], s)
      BY <2>2, <3>2, WriteForward DEF SwitchOff
    <3> QED
      BY <2>2, <3>1, <3>2 DEF SwitchOff
  <2>3. CASE pc[r] = "replace" /\ Write(r, op[r].new, op[r].value, "audit")
    BY <2>3, WriteForward
  <2>4. CASE SelectForUpdate(r, op[r].row, "select_user")
    BY <2>4, SharedForward
  <2>5. CASE Begin(r, "select")
    BY <2>5, SharedForward
  <2>6. ASSUME NEW es, InsertAudit(r, es) \/ CommitTransaction(r)
        PROVE  Forward
    BY <2>6, SharedForward
  <2> QED
    BY <1>6, <2>1, <2>2, <2>3, <2>4, <2>5, <2>6
    DEF DeactivateAdminCredential, RotateAdminCredential
<1> QED
  BY <1>1, <1>2, <1>3, <1>4, <1>5, <1>6
  DEF RequestStep, RelationshipStep, CredentialStep, UpsertSubscription, UpsertRiskSettings

\* Every step brings one request nearer to its answer and none back, so a
\* request takes at most seven steps: with SomeoneGoesOn, what is left of
\* EveryRequestAnswered is that a statement that waits for nobody ends.
THEOREM RequestsRunForward == Spec => [][Forward]_vars
<1>1. TypeOK /\ [Next]_vars => [Forward]_vars
  BY StepForward DEF Next
<1> QED
  BY <1>1, WritesTypeCorrect, PTL DEF Spec
==============================================================================

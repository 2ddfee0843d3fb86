----------------------------- MODULE AdminTables -----------------------------
(***************************************************************************)
(* PostgreSQL as the writing handlers of the admin API use it: every       *)
(* request opens a connection of its own and runs one READ COMMITTED       *)
(* transaction over rows of several tables, whose last statement inserts   *)
(* the audit row (apps/api, copy_relationships.py, foundation_controls.py, *)
(* admin_credentials.py, audit.py).  This module has the rows, their       *)
(* locks, the unique and foreign keys, and how a transaction ends;         *)
(* RelationshipAdmin and AdminCredentials have the statements.             *)
(*                                                                         *)
(* Failure covered: "connection_lost" in Faults, a connection that breaks  *)
(* at any statement or at COMMIT, before or after the server committed.    *)
(* No handler deletes a row, so a committed row stays.                     *)
(***************************************************************************)
EXTENDS Naturals, Sequences, FiniteSets

CONSTANTS Requests,     \* requests being handled
          Rows,         \* rows of all tables
          Data,         \* contents beside the flag
          Parent,       \* Parent[x]: the row x's foreign key names, or x
          Rivals,       \* Rivals[x]: the rows with x's unique key
          PartialKey,   \* rows whose unique index counts only rows with the flag on
          Audited,      \* rows with audit rows of their own
          Nobody,       \* no request
          Arrivals,     \* the request bodies that may meet
          Contents,     \* the contents the tables may start with
          Faults

\* A flag (active, enabled, ...) and the remaining columns.
Value == [on : BOOLEAN, data : Data]
Absent == [on |-> FALSE, data |-> "absent"]

ASSUME TableAssumption ==
    /\ Nobody \notin Requests
    /\ "absent" \notin Data
    /\ Parent \in [Rows -> Rows]
    /\ Rivals \in [Rows -> SUBSET Rows]
    /\ \A x, y \in Rows : y \in Rivals[x] => x \in Rivals[y]
    /\ Audited \subseteq Rows
    /\ Contents \subseteq [Rows -> Value \cup {Absent}]

VARIABLES
    row,      \* committed rows
    pending,  \* each row as the transaction that has locked it sees it
    lock,     \* who holds the row lock (FOR UPDATE, UPDATE, INSERT)
    share,    \* who holds the row FOR KEY SHARE, for a foreign key
    audit,    \* committed audit rows
    entries,  \* audit rows of the open transactions
    seen,     \* the row each request has read, before_row in the code
    op,       \* what each request asks
    pc        \* its next statement, or its answer

vars == <<row, pending, lock, share, audit, entries, seen, op, pc>>

Entry == [row : Rows, before : Value \cup {Absent}, after : Value, by : Requests]
Statements == {"begin", "select", "select_user", "upsert_user", "password",
               "insert", "upsert", "reference", "update", "replace", "audit", "commit"}
Answers == {"ok", "unchanged", "not_found", "conflict", "error"}

TypeOK ==
    /\ row \in [Rows -> Value \cup {Absent}]
    /\ pending \in [Rows -> Value \cup {Absent}]
    /\ lock \in [Rows -> Requests \cup {Nobody}]
    /\ share \in [Rows -> SUBSET Requests]
    /\ audit \in Seq(Entry)
    /\ entries \in [Requests -> Seq(Entry)]
    /\ seen \in [Requests -> Value \cup {Absent}]
    /\ pc \in [Requests -> Statements \cup Answers]
    /\ \A x \in Rows : lock[x] = Nobody => pending[x] = row[x]
    /\ \A r \in Requests :
         pc[r] \in Answers => /\ entries[r] = << >>
                              /\ \A x \in Rows : lock[x] # r /\ r \notin share[x]

Init ==
    /\ row \in Contents
    /\ pending = row
    /\ lock = [x \in Rows |-> Nobody]
    /\ share = [x \in Rows |-> {}]
    /\ audit = << >>
    /\ entries = [r \in Requests |-> << >>]
    /\ seen = [r \in Requests |-> Absent]
    /\ op \in Arrivals
    /\ pc = [r \in Requests |-> "begin"]

-----------------------------------------------------------------------------
(* What a statement of request r sees and locks.                           *)

Goto(r, s) == pc' = [pc EXCEPT ![r] = s]

\* READ COMMITTED: the last committed version, or one's own.
View(r, x) == IF lock[x] = r THEN pending[x] ELSE row[x]

CanLock(r, x) == lock[x] \in {Nobody, r}

\* FOR UPDATE also waits for the holders of FOR KEY SHARE.
CanLockForUpdate(r, x) == CanLock(r, x) /\ share[x] \subseteq {r}

\* Only FOR UPDATE keeps others from FOR KEY SHARE; the upsert of a user
\* changes no key column and locks FOR NO KEY UPDATE.
CanShare(r, x) ==
    lock[x] \in {Nobody, r} \cup {q \in Requests : op[q].kind = "create_credential"}

\* The row an index entry belongs to counts for the unique key.
Counts(x, v) == v # Absent /\ (x \in PartialKey => v.on)

\* Somebody has changed a row with the same key and not committed: wait.
KeyUndecided(r, x, v) ==
    Counts(x, v) /\ \E y \in Rivals[x] \ {x} :
        /\ lock[y] \notin {Nobody, r}
        /\ pending[y] # row[y]
        /\ Counts(y, pending[y]) \/ Counts(y, row[y])

KeyTaken(r, x, v) ==
    Counts(x, v) /\ \E y \in Rivals[x] \ {x} : Counts(y, View(r, y))

-----------------------------------------------------------------------------
(* The end of a transaction, and the answer.                               *)

Release(r) ==
    /\ lock' = [x \in Rows |-> IF lock[x] = r THEN Nobody ELSE lock[x]]
    /\ share' = [x \in Rows |-> share[x] \ {r}]
    /\ entries' = [entries EXCEPT ![r] = << >>]

RollbackKeepsRows(r, answer) ==
    /\ Release(r)
    /\ Goto(r, answer)
    /\ UNCHANGED <<row, pending, audit, seen, op>>

RollbackKeepsConnection(r, answer) ==
    /\ Goto(r, answer)
    /\ UNCHANGED <<row, pending, lock, share, audit, entries, seen, op>>

\* An exception leaves "async with connection.transaction()".
Rollback(r, answer) ==
    /\ pending' = [x \in Rows |-> IF lock[x] = r THEN row[x] ELSE pending[x]]
    /\ Release(r)
    /\ Goto(r, answer)
    /\ UNCHANGED <<row, audit, seen, op>>

Committed(r) == [x \in Rows |-> IF lock[x] = r THEN pending[x] ELSE row[x]]

CommitWithoutAudit(r, answer) ==
    /\ row' = Committed(r)
    /\ Release(r)
    /\ Goto(r, answer)
    /\ UNCHANGED <<pending, audit, seen, op>>

\* The block is left normally, also by an early return.
Commit(r, answer) ==
    /\ row' = Committed(r)
    /\ audit' = audit \o entries[r]
    /\ Release(r)
    /\ Goto(r, answer)
    /\ UNCHANGED <<pending, seen, op>>

\* The connection breaks; the client is told 500.
LoseConnection(r) ==
    /\ "connection_lost" \in Faults
    /\ pc[r] \notin Answers
    /\ \/ Rollback(r, "error")
       \/ pc[r] = "commit" /\ Commit(r, "error")

-----------------------------------------------------------------------------
(* The statements the handlers are made of.                                *)

Begin(r, first) ==
    /\ pc[r] = "begin"
    /\ Goto(r, first)
    /\ UNCHANGED <<row, pending, lock, share, audit, entries, seen, op>>

\* INSERT or UPDATE: the new version is seen by r alone until it commits.
Put(r, x, v) ==
    /\ lock' = [lock EXCEPT ![x] = r]
    /\ pending' = [pending EXCEPT ![x] = v]

WriteIfUnseen(r, x, v, next) ==
    /\ CanLock(r, x)
    /\ \/ /\ KeyTaken(r, x, v)
          /\ Rollback(r, "conflict")
       \/ /\ ~KeyTaken(r, x, v)
          /\ Put(r, x, v)
          /\ Goto(r, next)
          /\ UNCHANGED <<row, share, audit, entries, seen, op>>

\* A row version is written, or its unique key is taken already.
Write(r, x, v, next) ==
    /\ CanLock(r, x)
    /\ ~KeyUndecided(r, x, v)
    /\ \/ /\ KeyTaken(r, x, v)
          /\ Rollback(r, "conflict")
       \/ /\ ~KeyTaken(r, x, v)
          /\ Put(r, x, v)
          /\ Goto(r, next)
          /\ UNCHANGED <<row, share, audit, entries, seen, op>>

SelectWithoutLock(r, x, next) ==
    /\ pc[r] = "select"
    /\ \/ row[x] = Absent /\ Commit(r, "not_found")
       \/ /\ row[x] # Absent
          /\ seen' = [seen EXCEPT ![r] = row[x]]
          /\ Goto(r, next)
          /\ UNCHANGED <<row, pending, lock, share, audit, entries, op>>

\* SELECT ... FOR UPDATE.  It sees committed rows, and waits only for those.
SelectForUpdate(r, x, next) ==
    /\ pc[r] = "select"
    /\ \/ row[x] = Absent /\ Commit(r, "not_found")
       \/ /\ row[x] # Absent
          /\ CanLockForUpdate(r, x)
          /\ lock' = [lock EXCEPT ![x] = r]
          /\ seen' = [seen EXCEPT ![r] = row[x]]
          /\ Goto(r, next)
          /\ UNCHANGED <<row, pending, share, audit, entries, op>>

\* The foreign key of a new row, checked when its INSERT ends.
Reference(r, x, next) ==
    /\ pc[r] = "reference"
    /\ \/ View(r, Parent[x]) = Absent /\ Rollback(r, "not_found")
       \/ /\ View(r, Parent[x]) # Absent
          /\ CanShare(r, Parent[x])
          /\ share' = [share EXCEPT ![Parent[x]] = @ \cup {r}]
          /\ Goto(r, next)
          /\ UNCHANGED <<row, pending, lock, audit, entries, seen, op>>

\* insert_audit_log, for row x as the statements before have left it.
Describe(r, x, before) == [row |-> x, before |-> before, after |-> View(r, x), by |-> r]

InsertAudit(r, es) ==
    /\ pc[r] = "audit"
    /\ entries' = [entries EXCEPT ![r] = es]
    /\ Goto(r, "commit")
    /\ UNCHANGED <<row, pending, lock, share, audit, seen, op>>

CommitTransaction(r) == pc[r] = "commit" /\ Commit(r, "ok")
=============================================================================

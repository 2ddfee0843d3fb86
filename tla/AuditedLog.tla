----------------------------- MODULE AuditedLog -----------------------------
(***************************************************************************)
(* What the admin API promises of its tables and of audit_logs: a change   *)
(* of audited rows and the audit rows that describe it are one step, one   *)
(* audit row for each row, which tells the content before (or nothing,     *)
(* where the handler does not read it) and after.  Audit rows are never    *)
(* changed or removed.                                                     *)
(***************************************************************************)
EXTENDS Naturals, Sequences

CONSTANT Absent   \* the content of a row that does not exist

VARIABLES row,    \* content of each audited row
          audit   \* the audit rows in commit order

Init == audit = << >>

\* The audit rows this step adds.
Added == SubSeq(audit', Len(audit) + 1, Len(audit'))

Describes(e, x) == e.row = x /\ e.before \in {row[x], Absent} /\ e.after = row'[x]

Write ==
    /\ Len(audit') > Len(audit)
    /\ SubSeq(audit', 1, Len(audit)) = audit
    /\ DOMAIN row' = DOMAIN row
    /\ \A i \in DOMAIN Added :
         /\ Added[i].row \in DOMAIN row
         /\ Describes(Added[i], Added[i].row)
         /\ \A j \in DOMAIN Added : Added[i].row = Added[j].row => i = j
    /\ \A x \in DOMAIN row :
         row'[x] # row[x] => \E i \in DOMAIN Added : Added[i].row = x

Spec == Init /\ [][Write]_<<row, audit>>

-----------------------------------------------------------------------------
\* Audit row i is followed by no other of the same row up to j.
LastBefore(i, j) ==
    \A k \in DOMAIN audit : i < k /\ k < j => audit[k].row # audit[i].row

\* The audit rows of each row in S are its history: the last one tells what
\* it holds, and what one of them found is what the one before it left.
History(S) ==
    \A i \in DOMAIN audit : audit[i].row \in S =>
        /\ LastBefore(i, Len(audit) + 1) => audit[i].after = row[audit[i].row]
        /\ \A j \in DOMAIN audit :
             i < j /\ audit[j].row = audit[i].row /\ LastBefore(i, j) =>
                 audit[j].before \in {audit[i].after, Absent}
=============================================================================

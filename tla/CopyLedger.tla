----------------------------- MODULE CopyLedger -----------------------------
(***************************************************************************)
(* What the copy engine promises about one copy, that is about one         *)
(* idempotency key copy:<relationship>:<event>: whoever claims it places   *)
(* it at most once, and a placed copy never becomes free again.  A claim   *)
(* can be given back, or lost with the handler call that made it; either   *)
(* way the call may leave its request underway, to be placed later if the  *)
(* copy has not been placed by then.                                       *)
(***************************************************************************)
CONSTANTS Keys, Ids

VARIABLES
    copy,     \* what has become of each copy
    placed,   \* the execution requests placed: <<key, id>>
    underway  \* those sent by calls that have ended or given up since

LedgerInit ==
    /\ copy = [k \in Keys |-> "free"]
    /\ placed = {}
    /\ underway = {}

Claimed == {k \in Keys : copy[k] = "claimed"}
Free == {k \in Keys : copy[k] = "free"}

Claim(k) ==
    /\ copy[k] = "free"
    /\ copy' = [copy EXCEPT ![k] = "claimed"]
    /\ UNCHANGED <<placed, underway>>

Placed(k, id) ==
    /\ copy[k] # "placed"
    /\ copy' = [copy EXCEPT ![k] = "placed"]
    /\ placed' = placed \cup {<<k, id>>}

Place(k, id) ==
    /\ copy[k] = "claimed"
    /\ Placed(k, id)
    /\ UNCHANGED underway

\* A request underway arrives: it places its copy or, when that has been
\* placed, is dropped.
Arrive(k, id) ==
    /\ <<k, id>> \in underway
    /\ underway' = underway \ {<<k, id>>}
    /\ \/ Placed(k, id)
       \/ copy[k] = "placed" /\ UNCHANGED <<copy, placed>>

\* A handler call ends early: it gives some of its claims back, loses the
\* others, and a last claim may have been stored without an answer.  Requests
\* of copies it had claimed, or of ones placed meanwhile, may stay underway.
GiveUp ==
    \E back \in SUBSET Claimed, lost \in SUBSET (Claimed \cup Free) :
        /\ back \cap lost = {}
        /\ \A k \in lost \cap Free : \A l \in lost \cap Free : k = l
        /\ copy' = [k \in Keys |->
                      IF k \in back THEN "free"
                      ELSE IF k \in lost THEN "lost" ELSE copy[k]]
        /\ UNCHANGED placed
        /\ \E sent \in SUBSET (Keys \X Ids) :
             /\ \A s \in sent : copy[s[1]] \in {"claimed", "placed"}
             /\ underway' = underway \cup sent

LedgerNext ==
    \/ \E k \in Keys : Claim(k)
    \/ \E k \in Keys, id \in Ids : Place(k, id) \/ Arrive(k, id)
    \/ GiveUp

LedgerSpec == LedgerInit /\ [][LedgerNext]_<<copy, placed, underway>>
=============================================================================

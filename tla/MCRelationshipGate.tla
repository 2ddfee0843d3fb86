------------------------- MODULE MCRelationshipGate -------------------------
(* Small instances of RelationshipGate: the relationships follow the       *)
(* account src with fol, from time 1 on.  The events e1 and e2 fit them;   *)
(* early, other and foreign each miss them in one respect.                 *)
EXTENDS RelationshipGate

CONSTANTS r1, r2, e1, e2, early, other, foreign, src, fol, u1, eth, btc

FollowsSrc == [r \in Rels |-> src]
FollowedByFol == [r \in Rels |-> fol]
EverySymbol == [r \in Rels |-> Null]
EthOnly == [r \in Rels |-> eth]
SameTarget == [r \in Rels |-> eth]
FromOne == [r \in Rels |-> 1]
OneOwner == [a \in Accounts |-> u1]

EventAccounts == [e \in Events |-> IF e = foreign THEN fol ELSE src]
EventSymbols == [e \in Events |-> IF e = other THEN btc ELSE eth]
EventTimes == [e \in Events |-> IF e = early THEN 0 ELSE 1]
Sizes == [e \in Events |-> IF e = e2 THEN 2 ELSE 1]
Leverages == [e \in Events |-> IF e = e2 THEN 2 ELSE Null]
=============================================================================

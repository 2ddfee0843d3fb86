------------------------- MODULE MCExecutionResults -------------------------
(* One recorded request, accepted and then filled, and the result of a     *)
(* request whose row was never written, which carries the same key.        *)
EXTENDS ExecutionResults, TLC

CONSTANTS acc, fil, orp, ta, tf, p1, q1, q2, ka, kf

OneHost == [t \in Tasks |-> p1]
BySubject == [m \in Results |-> IF m = acc THEN {ta} ELSE {tf}]
Answers == [m \in Results |-> IF m = orp THEN q2 ELSE q1]
Reports == [m \in Results |-> IF m = acc THEN "ACCEPTED" ELSE "FILLED"]
NotFollowed == << >>
KeyOfResult == [m \in Results |-> IF m = acc THEN ka ELSE kf]
=============================================================================

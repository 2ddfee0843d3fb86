---------------------------- MODULE MCCopyEngine ----------------------------
(* Small instances of CopyEngine.                                          *)
EXTENDS CopyEngine, TLC

CONSTANTS m1, m2, t1, t2, p1, p2, r1, r2, e1

OneHost == (t1 :> p1)
TwoHosts == (t1 :> p1) @@ (t2 :> p2)

AllRead == [m \in Messages |-> Tasks]

\* Every event is the same source event, published once or twice.
OneEvent == [m \in Messages |-> e1]

NotFollowed == << >>

AllFollow == [m \in Messages |-> Rels]
=============================================================================

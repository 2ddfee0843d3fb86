---------------------------- MODULE MCDeadLetters ----------------------------
(* A filled result of a recorded request and one of a request whose row    *)
(* was never written, which carry one key and so share a dead-letter key;  *)
(* their dead letters, and the dead letter of either: MaxFailures is too   *)
(* small for both to need one.                                             *)
EXTENDS DeadLetters, TLC

CONSTANTS fil, orp, dfil, dorp, dd, tf, td, p1, q1, q2, kf

MCReaders == [m \in Messages |-> IF m \in Results THEN {tf} ELSE {td}]
MCHost == [t \in Tasks |-> p1]
MCRequestOf == (fil :> q1) @@ (orp :> q2)
MCStatusOf == [m \in Results |-> "FILLED"]
MCResultKey == [m \in Results |-> kf]
MCDeadLetterOf == (fil :> dfil) @@ (orp :> dorp) @@ (dfil :> dd) @@ (dorp :> dd)

\* dlq:<subject>:<key>, with that as the key of the dead letter of a dead letter.
MCMsgId == [d \in Messages \ Results |-> IF d = dd THEN "dlq:dlq" ELSE "dlq"]
==============================================================================

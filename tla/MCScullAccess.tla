--------------------------- MODULE MCScullAccess ----------------------------
(* A small instance of ScullAccess for TLC: two users, each with a terminal  *)
(* and a process; p3 is of the second and, having done su, acts as the first.*)
EXTENDS ScullAccess
CONSTANTS p1, p2, p3, u1, u2, t1, t2
MCUid == [p \in Procs |-> IF p = p1 THEN u1 ELSE u2]
MCEuid == [p \in Procs |-> IF p = p2 THEN u2 ELSE u1]
MCTty == [p \in Procs |-> IF p = p1 THEN t1 ELSE t2]
=============================================================================

------------------------------ MODULE MCSnull -------------------------------
(* Small instances of Snull for TLC: a pool of two buffers against one of one *)
(* or two.                                                                    *)
EXTENDS Snull
CONSTANTS d1, d2, p1, p2, q1, q2
Home21 == [p \in Packets |-> IF p = q1 THEN d2 ELSE d1]
Pool21 == [d \in Devs |-> IF d = d1 THEN <<p1, p2>> ELSE <<q1>>]
Home22 == [p \in Packets |-> IF p \in {q1, q2} THEN d2 ELSE d1]
Pool22 == [d \in Devs |-> IF d = d1 THEN <<p1, p2>> ELSE <<q1, q2>>]
=============================================================================

----------------------------- MODULE MCScullMem -----------------------------
(* Small instances of ScullMem for TLC: geometries of which one is square and *)
(* one is not, a device up to two items long.                                *)
EXTENDS ScullMem, TLC
CONSTANTS f1, f2, b1, b2
\* A write of two bytes, which may lie in two quanta, and one of none.
Pairs == {<<b1, b2>>, <<>>}
Symmetric == Permutations(Files)
=============================================================================

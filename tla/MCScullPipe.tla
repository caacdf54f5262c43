---------------------------- MODULE MCScullPipe -----------------------------
(* Small instances of ScullPipe for TLC. *)
EXTENDS ScullPipe, TLC
CONSTANTS f1, f2, f3, b1, b2
OneWay == {{"READ"}, {"WRITE"}}
AndNonblock == OneWay \cup {{"WRITE", "NONBLOCK"}}
OneByte == {<<>>, <<b1>>}
TwoBytes == {<<b1, b2>>}
Symmetric == Permutations(Files)

\* The interleavings do not depend on the bytes, only on how many there are.
Control ==
  <<scull_p_buffer, sem, alloc, buffersize, rp, wp, users, queues, pc, count, want,
    [f \in Files |-> Len(ubuf[f])]>>
=============================================================================

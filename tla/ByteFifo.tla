------------------------------ MODULE ByteFifo ------------------------------
(***************************************************************************)
(* What a pipe device promises its users: a bounded first-in first-out     *)
(* channel of bytes.  A write appends a prefix of the caller's data, a     *)
(* read takes a prefix of what is queued, and nothing else touches the     *)
(* queue but the open and close of the device.  ScullPipe implements it.   *)
(***************************************************************************)
EXTENDS Naturals, Sequences

CONSTANTS
  Files,     \* the open files that may use the channel
  Bytes,     \* the values of a byte
  Capacity   \* how many bytes the channel holds

VARIABLES
  users,     \* the files that have the channel open
  q,         \* the queued bytes, oldest first
  tosend,    \* tosend[f]: the data f's write call offers
  taken      \* taken[f]: the bytes f's read call carries back

vars == <<users, q, tosend, taken>>

Set(fn, f, v) == [fn EXCEPT ![f] = v]

Init ==
  /\ users = {}
  /\ q = <<>>
  /\ tosend = [f \in Files |-> <<>>]
  /\ taken = [f \in Files |-> <<>>]

Open(f) == users' = users \cup {f} /\ UNCHANGED <<q, tosend, taken>>

Close(f) ==
  /\ users' = users \ {f}
  /\ q' = IF users = {f} THEN <<>> ELSE q
  /\ UNCHANGED <<tosend, taken>>

Offer(f) ==
  /\ f \in users
  /\ tosend'[f] \in Seq(Bytes)
  /\ tosend' = Set(tosend, f, tosend'[f])
  /\ UNCHANGED <<users, q, taken>>

Abandon(f) ==
  tosend' = Set(tosend, f, <<>>) /\ UNCHANGED <<users, q, taken>>

Put(f) ==
  /\ \E n \in 1 .. Len(tosend[f]) :
       /\ Len(q) + n <= Capacity
       /\ q' = q \o SubSeq(tosend[f], 1, n)
  /\ tosend' = Set(tosend, f, <<>>)
  /\ UNCHANGED <<users, taken>>

Take(f) ==
  /\ f \in users
  /\ \E n \in 1 .. Len(q) :
       /\ taken' = Set(taken, f, SubSeq(q, 1, n))
       /\ q' = SubSeq(q, n + 1, Len(q))
  /\ UNCHANGED <<users, tosend>>

Deliver(f) ==
  taken' = Set(taken, f, <<>>) /\ UNCHANGED <<users, q, tosend>>

Transfer(f) == Offer(f) \/ Abandon(f) \/ Put(f) \/ Take(f) \/ Deliver(f)

\* The channel a user expects: bytes leave it only through a read, or when
\* the last user closes it.
Next == \E f \in Files : Open(f) \/ Close(f) \/ Transfer(f)
Spec == Init /\ [][Next]_vars
=============================================================================

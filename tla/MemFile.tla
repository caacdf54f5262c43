------------------------------ MODULE MemFile -------------------------------
(***************************************************************************)
(* What a memory device promises: a file of bytes.  Each read and write    *)
(* takes effect at one instant; a read returns bytes that stand at its     *)
(* position, a write stores a part of what it was given at its own, and    *)
(* whoever truncates it leaves it empty.  Bytes nobody wrote may read as   *)
(* anything.                                                               *)
(***************************************************************************)
EXTENDS Integers, Sequences

CONSTANTS Files, Bytes, Junk, Data, Counts, MaxSize

VARIABLES
  content,  \* the bytes, as many as the file is long
  pos,      \* where each file stands
  offer,    \* what each file's write was given: {} without one, {s} for the bytes s
  asked,    \* how much each file's read asked for
  got       \* what each file's read returned

vars == <<content, pos, offer, asked, got>>
Set(fn, f, v) == [fn EXCEPT ![f] = v]

Init ==
  /\ content = <<>>
  /\ pos = [f \in Files |-> 0]
  /\ offer = [f \in Files |-> {}]
  /\ asked = [f \in Files |-> 0]
  /\ got = [f \in Files |-> <<>>]

Close(f) == pos' = Set(pos, f, 0) /\ UNCHANGED <<content, offer, asked, got>>
Truncate == content' = <<>> /\ UNCHANGED <<pos, offer, asked, got>>
Seek(f) == (\E o \in 0 .. MaxSize : pos' = Set(pos, f, o)) /\ UNCHANGED <<content, offer, asked, got>>

Ask(f) ==
  /\ \/ \E s \in Data : offer' = Set(offer, f, {s}) /\ UNCHANGED asked
     \/ \E n \in Counts : asked' = Set(asked, f, n) /\ UNCHANGED offer
  /\ UNCHANGED <<content, pos, got>>

\* Nothing is returned only at the end, in a hole, or when nothing is asked for.
Read(f) ==
  /\ \E n \in 0 .. asked[f] :
       /\ n > 0 => pos[f] + n <= Len(content)
       /\ n = 0 => \/ asked[f] = 0 \/ pos[f] >= Len(content)
                   \/ content[pos[f] + 1] = Junk
       /\ got' = Set(got, f, SubSeq(content, pos[f] + 1, pos[f] + n))
       /\ pos' = Set(pos, f, pos[f] + n)
  /\ asked' = Set(asked, f, 0)
  /\ UNCHANGED <<content, offer>>

\* s stands at o, what is beyond the old end and before o is anything.
Overwritten(o, s, c) ==
  /\ Len(c) = IF o + Len(s) > Len(content) THEN o + Len(s) ELSE Len(content)
  /\ \A i \in 1 .. Len(c) :
       IF i \in o + 1 .. o + Len(s) THEN c[i] = s[i - o]
       ELSE IF i <= Len(content) THEN c[i] = content[i] ELSE c[i] \in Bytes \cup {Junk}

\* At least one byte is stored, if there is one; a write of none still makes the
\* file reach to where it stands.
Write(f) ==
  /\ \E s \in offer[f] : \E n \in 0 .. Len(s) :
       /\ n = 0 => s = <<>>
       /\ Overwritten(pos[f], SubSeq(s, 1, n), content')
       /\ pos' = Set(pos, f, pos[f] + n)
  /\ offer' = Set(offer, f, {})
  /\ UNCHANGED <<asked, got>>

\* A write that fails may have overwritten a part of what was there.
Fail(f) ==
  /\ \/ UNCHANGED content
     \/ \E s \in offer[f] : \E n \in 1 .. Len(s) :
          /\ Len(content') = Len(content)
          /\ \A i \in 1 .. Len(content) :
               content'[i] = IF i \in pos[f] + 1 .. pos[f] + n THEN s[i - pos[f]] ELSE content[i]
  /\ offer' = Set(offer, f, {}) /\ asked' = Set(asked, f, 0)
  /\ UNCHANGED <<pos, got>>

Return(f) == got' = Set(got, f, <<>>) /\ UNCHANGED <<content, pos, offer, asked>>

Next ==
  \/ Truncate
  \/ \E f \in Files : Close(f) \/ Seek(f) \/ Ask(f) \/ Read(f) \/ Write(f) \/ Fail(f) \/ Return(f)

Spec == Init /\ [][Next]_vars
=============================================================================

------------------------------ MODULE ScullMem ------------------------------
(***************************************************************************)
(* One scull memory device (scull/main.c): a list of items, each an array  *)
(* of qset pointers to quanta of quantum bytes, all allocated when first   *)
(* written.  NULL is <<>>.                                                 *)
(*                                                                         *)
(* A read or write copies the device's geometry before it takes the        *)
(* semaphore and does the rest holding it.  What is done holding it is one *)
(* step: no other call sees the inside.                                    *)
(***************************************************************************)
EXTENDS Integers, FiniteSets, Sequences

CONSTANTS
  Files,          \* the open files that may exist at once
  Bytes, Junk,    \* the values of a byte; what fresh memory holds
  Quanta, Qsets,  \* the values scull_quantum and scull_qset may be set to
  SCULL_QUANTUM, SCULL_QSET,  \* and their defaults
  Data,           \* bound: the byte strings a write may offer
  Counts,         \* bound: the lengths a read may ask for
  MaxSize         \* bound: the longest the device may grow

ASSUME GeometryAssumption ==
  /\ Quanta \subseteq Nat \ {0} /\ Qsets \subseteq Nat \ {0}
  /\ SCULL_QUANTUM \in Quanta /\ SCULL_QSET \in Qsets
ASSUME BytesAssumption == Junk \notin Bytes /\ Data \subseteq Seq(Bytes)
ASSUME BoundsAssumption == Counts \subseteq Nat /\ MaxSize \in Nat

VARIABLES
  scull_quantum, scull_qset,  \* the geometry the next trim gives a device
  quantum, qset, size, list,  \* of struct scull_dev; list[i] is an item's data
  pc,     \* where f's call stands
  pos,    \* f_pos
  geo,    \* the geometry f's call works with
  count,  \* what f's read asked for
  ubuf    \* what f's write offers, what f's read returned

globals == <<scull_quantum, scull_qset>>
dev     == <<quantum, qset, size, list>>
call    == <<geo, count, ubuf>>
vars    == <<globals, dev, pc, pos, call>>

Goto(f, label) == pc' = [pc EXCEPT ![f] = label]
NoGeo == [quantum |-> SCULL_QUANTUM, qset |-> SCULL_QSET]

Init ==
  /\ scull_quantum = SCULL_QUANTUM /\ scull_qset = SCULL_QSET
  /\ quantum = SCULL_QUANTUM /\ qset = SCULL_QSET
  /\ size = 0 /\ list = <<>>
  /\ pc = [f \in Files |-> "closed"]
  /\ pos = [f \in Files |-> 0]
  /\ geo = [f \in Files |-> NoGeo]
  /\ count = [f \in Files |-> 0]
  /\ ubuf = [f \in Files |-> <<>>]

\* The call returns to user space.
Return(f) ==
  /\ Goto(f, "open")
  /\ geo' = [geo EXCEPT ![f] = NoGeo]
  /\ count' = [count EXCEPT ![f] = 0]
  /\ ubuf' = [ubuf EXCEPT ![f] = <<>>]
-----------------------------------------------------------------------------
(***************************************************************************)
(* The ioctls.                                                             *)
(***************************************************************************)
SetQuantum == scull_quantum' \in Quanta /\ UNCHANGED <<scull_qset, dev, pc, pos, call>>
SetQset    == scull_qset' \in Qsets /\ UNCHANGED <<scull_quantum, dev, pc, pos, call>>
Reset ==
  /\ scull_quantum' = SCULL_QUANTUM /\ scull_qset' = SCULL_QSET
  /\ UNCHANGED <<dev, pc, pos, call>>
-----------------------------------------------------------------------------
(***************************************************************************)
(* open, release, lseek.                                                   *)
(***************************************************************************)
Open(f) ==
  /\ pc[f] = "closed"
  /\ \E label \in {"open", "trim"} : Goto(f, label)       \* "trim": O_WRONLY
  /\ UNCHANGED <<globals, dev, pos, call>>

\* scull_trim, with the semaphore held.
Trim(f) ==
  /\ pc[f] = "trim"
  /\ size' = 0 /\ list' = <<>>
  /\ quantum' = scull_quantum /\ qset' = scull_qset
  /\ Goto(f, "open")
  /\ UNCHANGED <<globals, pos, call>>

TrimInterrupted(f) ==                                     \* -ERESTARTSYS
  /\ pc[f] = "trim"
  /\ Goto(f, "closed")
  /\ UNCHANGED <<globals, dev, pos, call>>

Release(f) ==
  /\ pc[f] = "open"
  /\ Goto(f, "closed")
  /\ pos' = [pos EXCEPT ![f] = 0]                         \* f_pos goes with the file
  /\ UNCHANGED <<globals, dev, call>>

Seek(f) ==
  /\ pc[f] = "open"
  /\ \E o \in 0 .. MaxSize : pos' = [pos EXCEPT ![f] = o]
  /\ UNCHANGED <<globals, dev, pc, call>>
-----------------------------------------------------------------------------
(***************************************************************************)
(* Where a position lies, and what there is.                               *)
(***************************************************************************)
Place(o, g) ==
  [item  |-> o \div (g.quantum * g.qset),
   s_pos |-> (o % (g.quantum * g.qset)) \div g.quantum,
   q_pos |-> o % g.quantum]

\* What scull_follow makes of the list on its way to item n; only the longest
\* of these when every kmalloc succeeds.
Grown(k) == list \o [i \in 1 .. k |-> <<>>]
Missing(n) == IF n + 1 > Len(list) THEN n + 1 - Len(list) ELSE 0
Followed(n) == {Grown(k) : k \in 0 .. Missing(n)}
Reaches(ls, n) == n < Len(ls)

HasArray(ls, p) == Reaches(ls, p.item) /\ ls[p.item + 1] # <<>>
HasQuantum(ls, p) == HasArray(ls, p) /\ ls[p.item + 1][p.s_pos + 1] # <<>>

WithArray(ls, p, g) ==
  IF HasArray(ls, p) THEN ls
  ELSE [ls EXCEPT ![p.item + 1] = [s \in 1 .. g.qset |-> <<>>]]
WithQuantum(ls, p, g) ==
  IF HasQuantum(ls, p) THEN ls
  ELSE [ls EXCEPT ![p.item + 1][p.s_pos + 1] = [b \in 1 .. g.quantum |-> Junk]]

Stored(ls, p, s) ==
  [ls EXCEPT ![p.item + 1][p.s_pos + 1] =
     [b \in DOMAIN @ |-> IF b \in p.q_pos + 1 .. p.q_pos + Len(s) THEN s[b - p.q_pos] ELSE @[b]]]

Lesser(a, b) == IF a < b THEN a ELSE b
\* A call goes on to the end of its quantum at most.
InQuantum(n, p, g) == Lesser(n, g.quantum - p.q_pos)
-----------------------------------------------------------------------------
(***************************************************************************)
(* scull_read                                                              *)
(***************************************************************************)
Read(f) ==
  /\ pc[f] = "open"
  /\ geo' = [geo EXCEPT ![f] = [quantum |-> quantum, qset |-> qset]]
  /\ \E n \in Counts : count' = [count EXCEPT ![f] = n]
  /\ Goto(f, "r_down")
  /\ UNCHANGED <<globals, dev, pos, ubuf>>

\* At the end of the device the list is not even followed.
ReadEnd(f) ==
  /\ pc[f] = "r_down" /\ pos[f] >= size
  /\ Return(f)
  /\ UNCHANGED <<globals, dev, pos>>

\* Nothing there, or no memory to find out.
ReadHole(f) ==
  /\ pc[f] = "r_down" /\ pos[f] < size
  /\ LET p == Place(pos[f], geo[f])
     IN  \E ls \in Followed(p.item) : list' = ls /\ ~HasQuantum(ls, p)
  /\ Return(f)
  /\ UNCHANGED <<globals, quantum, qset, size, pos>>

ReadCopy(f) ==
  /\ pc[f] = "r_down" /\ pos[f] < size
  /\ LET p == Place(pos[f], geo[f])
         n == InQuantum(Lesser(count[f], size - pos[f]), p, geo[f])
         ls == Grown(Missing(p.item))
     IN  /\ HasQuantum(ls, p)
         /\ list' = ls
         /\ ubuf' = [ubuf EXCEPT ![f] =
                       SubSeq(ls[p.item + 1][p.s_pos + 1], p.q_pos + 1, p.q_pos + n)]
         /\ pos' = [pos EXCEPT ![f] = @ + n]
  /\ Goto(f, "r_done")
  /\ geo' = [geo EXCEPT ![f] = NoGeo]
  /\ count' = [count EXCEPT ![f] = 0]
  /\ UNCHANGED <<globals, quantum, qset, size>>

ReadReturns(f) ==
  /\ pc[f] = "r_done"
  /\ Return(f)
  /\ UNCHANGED <<globals, dev, pos>>

\* copy_to_user fails, after the list was followed as for ReadCopy.
ReadFaults(f) ==
  /\ pc[f] = "r_down" /\ pos[f] < size /\ count[f] > 0
  /\ LET p == Place(pos[f], geo[f])
         ls == Grown(Missing(p.item))
     IN  HasQuantum(ls, p) /\ list' = ls
  /\ Return(f)
  /\ UNCHANGED <<globals, quantum, qset, size, pos>>
-----------------------------------------------------------------------------
(***************************************************************************)
(* scull_write                                                             *)
(***************************************************************************)
Write(f) ==
  /\ pc[f] = "open"
  /\ geo' = [geo EXCEPT ![f] = [quantum |-> quantum, qset |-> qset]]
  /\ \E s \in Data :
       /\ ubuf' = [ubuf EXCEPT ![f] = s]
       /\ pos[f] + InQuantum(Len(s), Place(pos[f], geo'[f]), geo'[f]) <= MaxSize
  /\ Goto(f, "w_down")
  /\ UNCHANGED <<globals, dev, pos, count>>

\* -ENOMEM: for an item, for the array of the item, or for the quantum.
WriteNoMemory(f) ==
  /\ pc[f] = "w_down"
  /\ LET p == Place(pos[f], geo[f])
     IN  \E ls \in Followed(p.item) :
           \/ ~HasArray(ls, p) /\ list' = ls
           \/ Reaches(ls, p.item) /\ ~HasQuantum(ls, p) /\ list' = WithArray(ls, p, geo[f])
  /\ Return(f)
  /\ UNCHANGED <<globals, quantum, qset, size, pos>>

\* Mutant: the copy does not stop at the end of the quantum.
WriteBeyondQuantum(f) ==
  /\ pc[f] = "w_down"
  /\ LET g == geo[f]
         p == Place(pos[f], g)
         n == Len(ubuf[f])
         ls == WithQuantum(WithArray(Grown(Missing(p.item)), p, g), p, g)
     IN  /\ list' = Stored(ls, p, SubSeq(ubuf[f], 1, n))
         /\ pos' = [pos EXCEPT ![f] = @ + n]
         /\ size' = IF size < pos'[f] THEN pos'[f] ELSE size
  /\ Return(f)
  /\ UNCHANGED <<globals, quantum, qset>>

\* Where the bytes of a write go, everything allocated on the way.
Target(f, p) == WithQuantum(WithArray(Grown(Missing(p.item)), p, geo[f]), p, geo[f])

WriteCopy(f) ==
  /\ pc[f] = "w_down"
  /\ LET p == Place(pos[f], geo[f])
         n == InQuantum(Len(ubuf[f]), p, geo[f])
     IN  /\ list' = Stored(Target(f, p), p, SubSeq(ubuf[f], 1, n))
         /\ pos' = [pos EXCEPT ![f] = @ + n]
         /\ size' = IF size < pos'[f] THEN pos'[f] ELSE size
  /\ Return(f)
  /\ UNCHANGED <<globals, quantum, qset>>

\* copy_from_user stored a part before it failed; the size stays.
WriteFaults(f) ==
  /\ pc[f] = "w_down" /\ Len(ubuf[f]) > 0
  /\ LET p == Place(pos[f], geo[f])
     IN  \E n \in 0 .. InQuantum(Len(ubuf[f]), p, geo[f]) - 1 :
           list' = Stored(Target(f, p), p, SubSeq(ubuf[f], 1, n))
  /\ Return(f)
  /\ UNCHANGED <<globals, quantum, qset, size, pos>>

Interrupted(f) ==                                         \* -ERESTARTSYS
  /\ pc[f] \in {"r_down", "w_down"}
  /\ Return(f)
  /\ UNCHANGED <<globals, dev, pos>>
-----------------------------------------------------------------------------
Ioctl == SetQuantum \/ SetQset \/ Reset

Step(f) ==
  \/ Open(f) \/ TrimInterrupted(f) \/ Release(f) \/ Seek(f)
  \/ Read(f) \/ ReadEnd(f) \/ ReadHole(f) \/ ReadCopy(f) \/ ReadReturns(f) \/ ReadFaults(f)
  \/ Write(f) \/ WriteNoMemory(f) \/ WriteCopy(f) \/ WriteFaults(f)
  \/ Interrupted(f)

Next == Ioctl \/ \E f \in Files : Step(f) \/ Trim(f)

Spec == Init /\ [][Next]_vars

(***************************************************************************)
(* The usage the code needs: no call stands between its copy of the        *)
(* geometry and the semaphore (main.c:297-302, 341-346) while an open      *)
(* gives the device another one.                                           *)
(***************************************************************************)
Standing == {f \in Files : pc[f] \in {"r_down", "w_down"}}
QuietNext ==
  \/ Ioctl
  \/ \E f \in Files :
       \/ Step(f)
       \/ (Standing = {} \/ <<quantum, qset>> = globals) /\ Trim(f)

QuietSpec == Init /\ [][QuietNext]_vars
-----------------------------------------------------------------------------
ByteAt(o) ==
  LET p == Place(o, [quantum |-> quantum, qset |-> qset])
  IN  IF HasQuantum(list, p) THEN list[p.item + 1][p.s_pos + 1][p.q_pos + 1] ELSE Junk

File == INSTANCE MemFile WITH
  content <- [i \in 1 .. size |-> ByteAt(i - 1)],
  offer <- [f \in Files |-> IF pc[f] = "w_down" THEN {ubuf[f]} ELSE {}],
  asked <- count,
  got <- [f \in Files |-> IF pc[f] = "r_done" THEN ubuf[f] ELSE <<>>]

\* The device is a file of bytes (main.c:262-387): whatever the geometry, what is
\* written at an offset is what is read there, nothing else changes, and a read
\* returns nothing only at the end or where nothing was written.
IsFile == File!Spec
=============================================================================

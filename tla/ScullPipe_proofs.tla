--------------------------- MODULE ScullPipe_proofs --------------------------
(***************************************************************************)
(* Proofs about ScullPipe, for any set of files, any buffer sizes and any  *)
(* data: what every use of the pipe keeps, what its quiet use keeps, and   *)
(* that in quiet use it implements ByteFifo.                               *)
(***************************************************************************)
EXTENDS ScullPipe, FiniteSetTheorems, SequenceTheorems, TLAPS

USE FilesAssumption, BytesAssumption, SizesAssumption, ModesAssumption, DataAssumption

(***************************************************************************)
(* Facts about the helpers.                                                *)
(***************************************************************************)
\* The least of two integers, as the min() of the copies.
LEMMA LeastOfTwo ==
  ASSUME NEW a \in Int, NEW b \in Int
  PROVE  /\ Least({a, b}) \in {a, b}
         /\ Least({a, b}) <= a /\ Least({a, b}) <= b
<1>1. \E m \in {a, b} : \A s \in {a, b} : m <= s
  <2>1. CASE a <= b  BY <2>1
  <2>2. CASE b <= a  BY <2>2
  <2> QED BY <2>1, <2>2
<1> QED BY <1>1 DEF Least

\* The same for three.
LEMMA LeastOfThree ==
  ASSUME NEW a \in Int, NEW b \in Int, NEW c \in Int
  PROVE  /\ Least({a, b, c}) \in {a, b, c}
         /\ Least({a, b, c}) <= a /\ Least({a, b, c}) <= b /\ Least({a, b, c}) <= c
<1>1. \E m \in {a, b, c} : \A s \in {a, b, c} : m <= s
  <2>1. CASE a <= b /\ a <= c  BY <2>1
  <2>2. CASE b <= a /\ b <= c  BY <2>2
  <2>3. CASE c <= a /\ c <= b  BY <2>3
  <2> QED BY <2>1, <2>2, <2>3
<1> QED BY <1>1 DEF Least

\* The remainder spacefree (pipe.c:185) computes, without the division.
LEMMA Remainder ==
  ASSUME NEW n \in Nat \ {0}, NEW d \in 0 .. 2 * n - 1
  PROVE  d % n = IF d < n THEN d ELSE d - n
OBVIOUS

-----------------------------------------------------------------------------
(***************************************************************************)
(* The semaphore excludes.                                                 *)
(***************************************************************************)
\* Whoever takes the semaphore goes from outside a critical section into one.
LEMMA LockedLabels ==
  /\ DOMAIN Locked = {"open", "rel", "r_down", "w_down", "p_down"}
  /\ Locked["open"] = "open_cs" /\ Locked["rel"] = "rel_cs" /\ Locked["r_down"] = "r_loop"
  /\ Locked["w_down"] = "w_loop" /\ Locked["p_down"] = "p_cs"
BY DEF Locked

\* Only Down takes the semaphore, into a critical section, and every step out of
\* one releases it.
LEMMA SemStep == TypeOK /\ SemExcludes /\ [Next]_vars => SemExcludes'
<1> SUFFICES ASSUME TypeOK, SemExcludes, [Next]_vars PROVE SemExcludes'
  OBVIOUS
<1>a. pc \in [Files -> Labels] /\ sem \in Files \cup {Free}  BY DEF TypeOK
<1> USE <1>a DEF SemExcludes, Critical, Goto, Up, Return
<1>1. CASE SetBufferSize  BY <1>1 DEF SetBufferSize
<1>2. CASE UNCHANGED vars  BY <1>2 DEF vars
<1>3. ASSUME NEW f \in Files, Down(f) PROVE SemExcludes'
  BY <1>3, LockedLabels DEF Down
<1>4. ASSUME NEW f \in Files, OpenFails(f) PROVE SemExcludes'
  BY <1>4 DEF OpenFails
<1>5. ASSUME NEW f \in Files, OpenSucceeds(f) PROVE SemExcludes'
  BY <1>5 DEF OpenSucceeds
<1>6. ASSUME NEW f \in Files, ReleaseCounts(f) PROVE SemExcludes'
  BY <1>6 DEF ReleaseCounts
<1>7. ASSUME NEW f \in Files, ReadEmpty(f) PROVE SemExcludes'
  BY <1>7 DEF ReadEmpty
<1>8. ASSUME NEW f \in Files, ReadWait(f) PROVE SemExcludes'
  BY <1>8 DEF ReadWait
<1>9. ASSUME NEW f \in Files, ReadTest(f) PROVE SemExcludes'
  BY <1>9 DEF ReadTest
<1>10. ASSUME NEW f \in Files, ReadWoken(f) PROVE SemExcludes'
  BY <1>10 DEF ReadWoken
<1>11. ASSUME NEW f \in Files, ReadTake(f) PROVE SemExcludes'
  BY <1>11 DEF ReadTake
<1>12. ASSUME NEW f \in Files, ReadWrap(f) PROVE SemExcludes'
  BY <1>12 DEF ReadWrap
<1>13. ASSUME NEW f \in Files, ReadWake(f) PROVE SemExcludes'
  BY <1>13 DEF ReadWake
<1>14. ASSUME NEW f \in Files, WriteFull(f) PROVE SemExcludes'
  BY <1>14 DEF WriteFull
<1>15. ASSUME NEW f \in Files, WriteWait(f) PROVE SemExcludes'
  BY <1>15 DEF WriteWait
<1>16. ASSUME NEW f \in Files, WriteTest(f) PROVE SemExcludes'
  BY <1>16 DEF WriteTest
<1>17. ASSUME NEW f \in Files, WriteWoken(f) PROVE SemExcludes'
  BY <1>17 DEF WriteWoken
<1>18. ASSUME NEW f \in Files, WritePut(f) PROVE SemExcludes'
  BY <1>18 DEF WritePut
<1>19. ASSUME NEW f \in Files, WriteWrap(f) PROVE SemExcludes'
  BY <1>19 DEF WriteWrap
<1>20. ASSUME NEW f \in Files, WriteWake(f) PROVE SemExcludes'
  BY <1>20 DEF WriteWake
<1>21. ASSUME NEW f \in Files, PollTest(f) PROVE SemExcludes'
  BY <1>21 DEF PollTest
<1>22. ASSUME NEW f \in Files, PollWoken(f) PROVE SemExcludes'
  BY <1>22 DEF PollWoken
<1>23. ASSUME NEW f \in Files, Open(f) PROVE SemExcludes'
  BY <1>23 DEF Open
<1>24. ASSUME NEW f \in Files, Release(f) PROVE SemExcludes'
  BY <1>24 DEF Release
<1>25. ASSUME NEW f \in Files, Fasync(f) PROVE SemExcludes'
  BY <1>25 DEF Fasync
<1>26. ASSUME NEW f \in Files, Read(f) PROVE SemExcludes'
  BY <1>26 DEF Read
<1>27. ASSUME NEW f \in Files, Write(f) PROVE SemExcludes'
  BY <1>27 DEF Write
<1>28. ASSUME NEW f \in Files, Poll(f) PROVE SemExcludes'
  BY <1>28 DEF Poll
<1>29. ASSUME NEW f \in Files, ReadFaults(f) PROVE SemExcludes'
  BY <1>29 DEF ReadFaults
<1>30. ASSUME NEW f \in Files, WriteFaults(f) PROVE SemExcludes'
  BY <1>30 DEF WriteFaults
<1>31. ASSUME NEW f \in Files, Interrupted(f) PROVE SemExcludes'
  BY <1>31 DEF Interrupted
<1>32. ASSUME NEW f \in Files, ReadSignalled(f) PROVE SemExcludes'
  BY <1>32 DEF ReadSignalled
<1> QED
  BY <1>1, <1>2, <1>3, <1>4, <1>5, <1>6, <1>7, <1>8, <1>9, <1>10, <1>11, <1>12,
    <1>13, <1>14, <1>15, <1>16, <1>17, <1>18, <1>19, <1>20, <1>21, <1>22, <1>23,
    <1>24, <1>25, <1>26, <1>27, <1>28, <1>29, <1>30, <1>31, <1>32
    DEF Next, Step, UserCall, Fault
(***************************************************************************)
(* A step of one file leaves the calls of the others alone.                *)
(***************************************************************************)
Act(f) == Down(f) \/ Step(f) \/ UserCall(f) \/ Fault(f)
Same(g) ==
  /\ pc'[g] = pc[g] /\ flags'[g] = flags[g]
  /\ count'[g] = count[g] /\ ubuf'[g] = ubuf[g] /\ want'[g] = want[g]

\* What the records of the calls range over, all that most steps need.
CallTypes ==
  /\ pc \in [Files -> Labels] /\ flags \in [Files -> SUBSET {"READ", "WRITE", "NONBLOCK"}]
  /\ count \in [Files -> 0 .. MaxCount] /\ ubuf \in [Files -> Seq(Bytes \cup {Junk})]
  /\ want \in [Files -> {"in", "out", "none"}]

\* A step of f changes no other file's place, flags, buffer or request.
LEMMA OthersKeep ==
  ASSUME CallTypes, NEW f \in Files, Act(f), NEW g \in Files, g # f PROVE Same(g)
<1> USE DEF CallTypes, Same, Goto, Return, users, call
<1>1. CASE Down(f)
  BY <1>1, LockedLabels DEF Down
<1>2. CASE OpenFails(f)
  BY <1>2 DEF OpenFails
<1>3. CASE OpenSucceeds(f)
  BY <1>3 DEF OpenSucceeds
<1>4. CASE ReleaseCounts(f)
  BY <1>4 DEF ReleaseCounts
<1>5. CASE ReadEmpty(f)
  BY <1>5 DEF ReadEmpty
<1>6. CASE ReadWait(f)
  BY <1>6 DEF ReadWait
<1>7. CASE ReadTest(f)
  BY <1>7 DEF ReadTest
<1>8. CASE ReadWoken(f)
  BY <1>8 DEF ReadWoken
<1>9. CASE ReadTake(f)
  BY <1>9 DEF ReadTake
<1>10. CASE ReadWrap(f)
  BY <1>10 DEF ReadWrap
<1>11. CASE ReadWake(f)
  BY <1>11 DEF ReadWake
<1>12. CASE WriteFull(f)
  BY <1>12 DEF WriteFull
<1>13. CASE WriteWait(f)
  BY <1>13 DEF WriteWait
<1>14. CASE WriteTest(f)
  BY <1>14 DEF WriteTest
<1>15. CASE WriteWoken(f)
  BY <1>15 DEF WriteWoken
<1>16. CASE WritePut(f)
  BY <1>16 DEF WritePut
<1>17. CASE WriteWrap(f)
  BY <1>17 DEF WriteWrap
<1>18. CASE WriteWake(f)
  BY <1>18 DEF WriteWake
<1>19. CASE PollTest(f)
  BY <1>19 DEF PollTest
<1>20. CASE PollWoken(f)
  BY <1>20 DEF PollWoken
<1>21. CASE Open(f)
  BY <1>21 DEF Open
<1>22. CASE Release(f)
  BY <1>22 DEF Release
<1>23. CASE Fasync(f)
  BY <1>23 DEF Fasync
<1>24. CASE Read(f)
  BY <1>24 DEF Read
<1>25. CASE Write(f)
  BY <1>25 DEF Write
<1>26. CASE Poll(f)
  BY <1>26 DEF Poll
<1>27. CASE ReadFaults(f)
  BY <1>27 DEF ReadFaults
<1>28. CASE WriteFaults(f)
  BY <1>28 DEF WriteFaults
<1>29. CASE Interrupted(f)
  BY <1>29 DEF Interrupted
<1>30. CASE ReadSignalled(f)
  BY <1>30 DEF ReadSignalled
<1> QED
  BY <1>1, <1>2, <1>3, <1>4, <1>5, <1>6, <1>7, <1>8, <1>9, <1>10, <1>11, <1>12,
    <1>13, <1>14, <1>15, <1>16, <1>17, <1>18, <1>19, <1>20, <1>21, <1>22, <1>23,
    <1>24, <1>25, <1>26, <1>27, <1>28, <1>29, <1>30
    DEF Act, Step, UserCall, Fault

(***************************************************************************)
(* What a call carries along.                                              *)
(***************************************************************************)
\* A step of f keeps what its call carries along.
LEMMA ShapeStep ==
  ASSUME CallTypes, NEW f \in Files, Act(f), ShapeOf(f) PROVE ShapeOf(f)'
<1> USE DEF CallTypes, ShapeOf, Offering, Goto, Return, users, call
<1>1. CASE Down(f)
  BY <1>1, LockedLabels DEF Down
<1>2. CASE OpenFails(f)
  BY <1>2 DEF OpenFails
<1>3. CASE OpenSucceeds(f)
  BY <1>3 DEF OpenSucceeds
<1>4. CASE ReleaseCounts(f)
  BY <1>4 DEF ReleaseCounts
<1>5. CASE ReadEmpty(f)
  BY <1>5 DEF ReadEmpty
<1>6. CASE ReadWait(f)
  BY <1>6 DEF ReadWait
<1>7. CASE ReadTest(f)
  BY <1>7 DEF ReadTest
<1>8. CASE ReadWoken(f)
  BY <1>8 DEF ReadWoken
<1>9. CASE ReadTake(f)
  BY <1>9 DEF ReadTake
<1>10. CASE ReadWrap(f)
  BY <1>10 DEF ReadWrap
<1>11. CASE ReadWake(f)
  BY <1>11 DEF ReadWake
<1>12. CASE WriteFull(f)
  BY <1>12 DEF WriteFull
<1>13. CASE WriteWait(f)
  BY <1>13 DEF WriteWait
<1>14. CASE WriteTest(f)
  BY <1>14 DEF WriteTest
<1>15. CASE WriteWoken(f)
  BY <1>15 DEF WriteWoken
<1>16. CASE WritePut(f)
  BY <1>16 DEF WritePut
<1>17. CASE WriteWrap(f)
  BY <1>17 DEF WriteWrap
<1>18. CASE WriteWake(f)
  BY <1>18 DEF WriteWake
<1>19. CASE PollTest(f)
  BY <1>19 DEF PollTest, LeaveQueues
<1>20. CASE PollWoken(f)
  BY <1>20 DEF PollWoken
<1>21. CASE Open(f)
  BY <1>21 DEF Open
<1>22. CASE Release(f)
  BY <1>22 DEF Release, IsOpen
<1>23. CASE Fasync(f)
  BY <1>23 DEF Fasync
<1>24. CASE Read(f)
  BY <1>24 DEF Read
<1>25. CASE Write(f)
  <2>1. PICK s \in Data : ubuf' = [ubuf EXCEPT ![f] = s] /\ count' = [count EXCEPT ![f] = Len(s)]
    BY <1>25 DEF Write
  <2> QED BY <1>25, <2>1 DEF Write
<1>26. CASE Poll(f)
  BY <1>26 DEF Poll, IsOpen
<1>27. CASE ReadFaults(f)
  BY <1>27 DEF ReadFaults
<1>28. CASE WriteFaults(f)
  BY <1>28 DEF WriteFaults
<1>29. CASE Interrupted(f)
  BY <1>29 DEF Interrupted
<1>30. CASE ReadSignalled(f)
  BY <1>30 DEF ReadSignalled
<1> QED
  BY <1>1, <1>2, <1>3, <1>4, <1>5, <1>6, <1>7, <1>8, <1>9, <1>10, <1>11, <1>12,
    <1>13, <1>14, <1>15, <1>16, <1>17, <1>18, <1>19, <1>20, <1>21, <1>22, <1>23,
    <1>24, <1>25, <1>26, <1>27, <1>28, <1>29, <1>30
    DEF Act, Step, UserCall, Fault

(***************************************************************************)
(* The ring.  Away from an advance both pointers stand inside the buffer,  *)
(* where spacefree is what is left of it and the copies are bounded by it. *)
(***************************************************************************)
DevTypes ==
  /\ scull_p_buffer \in Nat \ {0} /\ scull_p_buffer <= MaxSize
  /\ alloc \in Nat /\ alloc <= MaxSize /\ buffersize \in Nat
  /\ rp \in Nat /\ wp \in Nat
  /\ mem \in [Offsets -> Bytes \cup {Junk}]

Inside == buffersize > 0 /\ rp < buffersize /\ wp < buffersize

\* With both pointers inside, Queued counts the bytes, is 0 just when rp = wp,
\* and spacefree (pipe.c:181-186) is what the other slots leave, one kept free.
LEMMA QueuedInside ==
  ASSUME DevTypes, Inside, alloc > 0
  PROVE  /\ Queued = wp - rp + (IF wp < rp THEN buffersize ELSE 0)
         /\ Queued \in 0 .. buffersize - 1
         /\ Queued = 0 <=> Empty
         /\ spacefree = buffersize - 1 - Queued
<1>1. /\ Queued = wp - rp + (IF wp < rp THEN buffersize ELSE 0)
      /\ Queued \in 0 .. buffersize - 1
      /\ Queued = 0 <=> Empty
  BY DEF DevTypes, Inside, Queued, Wrapped, Empty
<1>2. CASE Empty  BY <1>1, <1>2 DEF spacefree, Empty, Inside, DevTypes
<1>3. CASE ~Empty
  <2>1. rp + buffersize - wp \in 0 .. 2 * buffersize - 1
    BY DEF Inside, DevTypes
  <2>2. (rp + buffersize - wp) % buffersize
          = IF rp + buffersize - wp < buffersize THEN rp + buffersize - wp ELSE rp - wp
    BY <2>1, Remainder DEF Inside, DevTypes
  <2> QED BY <1>1, <1>3, <2>2 DEF spacefree, Empty, Inside, DevTypes
<1> QED BY <1>1, <1>2, <1>3

\* What a read takes (pipe.c:138-141): within the queue, and something if asked.
LEMMA ReadableBounds ==
  ASSUME DevTypes, Inside, alloc > 0, ~Empty, NEW n \in Nat
  PROVE  /\ Readable(n) \in Nat /\ Readable(n) <= n
         /\ Readable(n) <= Queued /\ rp + Readable(n) <= buffersize
         /\ n > 0 => Readable(n) > 0
<1> DEFINE c == IF wp > rp THEN wp - rp ELSE buffersize - rp
<1>1. c \in Int /\ c > 0 /\ c <= Queued /\ rp + c <= buffersize
  BY QueuedInside DEF Inside, DevTypes, Empty
<1>2. Readable(n) = Least({n, c})  BY DEF Readable
<1> HIDE DEF c
<1>3. Readable(n) \in {n, c} /\ Readable(n) <= n /\ Readable(n) <= c
  <2>1. n \in Int /\ c \in Int  BY <1>1
  <2> QED BY <2>1, <1>2, LeastOfTwo, Zenon
<1>4. Queued \in Nat  BY QueuedInside DEF DevTypes, Inside
<1> QED BY <1>1, <1>3, <1>4 DEF DevTypes

\* What a write accepts (pipe.c:203-207): within the space, and something if
\* offered.
LEMMA WritableBounds ==
  ASSUME DevTypes, Inside, alloc > 0, spacefree # 0, NEW n \in Nat
  PROVE  /\ Writable(n) \in Nat /\ Writable(n) <= n
         /\ Writable(n) <= spacefree /\ wp + Writable(n) <= buffersize
         /\ n > 0 => Writable(n) > 0
<1> DEFINE c == IF wp >= rp THEN buffersize - wp ELSE rp - wp - 1
<1>1. spacefree \in Nat \ {0} /\ c \in Int /\ c > 0 /\ wp + c <= buffersize
  BY QueuedInside DEF Inside, DevTypes
<1>2. Writable(n) = Least({n, spacefree, c})  BY DEF Writable
<1> HIDE DEF c
<1>3. /\ Writable(n) \in {n, spacefree, c}
      /\ Writable(n) <= n /\ Writable(n) <= spacefree /\ Writable(n) <= c
  <2>1. n \in Int /\ spacefree \in Int /\ c \in Int  BY <1>1
  <2>2. /\ Least({n, spacefree, c}) \in {n, spacefree, c}
        /\ Least({n, spacefree, c}) <= n /\ Least({n, spacefree, c}) <= spacefree
        /\ Least({n, spacefree, c}) <= c
    BY <2>1, LeastOfThree, Zenon
  <2> QED BY <2>2, <1>2
<1> QED BY <1>1, <1>3 DEF DevTypes

-----------------------------------------------------------------------------
(***************************************************************************)
(* Six actions move the ring or the counts.  The others only move a call,  *)
(* and not into or out of an advance, an open or a close.                  *)
(***************************************************************************)
Still(f) ==
  /\ UNCHANGED <<alloc, buffersize, rp, wp, nreaders, nwriters>>
  /\ pc[f] \notin {"r_adv", "w_adv"}
  /\ pc'[f] \notin {"r_adv", "w_adv", "r_wake", "w_wake"}
  /\ IsOpen(f)' <=> IsOpen(f)
  /\ IsOpen(f) => flags'[f] = flags[f]
  /\ mem' = mem \/ WriteFaults(f)

\* Every step of f is one of the six moves or leaves ring and counts alone.
LEMMA MoveOrStill ==
  ASSUME CallTypes, NEW f \in Files, Act(f), ShapeOf(f)
  PROVE  \/ OpenSucceeds(f) \/ ReleaseCounts(f) \/ ReadTake(f) \/ ReadWrap(f)
         \/ WritePut(f) \/ WriteWrap(f) \/ Still(f)
<1> USE DEF CallTypes, Still, ShapeOf, IsOpen, Goto, Return
<1>1. CASE Down(f)
  BY <1>1, LockedLabels DEF Down, dev, users
<1>2. CASE OpenFails(f)
  BY <1>2 DEF OpenFails, dev, users
<1>3. CASE OpenSucceeds(f)
  BY <1>3
<1>4. CASE ReleaseCounts(f)
  BY <1>4
<1>5. CASE ReadEmpty(f)
  BY <1>5 DEF ReadEmpty, dev, users
<1>6. CASE ReadWait(f)
  BY <1>6 DEF ReadWait, dev, users
<1>7. CASE ReadTest(f)
  BY <1>7 DEF ReadTest, dev, users
<1>8. CASE ReadWoken(f)
  BY <1>8 DEF ReadWoken, dev, users
<1>9. CASE ReadTake(f)
  BY <1>9
<1>10. CASE ReadWrap(f)
  BY <1>10
<1>11. CASE ReadWake(f)
  BY <1>11 DEF ReadWake, dev, users
<1>12. CASE WriteFull(f)
  BY <1>12 DEF WriteFull, dev, users
<1>13. CASE WriteWait(f)
  BY <1>13 DEF WriteWait, dev, users
<1>14. CASE WriteTest(f)
  BY <1>14 DEF WriteTest, dev, users
<1>15. CASE WriteWoken(f)
  BY <1>15 DEF WriteWoken, dev, users
<1>16. CASE WritePut(f)
  BY <1>16
<1>17. CASE WriteWrap(f)
  BY <1>17
<1>18. CASE WriteWake(f)
  BY <1>18 DEF WriteWake, dev, users
<1>19. CASE PollTest(f)
  BY <1>19 DEF PollTest, dev, users
<1>20. CASE PollWoken(f)
  BY <1>20 DEF PollWoken, dev, users
<1>21. CASE Open(f)
  BY <1>21 DEF Open, dev, users
<1>22. CASE Release(f)
  BY <1>22 DEF Release, dev, users
<1>23. CASE Fasync(f)
  BY <1>23 DEF Fasync, dev, users
<1>24. CASE Read(f)
  BY <1>24 DEF Read, dev, users
<1>25. CASE Write(f)
  BY <1>25 DEF Write, dev, users
<1>26. CASE Poll(f)
  BY <1>26 DEF Poll, dev, users
<1>27. CASE ReadFaults(f)
  BY <1>27 DEF ReadFaults, dev, users
<1>28. CASE WriteFaults(f)
  BY <1>28 DEF WriteFaults, dev, users
<1>29. CASE Interrupted(f)
  BY <1>29 DEF Interrupted, dev, users
<1>30. CASE ReadSignalled(f)
  BY <1>30 DEF ReadSignalled, dev, users
<1> QED
  BY <1>1, <1>2, <1>3, <1>4, <1>5, <1>6, <1>7, <1>8, <1>9, <1>10, <1>11, <1>12,
    <1>13, <1>14, <1>15, <1>16, <1>17, <1>18, <1>19, <1>20, <1>21, <1>22, <1>23,
    <1>24, <1>25, <1>26, <1>27, <1>28, <1>29, <1>30
    DEF Act, Step, UserCall, Fault

\* The types a step about the ring needs, from the type invariant.
LEMMA Types == TypeOK => CallTypes /\ DevTypes
BY DEF TypeOK, CallTypes, DevTypes

\* A call finds the device open: there is a buffer (pipe.c:105).
LEMMA CallHasBuffer ==
  ASSUME TypeOK, CallShape, OpenCounts, NEW f \in Files,
         pc[f] \notin {"idle", "open", "open_cs"}
  PROVE  alloc > 0 /\ buffersize > 0
BY DEF CallShape, ShapeOf, OpenCounts, IsOpen

\* Whoever is in a critical section and has not advanced a pointer sees both
\* inside the buffer; whoever has advanced one sees the other inside.
LEMMA RingInside ==
  ASSUME TypeOK, SemExcludes, CallShape, OpenCounts, RingWraps, NEW f \in Files
  PROVE  /\ pc[f] \in {"rel_cs", "r_loop", "w_loop", "p_cs"} => Inside
         /\ pc[f] = "r_adv" => rp <= buffersize /\ wp < buffersize
         /\ pc[f] = "w_adv" => rp < buffersize /\ wp <= buffersize
<1>1. CASE pc[f] \notin {"rel_cs", "r_loop", "w_loop", "p_cs", "r_adv", "w_adv"}
  BY <1>1
<1>2. CASE pc[f] \in {"rel_cs", "r_loop", "w_loop", "p_cs", "r_adv", "w_adv"}
  <2>1. alloc > 0 /\ buffersize > 0  BY <1>2, CallHasBuffer
  <2>2. sem = f /\ \A g \in Files : pc[g] \in {"r_adv", "w_adv"} => g = f
    BY <1>2 DEF SemExcludes, Critical
  <2>3. rp \in Nat /\ wp \in Nat /\ buffersize \in Nat  BY DEF TypeOK
  <2> QED BY <1>2, <2>1, <2>2, <2>3 DEF RingWraps, Inside
<1> QED BY <1>1, <1>2


\* What a write stores is the prefix of its data that it may (pipe.c:203-209).
LEMMA PutStores ==
  ASSUME TypeOK, SemExcludes, CallShape, OpenCounts, RingWraps, NEW f \in Files,
         pc[f] = "w_loop", spacefree # 0, NEW n \in Nat, n <= Writable(count[f])
  PROVE  /\ SubSeq(ubuf[f], 1, n) \in Seq(Bytes \cup {Junk})
         /\ Len(SubSeq(ubuf[f], 1, n)) = n
         /\ \A i \in 1 .. n : SubSeq(ubuf[f], 1, n)[i] = ubuf[f][i]
<1>1. alloc > 0 /\ Inside  BY CallHasBuffer, RingInside
<1>2. count[f] \in Nat /\ count[f] = Len(ubuf[f]) /\ ubuf[f] \in Seq(Bytes \cup {Junk})
  BY DEF TypeOK, CallShape, ShapeOf, Offering
<1>3. DevTypes  BY Types
<1>4. Writable(count[f]) \in Nat /\ Writable(count[f]) <= count[f]
  BY <1>1, <1>2, <1>3, WritableBounds
<1>5. \A i \in 1 .. n : ubuf[f][i] \in Bytes \cup {Junk}  BY <1>2, <1>4
<1> QED BY <1>5, SubSeqProperties

\* What a read takes are as many bytes as it counted.
LEMMA FetchReads ==
  ASSUME DevTypes, NEW n \in Nat
  PROVE  Fetch(n) \in Seq(Bytes \cup {Junk}) /\ Len(Fetch(n)) = n
<1>1. Fetch(n) \in [1 .. n -> Bytes \cup {Junk}]
  <2>1. \A i \in 1 .. n : rp + i - 1 < alloc => rp + i - 1 \in Offsets
    BY DEF DevTypes, Offsets
  <2> QED BY <2>1 DEF Fetch, DevTypes
<1> QED BY <1>1

(***************************************************************************)
(* The pointers stay in the ring.                                          *)
(***************************************************************************)
\* Every step keeps both pointers in the buffer.
LEMMA RingStep ==
  ASSUME TypeOK, SemExcludes, CallShape, OpenCounts, RingWraps,
         NEW f \in Files, Act(f)
  PROVE  RingWraps'
<1>a. CallTypes /\ DevTypes /\ ShapeOf(f)  BY Types DEF CallShape
<1>b. \A g \in Files : g # f => pc'[g] = pc[g] /\ ubuf'[g] = ubuf[g]
  BY <1>a, OthersKeep DEF Same
<1>c. pc[f] \in Critical => \A g \in Files : g # f => pc[g] \notin Critical
  BY DEF SemExcludes
<1>1. CASE OpenSucceeds(f)
  BY <1>1, <1>a, <1>b, <1>c DEF OpenSucceeds, Goto, RingWraps, CallTypes, DevTypes, Critical
<1>2. CASE ReleaseCounts(f)
  <2>1. Inside  BY <1>2, RingInside DEF ReleaseCounts
  <2> QED BY <1>2, <2>1, <1>a, <1>b, <1>c
        DEF ReleaseCounts, Goto, RingWraps, CallTypes, DevTypes, Critical, Inside
<1>3. CASE ReadTake(f)
  <2>1. alloc > 0 /\ Inside /\ ~Empty  BY <1>3, CallHasBuffer, RingInside DEF ReadTake
  <2>2. Readable(count[f]) \in Nat /\ rp + Readable(count[f]) <= buffersize
    BY <2>1, <1>a, ReadableBounds DEF CallTypes
  <2>3. rp' = rp + Readable(count[f]) /\ UNCHANGED <<buffersize, wp>>
    BY <1>3 DEF ReadTake
  <2>4. pc'[f] = "r_adv" /\ \A g \in Files : pc'[g] # "w_adv"
    BY <1>3, <1>a, <1>b, <1>c DEF ReadTake, Goto, CallTypes, Critical
  <2> DEFINE n == Readable(count[f])
  <2>5. n \in Nat /\ rp + n <= buffersize /\ rp' = rp + n  BY <2>2, <2>3
  <2> HIDE DEF n
  <2>6. wp < buffersize /\ rp \in Nat /\ wp \in Nat /\ buffersize \in Nat
    BY <2>1, <1>a DEF Inside, DevTypes
  <2>7. rp' <= buffersize' /\ wp' < buffersize'  BY <2>3, <2>5, <2>6
  <2>8. wp' \in Nat /\ buffersize' \in Nat  BY <2>3, <2>6
  <2> QED BY <2>4, <2>7, <2>8, <1>3 DEF RingWraps
<1>4. CASE ReadWrap(f)
  <2>1. rp <= buffersize /\ wp < buffersize  BY <1>4, RingInside DEF ReadWrap
  <2>2. alloc > 0 /\ buffersize > 0  BY <1>4, CallHasBuffer DEF ReadWrap
  <2>3. rp' = (IF rp = buffersize THEN 0 ELSE rp) /\ UNCHANGED <<buffersize, wp>>
    BY <1>4 DEF ReadWrap
  <2>4. \A g \in Files : pc'[g] # "w_adv"
    BY <1>4, <1>a, <1>b, <1>c DEF ReadWrap, Goto, CallTypes, Critical
  <2> QED BY <2>1, <2>2, <2>3, <2>4, <1>a DEF RingWraps, DevTypes
<1>5. CASE WritePut(f)
  <2> DEFINE n == Writable(count[f])
  <2>1. alloc > 0 /\ Inside /\ spacefree # 0 /\ pc[f] = "w_loop"
    BY <1>5, CallHasBuffer, RingInside DEF WritePut
  <2>2. n \in Nat /\ n <= spacefree /\ wp + n <= buffersize
    BY <2>1, <1>a, WritableBounds DEF CallTypes
  <2>3. Len(SubSeq(ubuf[f], 1, n)) = n  BY <2>1, <2>2, PutStores
  <2> HIDE DEF n
  <2>4. /\ wp' = wp + n /\ UNCHANGED <<alloc, buffersize, rp>>
        /\ ubuf' = [ubuf EXCEPT ![f] = SubSeq(ubuf[f], 1, n)]
    BY <1>5, <2>3 DEF WritePut, n
  <2>5. pc'[f] = "w_adv" /\ \A g \in Files : pc'[g] = "w_adv" => g = f
    BY <1>5, <1>a, <1>b, <1>c DEF WritePut, Goto, CallTypes, Critical
  <2>6. n > 0 => Queued' > 0
    <3>1. n <= buffersize - 1 - (wp - rp + (IF wp < rp THEN buffersize ELSE 0))
      BY <2>1, <2>2, <1>a, QueuedInside
    <3> QED BY <3>1, <2>1, <2>2, <2>4, <1>a DEF Queued, Wrapped, Inside, DevTypes
  <2>7. ubuf'[f] # <<>> => n > 0
    <3>1. ubuf'[f] = SubSeq(ubuf[f], 1, n)  BY <2>4, <1>a DEF CallTypes
    <3>2. SubSeq(ubuf[f], 1, n) \in Seq(Bytes \cup {Junk})
      BY <2>1, <2>2, PutStores DEF n
    <3> QED BY <3>1, <3>2, <2>2, <2>3, EmptySeq DEF n
  <2> QED BY <2>1, <2>2, <2>4, <2>5, <2>6, <2>7, <1>a DEF RingWraps, Inside, DevTypes
<1>6. CASE WriteWrap(f)
  <2>1. rp < buffersize /\ wp <= buffersize  BY <1>6, RingInside DEF WriteWrap
  <2>2. alloc > 0 /\ buffersize > 0  BY <1>6, CallHasBuffer DEF WriteWrap
  <2>3. wp' = (IF wp = buffersize THEN 0 ELSE wp) /\ UNCHANGED <<buffersize, rp>>
    BY <1>6 DEF WriteWrap
  <2>4. \A g \in Files : pc'[g] # "w_adv"
    BY <1>6, <1>a, <1>b, <1>c DEF WriteWrap, Goto, CallTypes, Critical
  <2> QED BY <2>1, <2>2, <2>3, <2>4, <1>a DEF RingWraps, DevTypes
<1>7. CASE Still(f)
  <2>1. Queued' = Queued  BY <1>7 DEF Still, Queued, Wrapped
  <2>2. /\ \A g \in Files : pc'[g] = "r_adv" <=> pc[g] = "r_adv"
        /\ \A g \in Files : pc'[g] = "w_adv" <=> pc[g] = "w_adv"
        /\ \A g \in Files : pc'[g] = "w_adv" => ubuf'[g] = ubuf[g]
    BY <1>7, <1>b DEF Still
  <2> QED BY <1>7, <2>1, <2>2 DEF Still, RingWraps
<1> QED BY <1>1, <1>2, <1>3, <1>4, <1>5, <1>6, <1>7, <1>a, MoveOrStill

(***************************************************************************)
(* The counts are those of the open files.                                 *)
(***************************************************************************)
\* Opening or closing one file moves the count of a mode by one or not at all.
LEMMA CountsMove ==
  ASSUME NEW mode, NEW f \in Files
  PROVE  /\ IsFiniteSet(OpenFor(mode)) /\ Cardinality(OpenFor(mode)) \in Nat
         /\ Cardinality(OpenFor(mode)) = 0 <=> OpenFor(mode) = {}
         /\ f \notin OpenFor(mode)
              => Cardinality(OpenFor(mode) \cup {f}) = Cardinality(OpenFor(mode)) + 1
         /\ f \in OpenFor(mode)
              => Cardinality(OpenFor(mode) \ {f}) = Cardinality(OpenFor(mode)) - 1
<1>1. OpenFor(mode) \subseteq Files  BY DEF OpenFor
<1>2. IsFiniteSet(OpenFor(mode))  BY <1>1, FS_Subset
<1> QED BY <1>2, FS_CardinalityType, FS_EmptySet, FS_AddElement, FS_RemoveElement

\* Every step keeps the counts those of the open files, and the buffer alive
\* exactly while one is open.
LEMMA CountsStep ==
  ASSUME TypeOK, CallShape, OpenCounts, NEW f \in Files, Act(f)
  PROVE  OpenCounts'
<1>a. CallTypes /\ DevTypes /\ ShapeOf(f)  BY Types DEF CallShape
<1>b. \A g \in Files : g # f => flags'[g] = flags[g] /\ (IsOpen(g)' <=> IsOpen(g))
  BY <1>a, OthersKeep DEF Same, IsOpen
<1>c. \A m : \A g \in Files : g # f => (g \in OpenFor(m)' <=> g \in OpenFor(m))
  BY <1>b DEF OpenFor
<1>1. CASE OpenSucceeds(f)
  <2>1. ~IsOpen(f) /\ IsOpen(f)' /\ flags' = flags
    BY <1>1, <1>a DEF OpenSucceeds, IsOpen, ShapeOf, CallTypes, Goto
  <2>2. \A m : f \notin OpenFor(m)
                /\ OpenFor(m)' = IF m \in flags[f] THEN OpenFor(m) \cup {f} ELSE OpenFor(m)
    BY <2>1, <1>b DEF OpenFor
  <2>3. \A m : Cardinality(OpenFor(m)') = Cardinality(OpenFor(m)) + (IF m \in flags[f] THEN 1 ELSE 0)
                /\ Cardinality(OpenFor(m)) \in Nat
    <3> TAKE m
    <3>1. CASE m \in flags[f]
      <4>1. OpenFor(m)' = OpenFor(m) \cup {f}  BY <2>2, <3>1
      <4> QED BY <4>1, <2>2, <3>1, CountsMove
    <3>2. CASE m \notin flags[f]
      <4>1. OpenFor(m)' = OpenFor(m)  BY <2>2, <3>2
      <4>2. Cardinality(OpenFor(m)) \in Nat  BY CountsMove
      <4> QED BY <4>1, <4>2, <3>2
    <3> QED BY <3>1, <3>2
  <2>4. alloc' > 0  BY <1>1, <1>a DEF OpenSucceeds, DevTypes
  <2>5. nreaders' = Cardinality(OpenFor("READ")')
    BY <1>1, <2>3 DEF OpenSucceeds, OpenCounts
  <2>6. nwriters' = Cardinality(OpenFor("WRITE")')
    BY <1>1, <2>3 DEF OpenSucceeds, OpenCounts
  <2> QED BY <2>1, <2>4, <2>5, <2>6 DEF OpenCounts
<1>2. CASE ReleaseCounts(f)
  <2>1. IsOpen(f) /\ ~IsOpen(f)' /\ flags[f] \cap {"READ", "WRITE"} # {}
    BY <1>2, <1>a DEF ReleaseCounts, IsOpen, ShapeOf, CallTypes, Goto
  <2>2. \A m : (f \in OpenFor(m) <=> m \in flags[f])
                /\ OpenFor(m)' = IF m \in flags[f] THEN OpenFor(m) \ {f} ELSE OpenFor(m)
    BY <2>1, <1>b DEF OpenFor
  <2>3. \A m : Cardinality(OpenFor(m)') = Cardinality(OpenFor(m)) - (IF m \in flags[f] THEN 1 ELSE 0)
                /\ Cardinality(OpenFor(m)) \in Nat
    <3> TAKE m
    <3>1. CASE m \in flags[f]
      <4>1. OpenFor(m)' = OpenFor(m) \ {f}  BY <2>2, <3>1
      <4> QED BY <4>1, <2>2, <3>1, CountsMove
    <3>2. CASE m \notin flags[f]
      <4>1. OpenFor(m)' = OpenFor(m)  BY <2>2, <3>2
      <4>2. Cardinality(OpenFor(m)) \in Nat  BY CountsMove
      <4> QED BY <4>1, <4>2, <3>2
    <3> QED BY <3>1, <3>2
  <2>4. nreaders' = Cardinality(OpenFor("READ")') /\ nwriters' = Cardinality(OpenFor("WRITE")')
    BY <1>2, <2>3 DEF ReleaseCounts, OpenCounts
  <2>5. \A m : Cardinality(OpenFor(m)') \in Nat /\ (Cardinality(OpenFor(m)') = 0 <=> OpenFor(m)' = {})
    <3>1. \A m : OpenFor(m)' \subseteq Files  BY DEF OpenFor
    <3> QED BY <3>1, FS_Subset, FS_CardinalityType, FS_EmptySet
  <2>6. alloc > 0 /\ alloc' = IF nreaders' + nwriters' = 0 THEN 0 ELSE alloc
    BY <1>2, <2>1 DEF ReleaseCounts, OpenCounts
  <2>7. (\E g \in Files : IsOpen(g)') <=> OpenFor("READ")' # {} \/ OpenFor("WRITE")' # {}
    <3>1. \A g \in Files : IsOpen(g)' => flags'[g] \cap {"READ", "WRITE"} # {}
      BY <1>b, <2>1 DEF CallShape, ShapeOf, IsOpen
    <3> QED BY <3>1 DEF OpenFor
  <2>8. alloc' > 0 <=> \E g \in Files : IsOpen(g)'
    BY <2>4, <2>5, <2>6, <2>7, <1>a DEF DevTypes
  <2> QED BY <2>4, <2>8 DEF OpenCounts
<1>3. CASE ReadTake(f) \/ ReadWrap(f) \/ WritePut(f) \/ WriteWrap(f)
  <2>1. IsOpen(f)' <=> IsOpen(f)
    BY <1>3, <1>a DEF ReadTake, ReadWrap, WritePut, WriteWrap, IsOpen, CallTypes, Goto, users
  <2>2. UNCHANGED <<alloc, nreaders, nwriters, flags>>
    BY <1>3 DEF ReadTake, ReadWrap, WritePut, WriteWrap, users
  <2>3. \A m : OpenFor(m)' = OpenFor(m)  BY <2>1, <2>2, <1>b DEF OpenFor
  <2> QED BY <2>1, <2>2, <2>3, <1>b DEF OpenCounts
<1>4. CASE Still(f)
  <2>1. \A m : OpenFor(m)' = OpenFor(m)  BY <1>4, <1>b DEF OpenFor, Still
  <2> QED BY <2>1, <1>4, <1>b DEF OpenCounts, Still
<1> QED BY <1>1, <1>2, <1>3, <1>4, <1>a, MoveOrStill

\* What a call carries along survives every step.
LEMMA CarryStep ==
  ASSUME TypeOK, CallShape, NEW f \in Files, Act(f)
  PROVE  CallShape'
<1>a. CallTypes /\ DevTypes /\ ShapeOf(f)  BY Types DEF CallShape
<1>1. \A g \in Files : ShapeOf(g)'
  <2> TAKE g \in Files
  <2>1. CASE g = f  BY <2>1, <1>a, ShapeStep
  <2>2. CASE g # f  BY <2>2, <1>a, OthersKeep DEF Same, CallShape, ShapeOf, Offering
  <2> QED BY <2>1, <2>2
<1>2. alloc' > 0 => buffersize' > 0
  <2>1. CASE OpenSucceeds(f)  BY <2>1, <1>a DEF OpenSucceeds, DevTypes
  <2>2. CASE ReleaseCounts(f)  BY <2>2 DEF ReleaseCounts, CallShape
  <2>3. CASE ReadTake(f) \/ ReadWrap(f) \/ WritePut(f) \/ WriteWrap(f) \/ Still(f)
    BY <2>3 DEF ReadTake, ReadWrap, WritePut, WriteWrap, Still, CallShape
  <2> QED BY <2>1, <2>2, <2>3, <1>a, MoveOrStill
<1> QED BY <1>1, <1>2 DEF CallShape

(***************************************************************************)
(* A call that asks for bytes moves some.                                  *)
(***************************************************************************)
\* Reads and writes that get to the ring move a byte if they asked for one.
LEMMA MovesStep ==
  ASSUME TypeOK, SemExcludes, CallShape, OpenCounts, RingWraps, CallsMoveBytes,
         NEW f \in Files, Act(f)
  PROVE  CallsMoveBytes'
<1>a. CallTypes /\ DevTypes /\ ShapeOf(f)  BY Types DEF CallShape
<1> DEFINE Moved == pc[f] \in {"r_adv", "r_wake", "w_adv", "w_wake"} /\ count[f] > 0
                      => ubuf[f] # <<>>
<1>b. Moved  BY DEF CallsMoveBytes
<1>c. SUFFICES Moved'
  BY <1>a, OthersKeep DEF Same, CallsMoveBytes
<1>1. CASE ReadTake(f)
  <2> DEFINE n == Readable(count[f])
  <2>1. alloc > 0 /\ Inside /\ ~Empty  BY <1>1, CallHasBuffer, RingInside DEF ReadTake
  <2>2. n \in Nat /\ (count[f] > 0 => n > 0)
    BY <2>1, <1>a, ReadableBounds DEF CallTypes
  <2> HIDE DEF n
  <2>3. ubuf'[f] = Fetch(n) /\ count' = count
    BY <1>1, <1>a DEF ReadTake, CallTypes, n
  <2>4. Len(Fetch(n)) = n  BY <2>2, <1>a, FetchReads
  <2> QED BY <2>2, <2>3, <2>4
<1>2. CASE WritePut(f)
  <2> DEFINE n == Writable(count[f])
  <2>1. alloc > 0 /\ Inside /\ spacefree # 0 /\ pc[f] = "w_loop"
    BY <1>2, CallHasBuffer, RingInside DEF WritePut
  <2>2. n \in Nat /\ n <= n /\ (count[f] > 0 => n > 0)
    BY <2>1, <1>a, WritableBounds DEF CallTypes
  <2>3. Len(SubSeq(ubuf[f], 1, n)) = n  BY <2>1, <2>2, PutStores
  <2> HIDE DEF n
  <2>4. ubuf'[f] = SubSeq(ubuf[f], 1, n) /\ count' = count
    BY <1>2, <1>a DEF WritePut, CallTypes, n
  <2> DEFINE t == SubSeq(ubuf[f], 1, n)
  <2>5. Len(t) = n /\ ubuf'[f] = t /\ count' = count  BY <2>3, <2>4
  <2> HIDE DEF t
  <2> QED BY <2>2, <2>5
<1>3. CASE ReadWrap(f) \/ WriteWrap(f)
  BY <1>3, <1>b DEF ReadWrap, WriteWrap, call
<1>4. CASE OpenSucceeds(f) \/ ReleaseCounts(f) \/ Still(f)
  BY <1>4, <1>a DEF OpenSucceeds, ReleaseCounts, Still, Goto, CallTypes
<1> QED BY <1>1, <1>2, <1>3, <1>4, <1>a, MoveOrStill

-----------------------------------------------------------------------------
(***************************************************************************)
(* No reader sleeps on while bytes are queued.                             *)
(***************************************************************************)
AsleepIn(f) == f \in inq /\ SleepsFor(f, "r_sleep", "in")

\* A step that neither moves the ring nor wakes inq puts nobody else on inq,
\* ends no write, and lets its file fall asleep for bytes only when there is none.
LEMMA SleepersStep ==
  ASSUME CallTypes, NEW f \in Files, Act(f)
  PROVE  \/ ReadTake(f) \/ ReadWrap(f) \/ WritePut(f) \/ WriteWrap(f) \/ WriteWake(f)
         \/ /\ pc[f] \notin {"w_adv", "w_wake"}
            /\ \A g \in inq' : g # f => g \in inq
            /\ AsleepIn(f)' => Empty
<1> USE DEF CallTypes, AsleepIn, SleepsFor, Goto, Return
<1>1. CASE Down(f)
  BY <1>1, LockedLabels DEF Down, queues
<1>2. CASE OpenFails(f)
  BY <1>2 DEF OpenFails, queues
<1>3. CASE OpenSucceeds(f)
  BY <1>3 DEF OpenSucceeds, queues
<1>4. CASE ReleaseCounts(f)
  BY <1>4 DEF ReleaseCounts, queues
<1>5. CASE ReadEmpty(f)
  BY <1>5 DEF ReadEmpty, queues
<1>6. CASE ReadWait(f)
  BY <1>6 DEF ReadWait, queues
<1>7. CASE ReadTest(f)
  BY <1>7 DEF ReadTest, queues
<1>8. CASE ReadWoken(f)
  BY <1>8 DEF ReadWoken, queues
<1>9. CASE ReadTake(f)
  BY <1>9
<1>10. CASE ReadWrap(f)
  BY <1>10
<1>11. CASE ReadWake(f)
  BY <1>11 DEF ReadWake, queues
<1>12. CASE WriteFull(f)
  BY <1>12 DEF WriteFull, queues
<1>13. CASE WriteWait(f)
  BY <1>13 DEF WriteWait, queues
<1>14. CASE WriteTest(f)
  BY <1>14 DEF WriteTest, queues
<1>15. CASE WriteWoken(f)
  BY <1>15 DEF WriteWoken, queues
<1>16. CASE WritePut(f)
  BY <1>16
<1>17. CASE WriteWrap(f)
  BY <1>17
<1>18. CASE WriteWake(f)
  BY <1>18
<1>19. CASE PollTest(f)
  <2>1. pc[f] = "p_cs" /\ UNCHANGED flags  BY <1>19 DEF PollTest, users
  <2>2. CASE want[f] \in PollMask
    <3>1. inq' = inq \ {f}  BY <1>19, <2>2 DEF PollTest, LeaveQueues
    <3> QED BY <2>1, <3>1
  <2>3. CASE want[f] \notin PollMask
    <3>1. inq' = inq \cup {f} /\ want' = want /\ pc' = [pc EXCEPT ![f] = "p_sleep"]
      BY <1>19, <2>3 DEF PollTest, call
    <3>2. want[f] = "in" => Empty  BY <2>3 DEF PollMask
    <3> QED BY <2>1, <3>1, <3>2
  <2> QED BY <2>2, <2>3
<1>20. CASE PollWoken(f)
  BY <1>20 DEF PollWoken, queues
<1>21. CASE Open(f)
  BY <1>21 DEF Open, queues
<1>22. CASE Release(f)
  BY <1>22 DEF Release, queues
<1>23. CASE Fasync(f)
  BY <1>23 DEF Fasync, queues
<1>24. CASE Read(f)
  BY <1>24 DEF Read, queues
<1>25. CASE Write(f)
  BY <1>25 DEF Write, queues
<1>26. CASE Poll(f)
  BY <1>26 DEF Poll, queues
<1>27. CASE ReadFaults(f)
  BY <1>27 DEF ReadFaults, queues
<1>28. CASE WriteFaults(f)
  BY <1>28 DEF WriteFaults, queues
<1>29. CASE Interrupted(f)
  BY <1>29 DEF Interrupted, LeaveQueues
<1>30. CASE ReadSignalled(f)
  BY <1>30 DEF ReadSignalled, queues
<1> QED
  BY <1>1, <1>2, <1>3, <1>4, <1>5, <1>6, <1>7, <1>8, <1>9, <1>10, <1>11, <1>12,
    <1>13, <1>14, <1>15, <1>16, <1>17, <1>18, <1>19, <1>20, <1>21, <1>22, <1>23,
    <1>24, <1>25, <1>26, <1>27, <1>28, <1>29, <1>30
    DEF Act, Step, UserCall, Fault

\* No step leaves a reader asleep on bytes that nobody will announce.
LEMMA WokenStep ==
  ASSUME TypeOK, SemExcludes, CallShape, OpenCounts, RingWraps, ReadersWoken,
         NEW f \in Files, Act(f)
  PROVE  ReadersWoken'
<1>a. CallTypes /\ DevTypes /\ ShapeOf(f)  BY Types DEF CallShape
<1>b. \A g \in Files : g # f => pc'[g] = pc[g] /\ want'[g] = want[g]
  BY <1>a, OthersKeep DEF Same
<1>c. SUFFICES ASSUME Queued' > 0, NEW s \in inq', SleepsFor(s, "r_sleep", "in")'
               PROVE  \E g \in Files : pc'[g] \in {"w_adv", "w_wake"}
  BY DEF ReadersWoken
<1>d. inq \subseteq Files  BY DEF TypeOK
\* The usual reason: s slept before, and whoever was to wake it still is.
<1>e. ASSUME s # f, s \in inq, Queued > 0, pc[f] \notin {"w_adv", "w_wake"}
      PROVE  \E g \in Files : pc'[g] \in {"w_adv", "w_wake"}
  <2>1. SleepsFor(s, "r_sleep", "in")  BY <1>b, <1>c, <1>d, <1>e DEF SleepsFor
  <2>2. PICK g \in Files : pc[g] \in {"w_adv", "w_wake"}
    BY <2>1, <1>e DEF ReadersWoken
  <2> QED BY <2>2, <1>b, <1>e
<1>1. CASE OpenSucceeds(f)
  BY <1>1, <1>a, <1>c DEF OpenSucceeds, Queued, Wrapped, DevTypes
<1>2. CASE ReleaseCounts(f)
  <2>1. pc[f] = "rel_cs" /\ pc'[f] = "idle" /\ inq' = inq
    BY <1>2, <1>a DEF ReleaseCounts, Goto, CallTypes, queues
  <2>2. Queued' = Queued
    <3>1. alloc' # 0  BY <1>c DEF Queued
    <3>2. UNCHANGED <<alloc, buffersize, rp, wp>>  BY <1>2, <3>1 DEF ReleaseCounts
    <3> QED BY <3>2 DEF Queued, Wrapped
  <2> QED BY <2>1, <2>2, <1>c, <1>e DEF SleepsFor
<1>3. CASE ReadTake(f)
  <2>1. alloc > 0 /\ Inside /\ ~Empty  BY <1>3, CallHasBuffer, RingInside DEF ReadTake
  <2>2. Queued > 0  BY <2>1, <1>a, QueuedInside DEF DevTypes, Inside
  <2>3. pc[f] = "r_loop" /\ pc'[f] = "r_adv" /\ inq' = inq
    BY <1>3, <1>a DEF ReadTake, Goto, CallTypes, queues
  <2> QED BY <2>2, <2>3, <1>c, <1>e DEF SleepsFor
<1>4. CASE ReadWrap(f)
  <2>1. pc[f] = "r_adv" /\ pc'[f] = "r_wake" /\ inq' = inq
    BY <1>4, <1>a DEF ReadWrap, Goto, CallTypes, queues
  <2>2. alloc > 0 /\ buffersize > 0  BY <2>1, CallHasBuffer
  <2>3. Queued' = Queued  BY <1>4, <2>2 DEF ReadWrap, Queued, Wrapped
  <2> QED BY <2>1, <2>3, <1>c, <1>e DEF SleepsFor
<1>5. CASE WritePut(f) \/ WriteWrap(f)
  <2>1. pc'[f] \in {"w_adv", "w_wake"}
    BY <1>5, <1>a DEF WritePut, WriteWrap, Goto, CallTypes
  <2> QED BY <2>1
<1>6. CASE WriteWake(f)  BY <1>6, <1>c DEF WriteWake
<1>7. CASE Still(f) /\ ~WriteWake(f)
  <2>1. Queued' = Queued  BY <1>7 DEF Still, Queued, Wrapped
  <2>2. CASE ReadTake(f) \/ ReadWrap(f) \/ WritePut(f) \/ WriteWrap(f)
    BY <2>2, <1>3, <1>4, <1>5
  <2>3. CASE /\ pc[f] \notin {"w_adv", "w_wake"}
             /\ \A g \in inq' : g # f => g \in inq
             /\ AsleepIn(f)' => Empty
    <3>1. Empty => Queued = 0  BY <1>a DEF Empty, Queued, Wrapped, DevTypes
    <3>2. s # f  BY <3>1, <2>1, <2>3, <1>c DEF AsleepIn
    <3> QED BY <3>2, <2>1, <2>3, <1>c, <1>e
  <2> QED BY <2>2, <2>3, <1>7, <1>a, SleepersStep
<1> QED BY <1>1, <1>2, <1>3, <1>4, <1>5, <1>6, <1>7, <1>a, MoveOrStill

-----------------------------------------------------------------------------
(***************************************************************************)
(* The types.                                                              *)
(***************************************************************************)
\* What the calls keep in hand.
LEMMA CallTypesStep ==
  ASSUME TypeOK, SemExcludes, CallShape, OpenCounts, RingWraps, NEW f \in Files, Act(f)
  PROVE  CallTypes'
<1>a. CallTypes /\ DevTypes  BY Types
<1>c. CallTypes  BY <1>a
<1> USE <1>c DEF CallTypes, Goto, Return, Labels, Critical
<1>b. <<>> \in Seq(Bytes \cup {Junk})  OBVIOUS
<1>d. ASSUME Return(f), flags' = flags PROVE CallTypes'  BY <1>b, <1>d
<1>e. ASSUME NEW l \in Labels, Goto(f, l), UNCHANGED <<flags, call>> PROVE CallTypes'
  BY <1>e DEF call
<1>1. CASE Down(f)
  BY <1>1, LockedLabels DEF Down, users, call
<1>2. CASE OpenFails(f)
  BY <1>2 DEF OpenFails, users, call
<1>3. CASE OpenSucceeds(f)
  BY <1>3 DEF OpenSucceeds, users, call
<1>4. CASE ReleaseCounts(f)
  BY <1>4 DEF ReleaseCounts, users, call
<1>5. CASE ReadEmpty(f)
  <2>1. CASE "NONBLOCK" \in flags[f]
    <3>1. Return(f) /\ flags' = flags  BY <1>5, <2>1 DEF ReadEmpty, users
    <3> QED BY <3>1, <1>d
  <2>2. CASE ~("NONBLOCK" \in flags[f])
    <3>1. Goto(f, "r_wait") /\ UNCHANGED <<flags, call>>
      BY <1>5, <2>2 DEF ReadEmpty, users
    <3>2. "r_wait" \in Labels  OBVIOUS
    <3> QED BY <3>1, <3>2, <1>e
  <2> QED BY <2>1, <2>2
<1>6. CASE ReadWait(f)
  BY <1>6 DEF ReadWait, users, call
<1>7. CASE ReadTest(f)
  BY <1>7 DEF ReadTest, users, call
<1>8. CASE ReadWoken(f)
  BY <1>8 DEF ReadWoken, users, call
<1>9. CASE ReadTake(f)
  <2> DEFINE n == Readable(count[f])
  <2>1. alloc > 0 /\ Inside /\ ~Empty  BY <1>9, CallHasBuffer, RingInside DEF ReadTake
  <2>2. n \in Nat  BY <2>1, <1>a, ReadableBounds DEF CallTypes
  <2> HIDE DEF n
  <2>3. Fetch(n) \in Seq(Bytes \cup {Junk})  BY <2>2, <1>a, FetchReads
  <2> DEFINE t == Fetch(n)
  <2>4. t \in Seq(Bytes \cup {Junk}) /\ ubuf' = [ubuf EXCEPT ![f] = t]
    BY <1>9, <2>3 DEF ReadTake, n
  <2> HIDE DEF t
  <2> QED BY <1>9, <2>4 DEF ReadTake, users
<1>10. CASE ReadWrap(f)
  BY <1>10 DEF ReadWrap, users, call
<1>11. CASE ReadWake(f)
  BY <1>11 DEF ReadWake, users, call
<1>12. CASE WriteFull(f)
  <2>1. CASE "NONBLOCK" \in flags[f]
    <3>1. Return(f) /\ flags' = flags  BY <1>12, <2>1 DEF WriteFull, users
    <3> QED BY <3>1, <1>d
  <2>2. CASE ~("NONBLOCK" \in flags[f])
    <3>1. Goto(f, "w_wait") /\ UNCHANGED <<flags, call>>
      BY <1>12, <2>2 DEF WriteFull, users
    <3>2. "w_wait" \in Labels  OBVIOUS
    <3> QED BY <3>1, <3>2, <1>e
  <2> QED BY <2>1, <2>2
<1>13. CASE WriteWait(f)
  BY <1>13 DEF WriteWait, users, call
<1>14. CASE WriteTest(f)
  BY <1>14 DEF WriteTest, users, call
<1>15. CASE WriteWoken(f)
  BY <1>15 DEF WriteWoken, users, call
<1>16. CASE WritePut(f)
  <2> DEFINE n == Writable(count[f])
  <2>1. alloc > 0 /\ Inside /\ spacefree # 0 /\ pc[f] = "w_loop"
    BY <1>16, CallHasBuffer, RingInside DEF WritePut
  <2>2. n \in Nat /\ n <= n  BY <2>1, <1>a, WritableBounds DEF CallTypes
  <2>3. SubSeq(ubuf[f], 1, n) \in Seq(Bytes \cup {Junk})  BY <2>1, <2>2, PutStores
  <2> HIDE DEF n
  <2> DEFINE t == SubSeq(ubuf[f], 1, n)
  <2>4. t \in Seq(Bytes \cup {Junk}) /\ ubuf' = [ubuf EXCEPT ![f] = t]
    BY <1>16, <2>3 DEF WritePut, n
  <2>5. pc' = [pc EXCEPT ![f] = "w_adv"] /\ UNCHANGED <<flags, count, want>>
    BY <1>16 DEF WritePut, users
  <2> HIDE DEF t
  <2> QED BY <2>4, <2>5
<1>17. CASE WriteWrap(f)
  BY <1>17 DEF WriteWrap, users, call
<1>18. CASE WriteWake(f)
  BY <1>18 DEF WriteWake, users, call
<1>19. CASE PollTest(f)
  <2>1. CASE want[f] \in PollMask
    <3>1. Return(f) /\ flags' = flags  BY <1>19, <2>1 DEF PollTest, users
    <3> QED BY <3>1, <1>d
  <2>2. CASE ~(want[f] \in PollMask)
    <3>1. Goto(f, "p_sleep") /\ UNCHANGED <<flags, call>>
      BY <1>19, <2>2 DEF PollTest, users
    <3>2. "p_sleep" \in Labels  OBVIOUS
    <3> QED BY <3>1, <3>2, <1>e
  <2> QED BY <2>1, <2>2
<1>20. CASE PollWoken(f)
  BY <1>20 DEF PollWoken, users, call
<1>21. CASE Open(f)
  <2>1. PICK m \in Modes : flags' = [flags EXCEPT ![f] = m]  BY <1>21 DEF Open
  <2>2. m \in SUBSET {"READ", "WRITE", "NONBLOCK"}  OBVIOUS
  <2> QED BY <1>21, <2>1, <2>2 DEF Open, call
<1>22. CASE Release(f)
  BY <1>22 DEF Release, users, call
<1>23. CASE Fasync(f)
  BY <1>23 DEF Fasync, users, call
<1>24. CASE Read(f)
  BY <1>24 DEF Read, users, call
<1>25. CASE Write(f)
  <2>1. PICK s \in Data : ubuf' = [ubuf EXCEPT ![f] = s] /\ count' = [count EXCEPT ![f] = Len(s)]
    BY <1>25 DEF Write
  <2>2. s \in Seq(Bytes \cup {Junk}) /\ Len(s) \in 0 .. MaxCount  OBVIOUS
  <2> QED BY <1>25, <2>1, <2>2 DEF Write, users
<1>26. CASE Poll(f)
  BY <1>26 DEF Poll, users, call
<1>27. CASE ReadFaults(f)
  BY <1>27 DEF ReadFaults, users, call
<1>28. CASE WriteFaults(f)
  BY <1>28 DEF WriteFaults, users, call
<1>29. CASE Interrupted(f)
  BY <1>29 DEF Interrupted, users, call
<1>30. CASE ReadSignalled(f)
  BY <1>30 DEF ReadSignalled, users, call
<1> QED
  BY <1>1, <1>2, <1>3, <1>4, <1>5, <1>6, <1>7, <1>8, <1>9, <1>10, <1>11, <1>12,
    <1>13, <1>14, <1>15, <1>16, <1>17, <1>18, <1>19, <1>20, <1>21, <1>22, <1>23,
    <1>24, <1>25, <1>26, <1>27, <1>28, <1>29, <1>30
    DEF Act, Step, UserCall, Fault

\* The semaphore, the queues and the size for the next open.
LocksOK ==
  /\ scull_p_buffer \in Sizes
  /\ sem \in Files \cup {Free}
  /\ inq \subseteq Files /\ outq \subseteq Files /\ async \subseteq Files

\* Their types survive every step.
LEMMA LocksStep ==
  ASSUME LocksOK, NEW f \in Files, Act(f)  PROVE  LocksOK'
<1> USE DEF LocksOK, Up
<1>1. CASE Down(f)
  BY <1>1, LockedLabels DEF Down, queues
<1>2. CASE OpenFails(f)
  BY <1>2 DEF OpenFails, queues
<1>3. CASE OpenSucceeds(f)
  BY <1>3 DEF OpenSucceeds, queues
<1>4. CASE ReleaseCounts(f)
  BY <1>4 DEF ReleaseCounts, queues
<1>5. CASE ReadEmpty(f)
  BY <1>5 DEF ReadEmpty, queues
<1>6. CASE ReadWait(f)
  BY <1>6 DEF ReadWait, queues
<1>7. CASE ReadTest(f)
  BY <1>7 DEF ReadTest, queues
<1>8. CASE ReadWoken(f)
  BY <1>8 DEF ReadWoken, queues
<1>9. CASE ReadTake(f)
  BY <1>9 DEF ReadTake, queues
<1>10. CASE ReadWrap(f)
  BY <1>10 DEF ReadWrap, queues
<1>11. CASE ReadWake(f)
  BY <1>11 DEF ReadWake, queues
<1>12. CASE WriteFull(f)
  BY <1>12 DEF WriteFull, queues
<1>13. CASE WriteWait(f)
  BY <1>13 DEF WriteWait, queues
<1>14. CASE WriteTest(f)
  BY <1>14 DEF WriteTest, queues
<1>15. CASE WriteWoken(f)
  BY <1>15 DEF WriteWoken, queues
<1>16. CASE WritePut(f)
  BY <1>16 DEF WritePut, queues
<1>17. CASE WriteWrap(f)
  BY <1>17 DEF WriteWrap, queues
<1>18. CASE WriteWake(f)
  BY <1>18 DEF WriteWake, queues
<1>19. CASE PollTest(f)
  BY <1>19 DEF PollTest, LeaveQueues
<1>20. CASE PollWoken(f)
  BY <1>20 DEF PollWoken, queues
<1>21. CASE Open(f)
  BY <1>21 DEF Open, queues
<1>22. CASE Release(f)
  BY <1>22 DEF Release, queues
<1>23. CASE Fasync(f)
  BY <1>23 DEF Fasync, queues
<1>24. CASE Read(f)
  BY <1>24 DEF Read, queues
<1>25. CASE Write(f)
  BY <1>25 DEF Write, queues
<1>26. CASE Poll(f)
  BY <1>26 DEF Poll, queues
<1>27. CASE ReadFaults(f)
  BY <1>27 DEF ReadFaults, queues
<1>28. CASE WriteFaults(f)
  BY <1>28 DEF WriteFaults, queues
<1>29. CASE Interrupted(f)
  BY <1>29 DEF Interrupted, LeaveQueues
<1>30. CASE ReadSignalled(f)
  BY <1>30 DEF ReadSignalled, queues
<1> QED
  BY <1>1, <1>2, <1>3, <1>4, <1>5, <1>6, <1>7, <1>8, <1>9, <1>10, <1>11, <1>12,
    <1>13, <1>14, <1>15, <1>16, <1>17, <1>18, <1>19, <1>20, <1>21, <1>22, <1>23,
    <1>24, <1>25, <1>26, <1>27, <1>28, <1>29, <1>30
    DEF Act, Step, UserCall, Fault

\* The ring's memory and pointers.
LEMMA StoreTypes ==
  ASSUME TypeOK, NEW t \in Seq(Bytes \cup {Junk}), Store(t)
  PROVE  mem' \in [Offsets -> Bytes \cup {Junk}]
<1>1. wp \in Nat /\ mem \in [Offsets -> Bytes \cup {Junk}] /\ Len(t) \in Nat
  BY DEF TypeOK
<1>2. \A o \in Offsets : o \in wp .. (wp + Len(t) - 1) => t[o - wp + 1] \in Bytes \cup {Junk}
  BY <1>1 DEF Offsets
<1> QED BY <1>1, <1>2 DEF Store

RingTypes ==
  /\ alloc \in Sizes \cup {0} /\ buffersize \in Sizes \cup {0}
  /\ rp \in Nat /\ wp \in Nat
  /\ mem \in [Offsets -> Bytes \cup {Junk}]

\* The pointers and the memory keep their types.
LEMMA RingTypesStep ==
  ASSUME TypeOK, SemExcludes, CallShape, OpenCounts, RingWraps, NEW f \in Files, Act(f)
  PROVE  RingTypes'
<1>a. CallTypes /\ DevTypes /\ ShapeOf(f)  BY Types DEF CallShape
<1>b. RingTypes /\ scull_p_buffer \in Sizes  BY DEF TypeOK, RingTypes
<1> USE DEF RingTypes
<1>1. CASE OpenSucceeds(f)  BY <1>1, <1>b DEF OpenSucceeds
<1>2. CASE ReleaseCounts(f)
  <2>1. alloc' \in Sizes \cup {0} /\ UNCHANGED <<buffersize, rp, wp>>
    BY <1>2, <1>b DEF ReleaseCounts
  <2>2. mem' \in [Offsets -> Bytes \cup {Junk}]
    <3>1. mem' = [o \in Offsets |-> Junk] \/ mem' = mem  BY <1>2 DEF ReleaseCounts
    <3> QED BY <3>1, <1>b
  <2> QED BY <2>1, <2>2, <1>b
<1>3. CASE ReadTake(f)
  <2> DEFINE n == Readable(count[f])
  <2>1. alloc > 0 /\ Inside /\ ~Empty  BY <1>3, CallHasBuffer, RingInside DEF ReadTake
  <2>2. n \in Nat  BY <2>1, <1>a, ReadableBounds DEF CallTypes
  <2>3. rp' = rp + n /\ UNCHANGED <<alloc, buffersize, wp, mem>>  BY <1>3 DEF ReadTake
  <2> HIDE DEF n
  <2> QED BY <2>2, <2>3, <1>b
<1>4. CASE ReadWrap(f)  BY <1>4, <1>b DEF ReadWrap
<1>5. CASE WritePut(f)
  <2> DEFINE n == Writable(count[f])
             t == SubSeq(ubuf[f], 1, n)
  <2>1. alloc > 0 /\ Inside /\ spacefree # 0 /\ pc[f] = "w_loop"
    BY <1>5, CallHasBuffer, RingInside DEF WritePut
  <2>2. n \in Nat /\ n <= n  BY <2>1, <1>a, WritableBounds DEF CallTypes
  <2>3. t \in Seq(Bytes \cup {Junk}) /\ Len(t) = n  BY <2>1, <2>2, PutStores
  <2>4. Store(t) /\ wp' = wp + Len(t) /\ UNCHANGED <<alloc, buffersize, rp>>
    BY <1>5 DEF WritePut
  <2> HIDE DEF n, t
  <2>5. mem' \in [Offsets -> Bytes \cup {Junk}]  BY <2>3, <2>4, StoreTypes
  <2> QED BY <2>2, <2>3, <2>4, <2>5, <1>b
<1>6. CASE WriteWrap(f)  BY <1>6, <1>b DEF WriteWrap
<1>7. CASE Still(f) /\ mem' = mem  BY <1>7, <1>b DEF Still
<1>8. CASE Still(f) /\ WriteFaults(f)
  <2>1. alloc > 0 /\ Inside /\ spacefree # 0 /\ pc[f] = "w_loop"
    BY <1>8, CallHasBuffer, RingInside DEF WriteFaults
  <2>2. PICK n \in 0 .. Writable(count[f]) - 1 : Store(SubSeq(ubuf[f], 1, n))
    BY <1>8 DEF WriteFaults
  <2>3. Writable(count[f]) \in Nat  BY <2>1, <1>a, WritableBounds DEF CallTypes
  <2>4. n \in Nat /\ n <= Writable(count[f])  BY <2>2, <2>3
  <2>5. SubSeq(ubuf[f], 1, n) \in Seq(Bytes \cup {Junk})  BY <2>1, <2>4, PutStores
  <2>6. mem' \in [Offsets -> Bytes \cup {Junk}]  BY <2>2, <2>5, StoreTypes
  <2> QED BY <1>8, <2>6, <1>b DEF Still
<1>9. Still(f) => mem' = mem \/ WriteFaults(f)  BY DEF Still
<1> QED BY <1>1, <1>2, <1>3, <1>4, <1>5, <1>6, <1>7, <1>8, <1>9, <1>a, MoveOrStill

\* All together: the counts cannot go negative since they count open files.
LEMMA TypeStep ==
  ASSUME TypeOK, SemExcludes, CallShape, OpenCounts, RingWraps, NEW f \in Files, Act(f)
  PROVE  TypeOK'
<1>1. CallTypes'  BY CallTypesStep
<1>2. LocksOK'
  <2>1. LocksOK  BY DEF TypeOK, LocksOK
  <2> QED BY <2>1, LocksStep
<1>3. RingTypes'  BY RingTypesStep
<1>4. nreaders' \in Nat /\ nwriters' \in Nat
  <2>1. \A m : OpenFor(m)' \subseteq Files  BY DEF OpenFor
  <2>2. \A m : Cardinality(OpenFor(m)') \in Nat
    BY <2>1, FS_Subset, FS_CardinalityType
  <2>3. OpenCounts'  BY CountsStep
  <2> QED BY <2>2, <2>3 DEF OpenCounts
<1> QED BY <1>1, <1>2, <1>3, <1>4 DEF TypeOK, CallTypes, LocksOK, RingTypes

-----------------------------------------------------------------------------
(***************************************************************************)
(* The invariant and what follows from it.                                 *)
(***************************************************************************)
\* The state of a loaded driver satisfies the invariant.
LEMMA InitIInv == Init => IInv
<1> SUFFICES ASSUME Init PROVE IInv
  OBVIOUS
<1>1. TypeOK
  <2>1. <<>> \in Seq(Bytes \cup {Junk})  OBVIOUS
  <2> QED BY <2>1 DEF Init, TypeOK, Labels, Critical
<1>2. SemExcludes  BY DEF Init, SemExcludes, Critical
<1>3. CallShape  BY DEF Init, CallShape, ShapeOf, Offering
<1>4. OpenCounts
  <2>1. \A f \in Files : ~IsOpen(f)  BY DEF Init, IsOpen
  <2>2. \A m : OpenFor(m) = {}  BY <2>1 DEF OpenFor
  <2>3. OpenFor("READ") = {} /\ OpenFor("WRITE") = {}  BY <2>2
  <2>4. Cardinality({}) = 0  BY FS_EmptySet
  <2>5. nreaders = 0 /\ nwriters = 0 /\ alloc = 0  BY DEF Init
  <2>6. ~(alloc > 0)  BY <2>5
  <2> QED BY <2>1, <2>3, <2>4, <2>5, <2>6, Zenon DEF OpenCounts
<1>5. RingWraps  BY DEF Init, RingWraps
<1>6. CallsMoveBytes  BY DEF Init, CallsMoveBytes
<1>7. ReadersWoken  BY DEF Init, ReadersWoken, Queued
<1> QED BY <1>1, <1>2, <1>3, <1>4, <1>5, <1>6, <1>7 DEF IInv

\* Setting the size for the next open, or doing nothing, disturbs no part.
LEMMA IdleStep ==
  ASSUME IInv, SetBufferSize \/ UNCHANGED vars  PROVE  IInv'
<1>a. UNCHANGED <<sem, dev, users, queues, pc, call>> /\ scull_p_buffer' \in Sizes
  BY DEF SetBufferSize, vars, IInv, TypeOK
<1>b. UNCHANGED <<sem, alloc, buffersize, rp, wp, mem, flags, nreaders, nwriters,
                  inq, outq, async, pc, count, ubuf, want>>
  BY <1>a DEF dev, users, queues, call
<1>c. Queued' = Queued /\ \A m : OpenFor(m)' = OpenFor(m)
  BY <1>b DEF Queued, Wrapped, OpenFor, IsOpen
<1>1. TypeOK'  BY <1>a, <1>b DEF IInv, TypeOK
<1>2. SemExcludes' /\ CallsMoveBytes'  BY <1>b DEF IInv, SemExcludes, CallsMoveBytes
<1>3. CallShape'  BY <1>b DEF IInv, CallShape, ShapeOf, Offering
<1>4. OpenCounts'  BY <1>b, <1>c DEF IInv, OpenCounts, IsOpen
<1>5. RingWraps'  BY <1>b, <1>c DEF IInv, RingWraps
<1>6. ReadersWoken'  BY <1>b, <1>c DEF IInv, ReadersWoken, SleepsFor
<1> QED BY <1>1, <1>2, <1>3, <1>4, <1>5, <1>6 DEF IInv

\* Every step of the specification keeps the invariant.
LEMMA IInvStep == IInv /\ [Next]_vars => IInv'
<1> SUFFICES ASSUME IInv, [Next]_vars PROVE IInv'
  OBVIOUS
<1>1. CASE SetBufferSize \/ UNCHANGED vars  BY <1>1, IdleStep
<1>2. ASSUME NEW f \in Files, Act(f) PROVE IInv'
  <2>1. TypeOK /\ SemExcludes /\ CallShape /\ OpenCounts /\ RingWraps
        /\ CallsMoveBytes /\ ReadersWoken
    BY DEF IInv
  <2>2. SemExcludes'  BY <2>1, SemStep
  <2>3. TypeOK' /\ CallShape' /\ OpenCounts'
    BY <1>2, <2>1, TypeStep, CarryStep, CountsStep
  <2>4. RingWraps' /\ CallsMoveBytes' /\ ReadersWoken'
    BY <1>2, <2>1, RingStep, MovesStep, WokenStep
  <2> QED BY <2>2, <2>3, <2>4 DEF IInv
<1> QED BY <1>1, <1>2 DEF Next, Act

\* So it holds in every reachable state.
LEMMA Inductive == Spec => []IInv
BY InitIInv, IInvStep, PTL DEF Spec

\* Every variable keeps its type, whatever the calls and their order: offsets
\* stay naturals, the counts never go below zero (pipe.c:101-104).
THEOREM TypeCorrect == Spec => []TypeOK
<1>1. IInv => TypeOK  BY DEF IInv
<1> QED BY <1>1, Inductive, PTL

\* The semaphore is held by exactly the file inside a critical section, on every
\* path through the sleeps, retries, faults and signals of pipe.c:118-226.
THEOREM Exclusion == Spec => []SemExcludes
<1>1. IInv => SemExcludes  BY DEF IInv
<1> QED BY <1>1, Inductive, PTL

\* The pointers stay between buffer and end, and so in the memory allocated unless
\* an open has set a size beyond it; a full ring never looks empty.  For every
\* size (pipe.c:70-80, 137-148, 181-186, 202-215).
THEOREM PointersInRing == Spec => []RingBounds
<1>1. IInv => RingBounds
  <2> SUFFICES ASSUME IInv PROVE RingBounds
    OBVIOUS
  <2>1. RingWraps /\ DevTypes  BY Types DEF IInv
  <2> QED BY <2>1 DEF RingBounds, RingWraps, DevTypes
<1> QED BY <1>1, Inductive, PTL

\* The counts are those of the open files and the buffer lives exactly as long as
\* one is open (pipe.c:69-86, 101-108).
THEOREM CountsRight == Spec => []OpenCounts
<1>1. IInv => OpenCounts  BY DEF IInv
<1> QED BY <1>1, Inductive, PTL

\* A read or write that asks for bytes and gets to the ring moves at least one.
THEOREM ProgressPerCall == Spec => []CallsMoveBytes
<1>1. IInv => CallsMoveBytes  BY DEF IInv
<1> QED BY <1>1, Inductive, PTL

\* No wake-up of a reader is lost, although rp # wp is tested without the
\* semaphore (pipe.c:131) and writers wake after they released it (pipe.c:216-219).
THEOREM NoLostWakeup == Spec => []ReadersWoken
<1>1. IInv => ReadersWoken  BY DEF IInv
<1> QED BY <1>1, Inductive, PTL

-----------------------------------------------------------------------------
(***************************************************************************)
(* Under QuietSpec: what holds once the pipe is opened only while it is    *)
(* empty, and resized only while it is closed.                             *)
(***************************************************************************)

\* The size the next open sets is that of the buffer in use.
SizeKept == alloc > 0 => buffersize = scull_p_buffer

\* An open that is about to reset the pointers has nothing to throw away.
OpensEmpty == \A f \in Files : pc[f] = "open_cs" => Queued = 0

QInv == IInv /\ SizeKept /\ OpensEmpty /\ WritersWoken

AsleepOut(f) == f \in outq /\ SleepsFor(f, "w_sleep", "out")
-----------------------------------------------------------------------------
\* A step that neither moves the ring nor wakes outq puts nobody else on outq,
\* ends no read, and lets its file fall asleep for space only when there is none.
LEMMA WritersStep ==
  ASSUME CallTypes, NEW f \in Files, Act(f)
  PROVE  \/ ReadTake(f) \/ ReadWrap(f) \/ WritePut(f) \/ WriteWrap(f) \/ ReadWake(f)
         \/ /\ pc[f] \notin {"r_adv", "r_wake"}
            /\ \A g \in outq' : g # f => g \in outq
            /\ AsleepOut(f)' => /\ spacefree = 0
                                /\ pc[f] \in {"w_test", "p_cs"}
<1> USE DEF CallTypes, AsleepOut, SleepsFor, Goto, Return
<1>1. CASE Down(f)
  BY <1>1, LockedLabels DEF Down, queues
<1>2. CASE OpenFails(f)
  BY <1>2 DEF OpenFails, queues
<1>3. CASE OpenSucceeds(f)
  BY <1>3 DEF OpenSucceeds, queues
<1>4. CASE ReleaseCounts(f)
  BY <1>4 DEF ReleaseCounts, queues
<1>5. CASE ReadEmpty(f)
  BY <1>5 DEF ReadEmpty, queues
<1>6. CASE ReadWait(f)
  BY <1>6 DEF ReadWait, queues
<1>7. CASE ReadTest(f)
  BY <1>7 DEF ReadTest, queues
<1>8. CASE ReadWoken(f)
  BY <1>8 DEF ReadWoken, queues
<1>9. CASE ReadTake(f)
  BY <1>9
<1>10. CASE ReadWrap(f)
  BY <1>10
<1>11. CASE ReadWake(f)
  BY <1>11
<1>12. CASE WriteFull(f)
  BY <1>12 DEF WriteFull, queues
<1>13. CASE WriteWait(f)
  BY <1>13 DEF WriteWait, queues
<1>14. CASE WriteTest(f)
  BY <1>14 DEF WriteTest, queues
<1>15. CASE WriteWoken(f)
  BY <1>15 DEF WriteWoken, queues
<1>16. CASE WritePut(f)
  BY <1>16
<1>17. CASE WriteWrap(f)
  BY <1>17
<1>18. CASE WriteWake(f)
  BY <1>18 DEF WriteWake, queues
<1>19. CASE PollTest(f)
  <2>1. pc[f] = "p_cs" /\ UNCHANGED flags  BY <1>19 DEF PollTest, users
  <2>2. CASE want[f] \in PollMask
    <3>1. outq' = outq \ {f}  BY <1>19, <2>2 DEF PollTest, LeaveQueues
    <3> QED BY <2>1, <3>1
  <2>3. CASE want[f] \notin PollMask
    <3>1. outq' = outq \cup {f} /\ want' = want /\ pc' = [pc EXCEPT ![f] = "p_sleep"]
      BY <1>19, <2>3 DEF PollTest, call
    <3>2. want[f] = "out" => spacefree = 0  BY <2>3 DEF PollMask
    <3> QED BY <2>1, <3>1, <3>2
  <2> QED BY <2>2, <2>3
<1>20. CASE PollWoken(f)
  BY <1>20 DEF PollWoken, queues
<1>21. CASE Open(f)
  BY <1>21 DEF Open, queues
<1>22. CASE Release(f)
  BY <1>22 DEF Release, queues
<1>23. CASE Fasync(f)
  BY <1>23 DEF Fasync, queues
<1>24. CASE Read(f)
  BY <1>24 DEF Read, queues
<1>25. CASE Write(f)
  BY <1>25 DEF Write, queues
<1>26. CASE Poll(f)
  BY <1>26 DEF Poll, queues
<1>27. CASE ReadFaults(f)
  BY <1>27 DEF ReadFaults, queues
<1>28. CASE WriteFaults(f)
  BY <1>28 DEF WriteFaults, queues
<1>29. CASE Interrupted(f)
  BY <1>29 DEF Interrupted, LeaveQueues
<1>30. CASE ReadSignalled(f)
  BY <1>30 DEF ReadSignalled, queues
<1> QED
  BY <1>1, <1>2, <1>3, <1>4, <1>5, <1>6, <1>7, <1>8, <1>9, <1>10, <1>11,
    <1>12, <1>13, <1>14, <1>15, <1>16, <1>17, <1>18, <1>19, <1>20, <1>21,
    <1>22, <1>23, <1>24, <1>25, <1>26, <1>27, <1>28, <1>29, <1>30
    DEF Act, Step, UserCall, Fault

\* Nobody comes into the critical section of an open but by taking the semaphore.
LEMMA OnlyDownOpens ==
  ASSUME CallTypes, NEW f \in Files, Step(f) \/ UserCall(f) \/ Fault(f)
  PROVE  pc'[f] # "open_cs"
<1> USE DEF CallTypes, Goto, Return
<1>2. CASE OpenFails(f)
  BY <1>2 DEF OpenFails
<1>3. CASE OpenSucceeds(f)
  BY <1>3 DEF OpenSucceeds
<1>4. CASE ReleaseCounts(f)
  BY <1>4 DEF ReleaseCounts
<1>5. CASE ReadEmpty(f)
  BY <1>5 DEF ReadEmpty
<1>6. CASE ReadWait(f)
  BY <1>6 DEF ReadWait
<1>7. CASE ReadTest(f)
  BY <1>7 DEF ReadTest
<1>8. CASE ReadWoken(f)
  BY <1>8 DEF ReadWoken
<1>9. CASE ReadTake(f)
  BY <1>9 DEF ReadTake
<1>10. CASE ReadWrap(f)
  BY <1>10 DEF ReadWrap
<1>11. CASE ReadWake(f)
  BY <1>11 DEF ReadWake
<1>12. CASE WriteFull(f)
  BY <1>12 DEF WriteFull
<1>13. CASE WriteWait(f)
  BY <1>13 DEF WriteWait
<1>14. CASE WriteTest(f)
  BY <1>14 DEF WriteTest
<1>15. CASE WriteWoken(f)
  BY <1>15 DEF WriteWoken
<1>16. CASE WritePut(f)
  BY <1>16 DEF WritePut
<1>17. CASE WriteWrap(f)
  BY <1>17 DEF WriteWrap
<1>18. CASE WriteWake(f)
  BY <1>18 DEF WriteWake
<1>19. CASE PollTest(f)
  BY <1>19 DEF PollTest
<1>20. CASE PollWoken(f)
  BY <1>20 DEF PollWoken
<1>21. CASE Open(f)
  BY <1>21 DEF Open
<1>22. CASE Release(f)
  BY <1>22 DEF Release
<1>23. CASE Fasync(f)
  BY <1>23 DEF Fasync
<1>24. CASE Read(f)
  BY <1>24 DEF Read
<1>25. CASE Write(f)
  BY <1>25 DEF Write
<1>26. CASE Poll(f)
  BY <1>26 DEF Poll
<1>27. CASE ReadFaults(f)
  BY <1>27 DEF ReadFaults
<1>28. CASE WriteFaults(f)
  BY <1>28 DEF WriteFaults
<1>29. CASE Interrupted(f)
  BY <1>29 DEF Interrupted
<1>30. CASE ReadSignalled(f)
  BY <1>30 DEF ReadSignalled
<1> QED
  BY <1>2, <1>3, <1>4, <1>5, <1>6, <1>7, <1>8, <1>9, <1>10, <1>11,
    <1>12, <1>13, <1>14, <1>15, <1>16, <1>17, <1>18, <1>19, <1>20, <1>21,
    <1>22, <1>23, <1>24, <1>25, <1>26, <1>27, <1>28, <1>29, <1>30
    DEF Step, UserCall, Fault

\* A step of one file that QuietSpec allows.
QuietAct(f) == \/ (pc[f] = "open" => Queued = 0) /\ Down(f)
               \/ Step(f) \/ UserCall(f) \/ Fault(f)

\* scull_p_buffer is left alone by every call.
LEMMA SizeStays ==
  ASSUME NEW f \in Files, Act(f)
  PROVE  scull_p_buffer' = scull_p_buffer
<1>1. CASE Down(f)
  BY <1>1, LockedLabels DEF Down
<1>2. CASE OpenFails(f)
  BY <1>2 DEF OpenFails
<1>3. CASE OpenSucceeds(f)
  BY <1>3 DEF OpenSucceeds
<1>4. CASE ReleaseCounts(f)
  BY <1>4 DEF ReleaseCounts
<1>5. CASE ReadEmpty(f)
  BY <1>5 DEF ReadEmpty
<1>6. CASE ReadWait(f)
  BY <1>6 DEF ReadWait
<1>7. CASE ReadTest(f)
  BY <1>7 DEF ReadTest
<1>8. CASE ReadWoken(f)
  BY <1>8 DEF ReadWoken
<1>9. CASE ReadTake(f)
  BY <1>9 DEF ReadTake
<1>10. CASE ReadWrap(f)
  BY <1>10 DEF ReadWrap
<1>11. CASE ReadWake(f)
  BY <1>11 DEF ReadWake
<1>12. CASE WriteFull(f)
  BY <1>12 DEF WriteFull
<1>13. CASE WriteWait(f)
  BY <1>13 DEF WriteWait
<1>14. CASE WriteTest(f)
  BY <1>14 DEF WriteTest
<1>15. CASE WriteWoken(f)
  BY <1>15 DEF WriteWoken
<1>16. CASE WritePut(f)
  BY <1>16 DEF WritePut
<1>17. CASE WriteWrap(f)
  BY <1>17 DEF WriteWrap
<1>18. CASE WriteWake(f)
  BY <1>18 DEF WriteWake
<1>19. CASE PollTest(f)
  BY <1>19 DEF PollTest
<1>20. CASE PollWoken(f)
  BY <1>20 DEF PollWoken
<1>21. CASE Open(f)
  BY <1>21 DEF Open
<1>22. CASE Release(f)
  BY <1>22 DEF Release
<1>23. CASE Fasync(f)
  BY <1>23 DEF Fasync
<1>24. CASE Read(f)
  BY <1>24 DEF Read
<1>25. CASE Write(f)
  BY <1>25 DEF Write
<1>26. CASE Poll(f)
  BY <1>26 DEF Poll
<1>27. CASE ReadFaults(f)
  BY <1>27 DEF ReadFaults
<1>28. CASE WriteFaults(f)
  BY <1>28 DEF WriteFaults
<1>29. CASE Interrupted(f)
  BY <1>29 DEF Interrupted
<1>30. CASE ReadSignalled(f)
  BY <1>30 DEF ReadSignalled
<1> QED
  BY <1>1, <1>2, <1>3, <1>4, <1>5, <1>6, <1>7, <1>8, <1>9, <1>10, <1>11,
    <1>12, <1>13, <1>14, <1>15, <1>16, <1>17, <1>18, <1>19, <1>20, <1>21,
    <1>22, <1>23, <1>24, <1>25, <1>26, <1>27, <1>28, <1>29, <1>30
    DEF Act, Step, UserCall, Fault

\* A tester without the semaphore that finds no space (pipe.c:167) finds a full
\* ring, or a reader that has taken bytes and will wake it.
LEMMA FullRing ==
  ASSUME DevTypes, RingWraps, alloc > 0, buffersize > 0, spacefree = 0
  PROVE  \/ Queued = buffersize - 1
         \/ \E g \in Files : pc[g] = "r_adv"
<1>1. CASE rp = buffersize  BY <1>1 DEF RingWraps
<1>2. CASE Inside  BY <1>2, QueuedInside DEF DevTypes
<1>3. CASE rp # buffersize /\ wp = buffersize
  <2>1. rp < buffersize  BY <1>3 DEF RingWraps, DevTypes
  <2>2. (rp + buffersize - wp) % buffersize = rp
    BY <1>3, <2>1, Remainder DEF DevTypes
  <2>3. rp = 1  BY <1>3, <2>1, <2>2 DEF spacefree, DevTypes
  <2> QED BY <1>3, <2>3 DEF Queued, Wrapped, DevTypes
<1> QED BY <1>1, <1>2, <1>3 DEF RingWraps, Inside, DevTypes

\* A write only adds to the queue.
LEMMA PutAdds ==
  ASSUME IInv, NEW f \in Files, WritePut(f)
  PROVE  Queued' \in Int /\ Queued' >= Queued /\ UNCHANGED <<alloc, buffersize>>
<1>a. CallTypes /\ DevTypes  BY Types DEF IInv
<1> DEFINE n == Writable(count[f])
<1>1. alloc > 0 /\ Inside /\ spacefree # 0 /\ pc[f] = "w_loop"
  BY CallHasBuffer, RingInside DEF WritePut, IInv
<1>2. n \in Nat /\ n <= spacefree /\ wp + n <= buffersize
  BY <1>1, <1>a, WritableBounds DEF CallTypes
<1>3. Len(SubSeq(ubuf[f], 1, n)) = n  BY <1>1, <1>2, PutStores DEF IInv
<1> HIDE DEF n
<1>4. wp' = wp + n /\ UNCHANGED <<alloc, buffersize, rp>>
  BY <1>3 DEF WritePut, n
<1>5. n <= buffersize - 1 - (wp - rp + (IF wp < rp THEN buffersize ELSE 0))
  BY <1>1, <1>2, <1>a, QueuedInside
<1> QED BY <1>1, <1>2, <1>4, <1>5, <1>a DEF Queued, Wrapped, Inside, DevTypes

-----------------------------------------------------------------------------
\* The size in use stays the size the next open would set.
LEMMA SizeKeptStep ==
  ASSUME IInv, SizeKept, NEW f \in Files, Act(f)
  PROVE  SizeKept'
<1>a. CallTypes /\ DevTypes /\ ShapeOf(f)  BY Types DEF IInv, CallShape
<1>b. scull_p_buffer' = scull_p_buffer  BY SizeStays
<1>1. CASE OpenSucceeds(f)  BY <1>1, <1>b DEF OpenSucceeds, SizeKept
<1>2. CASE ReleaseCounts(f)  BY <1>2, <1>b DEF ReleaseCounts, SizeKept
<1>3. CASE ReadTake(f) \/ ReadWrap(f) \/ WritePut(f) \/ WriteWrap(f) \/ Still(f)
  BY <1>3, <1>b DEF ReadTake, ReadWrap, WritePut, WriteWrap, Still, SizeKept
<1> QED BY <1>1, <1>2, <1>3, <1>a, MoveOrStill

\* Nothing is queued behind the back of an open that has the semaphore.
LEMMA OpensEmptyStep ==
  ASSUME IInv, OpensEmpty, NEW f \in Files, QuietAct(f)
  PROVE  OpensEmpty'
<1> Act(f)  BY DEF QuietAct, Act
<1>a. CallTypes /\ DevTypes /\ ShapeOf(f) /\ SemExcludes
  BY Types DEF IInv, CallShape
<1>b. SUFFICES ASSUME NEW g \in Files, pc'[g] = "open_cs" PROVE Queued' = 0
  BY DEF OpensEmpty
<1>1. CASE g # f
  <2>1. pc[g] = "open_cs"  BY <1>1, <1>a, <1>b, OthersKeep DEF Same
  <2>2. pc[f] \notin Critical  BY <1>1, <1>a, <2>1 DEF SemExcludes, Critical
  <2>3. Still(f)
    BY <2>2, <1>a, MoveOrStill
      DEF OpenSucceeds, ReleaseCounts, ReadTake, ReadWrap, WritePut, WriteWrap, Critical
  <2>4. Queued' = Queued  BY <2>3 DEF Still, Queued, Wrapped
  <2> QED BY <2>1, <2>4 DEF OpensEmpty
<1>2. CASE g = f
  <2>1. (pc[f] = "open" => Queued = 0) /\ Down(f)
    BY <1>2, <1>a, <1>b, OnlyDownOpens DEF QuietAct
  <2>2. pc[f] = "open"
    BY <2>1, <1>2, <1>a, <1>b, LockedLabels DEF Down, Goto, CallTypes
  <2>3. Queued' = Queued  BY <2>1 DEF Down, dev, Queued, Wrapped
  <2> QED BY <2>1, <2>2, <2>3
<1> QED BY <1>1, <1>2

\* No step leaves a writer asleep on space that nobody will announce.
LEMMA WritersWokenStep ==
  ASSUME QInv, NEW f \in Files, Act(f)
  PROVE  WritersWoken'
<1>a. /\ CallTypes /\ DevTypes /\ ShapeOf(f) /\ outq \subseteq Files
      /\ TypeOK /\ SemExcludes /\ CallShape /\ OpenCounts /\ RingWraps
  BY Types DEF QInv, IInv, CallShape, TypeOK
<1>b. \A g \in Files : g # f => Same(g)
  BY <1>a, OthersKeep
<1>c. SUFFICES ASSUME alloc' > 0, Queued' < buffersize' - 1,
                      NEW s \in outq', SleepsFor(s, "w_sleep", "out")'
               PROVE  \E g \in Files : pc'[g] \in {"r_adv", "r_wake"}
  BY DEF WritersWoken
\* The usual reason: s slept before, and whoever was to wake it still is.
<1>e. ASSUME s # f, s \in outq, alloc > 0, Queued < buffersize - 1,
             pc[f] \notin {"r_adv", "r_wake"}
      PROVE  \E g \in Files : pc'[g] \in {"r_adv", "r_wake"}
  <2>1. SleepsFor(s, "w_sleep", "out")  BY <1>a, <1>b, <1>c, <1>e DEF SleepsFor, Same
  <2>2. PICK g \in Files : pc[g] \in {"r_adv", "r_wake"}
    BY <2>1, <1>e DEF QInv, WritersWoken
  <2> QED BY <2>2, <1>b, <1>e DEF Same
<1>1. CASE OpenSucceeds(f)
  <2>1. pc[f] = "open_cs" /\ pc'[f] = "idle" /\ outq' = outq
    BY <1>1, <1>a DEF OpenSucceeds, Goto, CallTypes, queues
  <2>2. s # f  BY <2>1, <1>c DEF SleepsFor
  <2>3. IsOpen(s)
    BY <2>1, <2>2, <1>a, <1>b, <1>c DEF SleepsFor, Same, IsOpen, CallShape, ShapeOf
  <2>4. alloc > 0  BY <2>1, <2>3, <1>a, <1>c DEF OpenCounts
  <2>5. buffersize' = buffersize  BY <1>1, <2>4 DEF OpenSucceeds, QInv, SizeKept
  <2>6. Queued = 0  BY <2>1 DEF QInv, OpensEmpty
  <2>7. Queued' = 0  BY <1>1 DEF OpenSucceeds, Queued, Wrapped
  <2> QED BY <2>1, <2>2, <2>4, <2>5, <2>6, <2>7, <1>c, <1>e
<1>2. CASE ReleaseCounts(f)
  <2>1. pc[f] = "rel_cs" /\ pc'[f] = "idle" /\ outq' = outq
    BY <1>2, <1>a DEF ReleaseCounts, Goto, CallTypes, queues
  <2>2. UNCHANGED <<alloc, buffersize, rp, wp>>  BY <1>2, <1>c DEF ReleaseCounts
  <2>3. Queued' = Queued  BY <2>2 DEF Queued, Wrapped
  <2> QED BY <2>1, <2>2, <2>3, <1>c, <1>e DEF SleepsFor
<1>3. CASE ReadTake(f) \/ ReadWrap(f)
  <2>1. pc'[f] \in {"r_adv", "r_wake"}
    BY <1>3, <1>a DEF ReadTake, ReadWrap, Goto, CallTypes
  <2> QED BY <2>1
<1>4. CASE WritePut(f)
  <2>1. pc[f] = "w_loop" /\ pc'[f] = "w_adv" /\ outq' = outq
    BY <1>4, <1>a DEF WritePut, Goto, CallTypes, queues
  <2>2. Queued' \in Int /\ Queued' >= Queued /\ UNCHANGED <<alloc, buffersize>>
    BY <1>4, PutAdds DEF QInv
  <2>3. alloc > 0 /\ Inside  BY <2>1, <1>a, CallHasBuffer, RingInside
  <2>4. Queued \in Int /\ buffersize \in Int  BY <2>3, <1>a, QueuedInside DEF DevTypes
  <2> QED BY <2>1, <2>2, <2>3, <2>4, <1>c, <1>e DEF SleepsFor
<1>5. CASE WriteWrap(f)
  <2>1. pc[f] = "w_adv" /\ pc'[f] = "w_wake" /\ outq' = outq
    BY <1>5, <1>a DEF WriteWrap, Goto, CallTypes, queues
  <2>2. alloc > 0 /\ buffersize > 0  BY <2>1, <1>a, CallHasBuffer
  <2>3. Queued' = Queued /\ buffersize' = buffersize
    BY <1>5, <2>2 DEF WriteWrap, Queued, Wrapped
  <2> QED BY <2>1, <2>2, <2>3, <1>c, <1>e DEF SleepsFor
<1>6. CASE ReadWake(f)  BY <1>6, <1>c DEF ReadWake
<1>7. CASE Still(f) /\ ~ReadWake(f)
  <2>1. Queued' = Queued /\ UNCHANGED <<alloc, buffersize>>
    BY <1>7 DEF Still, Queued, Wrapped
  <2>2. CASE ReadTake(f) \/ ReadWrap(f) \/ WritePut(f) \/ WriteWrap(f)
    BY <2>2, <1>3, <1>4, <1>5
  <2>3. CASE /\ pc[f] \notin {"r_adv", "r_wake"}
             /\ \A g \in outq' : g # f => g \in outq
             /\ AsleepOut(f)' => spacefree = 0 /\ pc[f] \in {"w_test", "p_cs"}
    <3>1. CASE s # f  BY <3>1, <2>1, <2>3, <1>c, <1>e
    <3>2. CASE s = f
      <4>1. spacefree = 0 /\ pc[f] \in {"w_test", "p_cs"}
        BY <3>2, <2>3, <1>c DEF AsleepOut
      <4>2. alloc > 0 /\ buffersize > 0  BY <4>1, <1>a, CallHasBuffer
      <4>3. Queued < buffersize - 1 /\ buffersize \in Int
        BY <2>1, <1>a, <1>c DEF DevTypes
      <4>4. Queued = buffersize - 1 \/ \E g \in Files : pc[g] = "r_adv"
        BY <4>1, <4>2, <1>a, FullRing
      <4>5. PICK g \in Files : pc[g] = "r_adv"  BY <4>3, <4>4
      <4> QED BY <4>1, <4>5, <1>b DEF Same
    <3> QED BY <3>1, <3>2
  <2> QED BY <2>2, <2>3, <1>7, <1>a, WritersStep
<1> QED BY <1>1, <1>2, <1>3, <1>4, <1>5, <1>6, <1>7, <1>a, MoveOrStill

-----------------------------------------------------------------------------
\* QuietSpec only leaves out behaviours of Spec.
LEMMA QuietIsNext == QuietNext => Next
BY DEF QuietNext, Next

\* The state of a loaded driver satisfies the invariant.
LEMMA InitQInv == Init => QInv
<1> SUFFICES ASSUME Init PROVE QInv
  OBVIOUS
<1>1. IInv  BY InitIInv
<1> QED BY <1>1 DEF QInv, Init, SizeKept, OpensEmpty, WritersWoken

\* Every step of QuietSpec keeps it.
LEMMA QInvStep == QInv /\ [QuietNext]_vars => QInv'
<1> SUFFICES ASSUME QInv, [QuietNext]_vars PROVE QInv'
  OBVIOUS
<1>a. IInv'  BY IInvStep, QuietIsNext DEF QInv
<1>1. CASE (alloc = 0 /\ SetBufferSize) \/ UNCHANGED vars
  <2>1. /\ UNCHANGED <<alloc, buffersize, rp, wp, inq, outq, pc, want>>
        /\ alloc = 0 \/ scull_p_buffer' = scull_p_buffer
    BY <1>1 DEF SetBufferSize, vars, dev, queues, call
  <2>2. Queued' = Queued  BY <2>1 DEF Queued, Wrapped
  <2>3. ~(alloc > 0) \/ scull_p_buffer' = scull_p_buffer  BY <2>1
  <2>4. SizeKept'  BY <2>1, <2>3 DEF QInv, SizeKept
  <2>5. OpensEmpty' /\ WritersWoken'
    BY <2>1, <2>2 DEF QInv, OpensEmpty, WritersWoken, SleepsFor
  <2> QED BY <1>a, <2>4, <2>5 DEF QInv
<1>2. ASSUME NEW f \in Files, QuietAct(f) PROVE QInv'
  <2>a. Act(f)  BY <1>2 DEF QuietAct, Act
  <2>1. IInv /\ SizeKept /\ OpensEmpty  BY DEF QInv
  <2>2. SizeKept' /\ OpensEmpty'  BY <1>2, <2>a, <2>1, SizeKeptStep, OpensEmptyStep
  <2>3. WritersWoken'  BY <2>a, WritersWokenStep
  <2> QED BY <1>a, <2>2, <2>3 DEF QInv
<1> QED BY <1>1, <1>2 DEF QuietNext, QuietAct

\* No wake-up of a writer is lost while nobody opens a pipe in use, although the
\* space is tested without the semaphore (pipe.c:159-179) and readers wake the queue
\* after they released it (pipe.c:149-152).
THEOREM NoLostSpace == QuietSpec => []WritersWoken
<1>1. QInv => WritersWoken  BY DEF QInv
<1> QED BY <1>1, InitQInv, QInvStep, PTL DEF QuietSpec

-----------------------------------------------------------------------------
(***************************************************************************)
(* ScullPipe implements ByteFifo under QuietSpec: each step of a file is   *)
(* a step of the abstract channel by that file, or a stutter.              *)
(***************************************************************************)

\* The abstract state, file by file.
Users == {f \in Files : IsOpen(f)}
Tosend(f) == IF Offering(f) THEN ubuf[f] ELSE <<>>
Taken(f) == IF pc[f] \in {"r_adv", "r_wake"} THEN ubuf[f] ELSE <<>>
Tosends == [f \in Files |-> Tosend(f)]
Takens == [f \in Files |-> Taken(f)]

\* What the allocation holds is what the pointers go round in.
Fits == alloc > 0 => alloc = buffersize
RInv == QInv /\ Fits
-----------------------------------------------------------------------------
(***************************************************************************)
(* The calls.                                                              *)
(***************************************************************************)
\* A step of f leaves what f sends and what it took as they are, or empties
\* one of them, unless it starts a write, stores or fetches.
LEMMA CallMaps ==
  ASSUME CallTypes, NEW f \in Files, ShapeOf(f), Act(f)
  PROVE  \/ Tosend(f)' = Tosend(f) /\ Taken(f)' = Taken(f)
         \/ Tosend(f)' = <<>> /\ Taken(f)' = Taken(f)
         \/ Tosend(f)' = Tosend(f) /\ Taken(f)' = <<>>
         \/ Write(f) /\ Tosend(f)' \in Data /\ Taken(f)' = Taken(f)
         \/ ReadTake(f) \/ WritePut(f)
<1> USE DEF CallTypes, Tosend, Taken, Offering, ShapeOf, Goto, Return, call
<1>1. CASE Down(f)
  BY <1>1, LockedLabels DEF Down
<1>2. CASE OpenFails(f)
  BY <1>2 DEF OpenFails
<1>3. CASE OpenSucceeds(f)
  BY <1>3 DEF OpenSucceeds
<1>4. CASE ReleaseCounts(f)
  BY <1>4 DEF ReleaseCounts
<1>5. CASE ReadEmpty(f)
  BY <1>5 DEF ReadEmpty
<1>6. CASE ReadWait(f)
  BY <1>6 DEF ReadWait
<1>7. CASE ReadTest(f)
  BY <1>7 DEF ReadTest
<1>8. CASE ReadWoken(f)
  BY <1>8 DEF ReadWoken
<1>9. CASE ReadTake(f)
  BY <1>9 DEF ReadTake
<1>10. CASE ReadWrap(f)
  BY <1>10 DEF ReadWrap
<1>11. CASE ReadWake(f)
  BY <1>11 DEF ReadWake
<1>12. CASE WriteFull(f)
  BY <1>12 DEF WriteFull
<1>13. CASE WriteWait(f)
  BY <1>13 DEF WriteWait
<1>14. CASE WriteTest(f)
  BY <1>14 DEF WriteTest
<1>15. CASE WriteWoken(f)
  BY <1>15 DEF WriteWoken
<1>16. CASE WritePut(f)
  BY <1>16 DEF WritePut
<1>17. CASE WriteWrap(f)
  BY <1>17 DEF WriteWrap
<1>18. CASE WriteWake(f)
  BY <1>18 DEF WriteWake
<1>19. CASE PollTest(f)
  BY <1>19 DEF PollTest
<1>20. CASE PollWoken(f)
  BY <1>20 DEF PollWoken
<1>21. CASE Open(f)
  BY <1>21 DEF Open
<1>22. CASE Release(f)
  BY <1>22 DEF Release
<1>23. CASE Fasync(f)
  BY <1>23 DEF Fasync
<1>24. CASE Read(f)
  BY <1>24 DEF Read
<1>25. CASE Write(f)
  BY <1>25 DEF Write
<1>26. CASE Poll(f)
  BY <1>26 DEF Poll
<1>27. CASE ReadFaults(f)
  BY <1>27 DEF ReadFaults
<1>28. CASE WriteFaults(f)
  BY <1>28 DEF WriteFaults
<1>29. CASE Interrupted(f)
  BY <1>29 DEF Interrupted
<1>30. CASE ReadSignalled(f)
  BY <1>30 DEF ReadSignalled
<1> QED
  BY <1>1, <1>2, <1>3, <1>4, <1>5, <1>6, <1>7, <1>8, <1>9, <1>10, <1>11, <1>12,
    <1>13, <1>14, <1>15, <1>16, <1>17, <1>18, <1>19, <1>20, <1>21, <1>22, <1>23,
    <1>24, <1>25, <1>26, <1>27, <1>28, <1>29, <1>30
    DEF Act, Step, UserCall, Fault

\* The other files' part of the abstract state stays.
LEMMA OthersMap ==
  ASSUME CallTypes, NEW f \in Files, Act(f), NEW g \in Files, g # f
  PROVE  (IsOpen(g)' <=> IsOpen(g)) /\ Tosend(g)' = Tosend(g) /\ Taken(g)' = Taken(g)
BY OthersKeep DEF Same, IsOpen, Tosend, Taken, Offering
-----------------------------------------------------------------------------
(***************************************************************************)
(* The queued bytes.                                                       *)
(***************************************************************************)
\* An empty ring holds no bytes.
LEMMA NothingQueued ==
  /\ Queued = 0 => Contents = <<>>
  /\ Queued' = 0 => Contents' = <<>>
<1>1. [i \in 1 .. 0 |-> mem[Slot(i)]] = <<>>  OBVIOUS
<1>2. [i \in 1 .. 0 |-> mem'[Slot(i)']] = <<>>  OBVIOUS
<1> QED BY <1>1, <1>2 DEF Contents

\* The queued bytes lie in the buffer, and none where a write may store.
LEMMA SlotsApart ==
  ASSUME DevTypes, Inside, alloc > 0, NEW i \in 1 .. Queued
  PROVE  /\ Slot(i) \in 0 .. buffersize - 1
         /\ \A n \in Nat : n <= spacefree /\ wp + n <= buffersize
                            => Slot(i) \notin wp .. wp + n - 1
<1>1. /\ Queued = wp - rp + (IF wp < rp THEN buffersize ELSE 0)
      /\ Queued \in 0 .. buffersize - 1
      /\ spacefree = buffersize - 1 - Queued
  BY QueuedInside
<1>2. Slot(i) = IF rp + i - 1 < buffersize THEN rp + i - 1 ELSE rp + i - 1 - buffersize
  BY DEF Slot, Wrapped, Inside, DevTypes
<1> QED BY <1>1, <1>2 DEF DevTypes, Inside

\* A step that stores nothing over them and keeps the read pointer keeps them.
LEMMA SameContents ==
  ASSUME UNCHANGED <<alloc, buffersize>>, Wrapped(rp)' = Wrapped(rp), Queued' = Queued,
         \A i \in 1 .. Queued : mem'[Slot(i)] = mem[Slot(i)]
  PROVE  Contents' = Contents
<1>1. \A i \in 1 .. Queued : Slot(i)' = Slot(i)  BY DEF Slot
<1> QED BY <1>1 DEF Contents

\* A call that moves no pointer leaves the queue alone, also one that stored a
\* part of its data before it failed (pipe.c:209-212).
LEMMA StillContents ==
  ASSUME RInv, NEW f \in Files, Still(f)
  PROVE  Contents' = Contents
<1>a. CallTypes /\ DevTypes /\ TypeOK /\ SemExcludes /\ CallShape /\ OpenCounts /\ RingWraps
  BY Types DEF RInv, QInv, IInv
<1>b. UNCHANGED <<alloc, buffersize, rp, wp>>  BY DEF Still
<1>c. Queued' = Queued /\ Wrapped(rp)' = Wrapped(rp)  BY <1>b DEF Queued, Wrapped
<1>1. CASE mem' = mem  BY <1>1, <1>b, <1>c, SameContents
<1>2. CASE WriteFaults(f)
  <2>1. alloc > 0 /\ Inside /\ spacefree # 0 /\ pc[f] = "w_loop"
    BY <1>2, <1>a, CallHasBuffer, RingInside DEF WriteFaults
  <2>2. PICK n \in 0 .. Writable(count[f]) - 1 : Store(SubSeq(ubuf[f], 1, n))
    BY <1>2 DEF WriteFaults
  <2>a. count[f] \in Nat  BY <1>a DEF CallTypes
  <2>b. spacefree \in Int
    BY <2>1, <1>a, QueuedInside DEF DevTypes
  <2>3. /\ Writable(count[f]) \in Nat /\ Writable(count[f]) <= spacefree
        /\ wp + Writable(count[f]) <= buffersize
    BY <2>1, <2>a, <1>a, WritableBounds
  <2>4. n \in Nat /\ n <= Writable(count[f]) /\ n <= spacefree /\ wp + n <= buffersize
    BY <2>2, <2>3, <2>b, <1>a DEF DevTypes
  <2>5. Len(SubSeq(ubuf[f], 1, n)) = n  BY <2>1, <2>4, <1>a, PutStores
  <2>6. ASSUME NEW i \in 1 .. Queued PROVE mem'[Slot(i)] = mem[Slot(i)]
    <3>1. Slot(i) \in 0 .. buffersize - 1 /\ Slot(i) \notin wp .. wp + n - 1
      BY <2>1, <2>4, <1>a, SlotsApart
    <3>2. buffersize <= MaxSize /\ alloc = buffersize
      BY <2>1, <1>a DEF RInv, Fits, DevTypes
    <3>3. Slot(i) \in Offsets /\ Slot(i) < alloc
      BY <3>1, <3>2, <1>a, SizesAssumption DEF DevTypes, Offsets
    <3> QED BY <3>1, <3>3, <2>2, <2>5 DEF Store
  <2> QED BY <2>6, <1>b, <1>c, SameContents
<1> QED BY <1>1, <1>2 DEF Still

\* A wrap moves a pointer from the end to the start, which is the same place.
LEMMA WrapContents ==
  ASSUME RInv, NEW f \in Files, ReadWrap(f) \/ WriteWrap(f)
  PROVE  Contents' = Contents
<1>a. CallTypes /\ DevTypes /\ TypeOK /\ SemExcludes /\ CallShape /\ OpenCounts /\ RingWraps
  BY Types DEF RInv, QInv, IInv
<1>1. pc[f] \in {"r_adv", "w_adv"}  BY DEF ReadWrap, WriteWrap
<1>2. alloc > 0 /\ buffersize > 0  BY <1>1, <1>a, CallHasBuffer
<1>3. UNCHANGED <<alloc, buffersize, mem>>  BY DEF ReadWrap, WriteWrap
<1>4. Wrapped(rp)' = Wrapped(rp) /\ Wrapped(wp)' = Wrapped(wp)
  BY <1>2, <1>3 DEF ReadWrap, WriteWrap, Wrapped
<1>5. Queued' = Queued  BY <1>3, <1>4 DEF Queued
<1> QED BY <1>3, <1>4, <1>5, SameContents
\* A function on 1 .. k is a sequence of length k, and the only one with its bytes.
LEMMA AsSequence ==
  ASSUME NEW S, NEW k \in Nat, NEW s, s = [i \in 1 .. k |-> s[i]],
         \A i \in 1 .. k : s[i] \in S
  PROVE  s \in Seq(S) /\ Len(s) = k
<1>1. s \in [1 .. k -> S]  OBVIOUS
<1> QED BY <1>1

\* While both pointers stand inside, Contents is a sequence of memory's bytes.
LEMMA ContentsSeq ==
  ASSUME DevTypes, Fits, Inside, alloc > 0
  PROVE  /\ Contents \in Seq(Bytes \cup {Junk}) /\ Len(Contents) = Queued
         /\ Queued \in 0 .. buffersize - 1
         /\ \A i \in 1 .. Queued : Contents[i] = mem[Slot(i)]
         /\ \A i \in 1 .. Queued : Slot(i) \in Offsets /\ Slot(i) < alloc
<1>1. Queued \in 0 .. buffersize - 1  BY QueuedInside
<1>2. \A i \in 1 .. Queued : Slot(i) \in Offsets /\ Slot(i) < alloc
  <2> TAKE i \in 1 .. Queued
  <2>1. Slot(i) \in 0 .. buffersize - 1  BY SlotsApart
  <2>2. buffersize <= MaxSize /\ alloc = buffersize  BY DEF Fits, DevTypes
  <2> QED BY <2>1, <2>2, SizesAssumption DEF DevTypes, Offsets
<1>3. \A i \in 1 .. Queued : Contents[i] = mem[Slot(i)]  BY DEF Contents
<1>4. \A i \in 1 .. Queued : Contents[i] \in Bytes \cup {Junk}
  BY <1>2, <1>3 DEF DevTypes
<1>5. Contents = [i \in 1 .. Queued |-> Contents[i]]  BY DEF Contents
<1>6. Queued \in Nat  BY <1>1 DEF DevTypes
<1>7. Contents \in Seq(Bytes \cup {Junk}) /\ Len(Contents) = Queued
  BY <1>4, <1>5, <1>6, AsSequence
<1> QED BY <1>1, <1>2, <1>3, <1>7

\* Where the bytes lie after a read pointer that moved by n.
LEMMA TakeSlots ==
  ASSUME DevTypes, Inside, alloc > 0, NEW n \in Nat, n <= Queued, rp + n <= buffersize,
         rp' = rp + n, UNCHANGED <<alloc, buffersize, wp>>
  PROVE  /\ Queued' = Queued - n
         /\ \A i \in 1 .. Queued - n : Slot(i)' = Slot(i + n)
         /\ \A i \in 1 .. n : Slot(i) = rp + i - 1
<1>1. /\ Queued = wp - rp + (IF wp < rp THEN buffersize ELSE 0)
      /\ Queued \in 0 .. buffersize - 1
  BY QueuedInside
<1>2. Queued' = Queued - n
  <2>1. CASE rp + n = buffersize
    <3>1. Wrapped(rp)' = 0 /\ Wrapped(wp)' = wp  BY <2>1 DEF Wrapped, Inside, DevTypes
    <3>2. Queued' = wp  BY <3>1 DEF Queued, DevTypes
    <3> QED BY <3>2, <2>1, <1>1 DEF DevTypes, Inside
  <2>2. CASE rp + n < buffersize
    <3>1. Wrapped(rp)' = rp + n /\ Wrapped(wp)' = wp  BY <2>2 DEF Wrapped, Inside, DevTypes
    <3>2. Queued' = wp - (rp + n) + (IF wp < rp + n THEN buffersize ELSE 0)
      BY <3>1 DEF Queued, DevTypes
    <3> QED BY <3>2, <2>2, <1>1 DEF DevTypes, Inside
  <2> QED BY <2>1, <2>2 DEF DevTypes
<1>3. Wrapped(rp) = rp  BY DEF Wrapped, Inside, DevTypes
<1>4. \A i \in 1 .. n : Slot(i) = rp + i - 1  BY <1>3 DEF Slot, DevTypes
<1>5. \A i \in 1 .. Queued - n : Slot(i)' = Slot(i + n)
  <2> TAKE i \in 1 .. Queued - n
  <2>1. i \in Int /\ i > 0 /\ i + n <= Queued  BY <1>1 DEF DevTypes
  <2>2. Slot(i + n) = IF rp + (i + n) - 1 < buffersize THEN rp + (i + n) - 1
                                                       ELSE rp + (i + n) - 1 - buffersize
    BY <1>3, <2>1 DEF Slot, DevTypes
  <2>3. CASE rp + n = buffersize
    <3>1. Slot(i)' = IF i - 1 < buffersize THEN i - 1 ELSE i - 1 - buffersize
      BY <2>1, <2>3 DEF Slot, Wrapped, DevTypes
    <3> QED BY <3>1, <2>1, <2>2, <2>3, <1>1 DEF DevTypes
  <2>4. CASE rp + n < buffersize
    <3>1. Slot(i)' = IF rp + n + i - 1 < buffersize THEN rp + n + i - 1
                                                    ELSE rp + n + i - 1 - buffersize
      BY <2>1, <2>4 DEF Slot, Wrapped, DevTypes
    <3> QED BY <3>1, <2>1, <2>2 DEF DevTypes
  <2> QED BY <2>3, <2>4 DEF DevTypes
<1> QED BY <1>2, <1>4, <1>5

\* A read takes the oldest bytes, and leaves the rest in their order.
LEMMA TakeContents ==
  ASSUME RInv, NEW f \in Files, ReadTake(f)
  PROVE  /\ Contents \in Seq(Bytes \cup {Junk})
         /\ \E n \in Nat :
              /\ n <= Len(Contents)
              /\ Contents' = SubSeq(Contents, n + 1, Len(Contents))
              /\ ubuf'[f] = SubSeq(Contents, 1, n)
<1>a. CallTypes /\ DevTypes /\ TypeOK /\ SemExcludes /\ CallShape /\ OpenCounts /\ RingWraps
      /\ Fits
  BY Types DEF RInv, QInv, IInv
<1>1. pc[f] = "r_loop" /\ ~Empty  BY DEF ReadTake
<1>2. alloc > 0 /\ Inside  BY <1>1, <1>a, CallHasBuffer, RingInside
<1>3. count[f] \in Nat  BY <1>a DEF CallTypes
<1> DEFINE n == Readable(count[f])
<1>4. n \in Nat /\ n <= Queued /\ rp + n <= buffersize
  BY <1>1, <1>2, <1>3, <1>a, ReadableBounds
<1>5. /\ ubuf' = [ubuf EXCEPT ![f] = Fetch(n)]
      /\ rp' = rp + n /\ UNCHANGED <<alloc, buffersize, wp, mem>>
  BY DEF ReadTake
<1> HIDE DEF n
<1>6. /\ Queued' = Queued - n
      /\ \A i \in 1 .. Queued - n : Slot(i)' = Slot(i + n)
      /\ \A i \in 1 .. n : Slot(i) = rp + i - 1
  BY <1>2, <1>4, <1>5, <1>a, TakeSlots
<1>7. /\ Contents \in Seq(Bytes \cup {Junk}) /\ Len(Contents) = Queued
      /\ Queued \in 0 .. buffersize - 1
      /\ \A i \in 1 .. Queued : Contents[i] = mem[Slot(i)]
      /\ \A i \in 1 .. Queued : Slot(i) \in Offsets /\ Slot(i) < alloc
  BY <1>2, <1>a, ContentsSeq
<1>b. Queued \in Nat  BY <1>7, <1>a DEF DevTypes
<1>c. \A i \in 1 .. Queued : Contents[i] \in Bytes \cup {Junk}
  BY <1>7, ElementOfSeq
<1>8. Contents' = SubSeq(Contents, n + 1, Len(Contents))
  <2> DEFINE r == SubSeq(Contents, n + 1, Queued)
  <2>0. \A i \in n + 1 .. Queued : Contents[i] \in Bytes \cup {Junk}  BY <1>c, <1>4
  <2>1. /\ r \in Seq(Bytes \cup {Junk}) /\ Len(r) = Queued - n
        /\ \A i \in 1 .. Queued - n : r[i] = Contents[i + n]
    <3>1. n + 1 \in Int /\ Queued \in Int  BY <1>4, <1>b
    <3>2. /\ r \in Seq(Bytes \cup {Junk})
          /\ Len(r) = IF n + 1 <= Queued THEN Queued - (n + 1) + 1 ELSE 0
          /\ \A i \in 1 .. Queued - (n + 1) + 1 : r[i] = Contents[n + 1 + i - 1]
      BY <2>0, <3>1, SubSeqProperties
    <3>3. \A i \in 1 .. Queued - n : n + 1 + i - 1 = i + n
      BY <1>4, <1>b
    <3>4. Queued - (n + 1) + 1 = Queued - n  BY <1>4, <1>b
    <3> HIDE DEF r
    <3> QED BY <3>2, <3>3, <3>4, <1>4, <1>b
  <2> HIDE DEF r
  <2>2. Contents' = [i \in 1 .. Queued - n |-> mem[Slot(i + n)]]
    BY <1>5, <1>6 DEF Contents
  <2>3. r = [i \in 1 .. Queued - n |-> r[i]]  BY <2>1, LenProperties
  <2>4. \A i \in 1 .. Queued - n : r[i] = mem[Slot(i + n)]
    <3>1. \A i \in 1 .. Queued - n : i + n \in 1 .. Queued  BY <1>4, <1>b
    <3> QED BY <3>1, <2>1, <1>7
  <2>5. Contents' = r  BY <2>2, <2>3, <2>4
  <2> QED BY <2>5, <1>7 DEF r
<1>9. ubuf'[f] = SubSeq(Contents, 1, n)
  <2> DEFINE h == SubSeq(Contents, 1, n)
  <2>0. \A i \in 1 .. n : Contents[i] \in Bytes \cup {Junk} /\ i \in 1 .. Queued
    BY <1>c, <1>4, <1>b
  <2>1. /\ h \in Seq(Bytes \cup {Junk}) /\ Len(h) = n
        /\ \A i \in 1 .. n : h[i] = Contents[i]
    <3>1. /\ h \in Seq(Bytes \cup {Junk})
          /\ Len(h) = IF 1 <= n THEN n - 1 + 1 ELSE 0
          /\ \A i \in 1 .. n - 1 + 1 : h[i] = Contents[1 + i - 1]
      BY <2>0, <1>4, SubSeqProperties
    <3>2. n - 1 + 1 = n /\ \A i \in 1 .. n : 1 + i - 1 = i  BY <1>4
    <3> HIDE DEF h
    <3> QED BY <3>1, <3>2, <1>4
  <2> HIDE DEF h
  <2>2. h = [i \in 1 .. n |-> h[i]]  BY <2>1, LenProperties
  <2>3. \A i \in 1 .. n : /\ rp + i - 1 < alloc
                          /\ h[i] = mem[rp + i - 1]
    BY <2>0, <2>1, <1>6, <1>7
  <2>4. Fetch(n) = [i \in 1 .. n |-> mem[rp + i - 1]]  BY <2>3 DEF Fetch
  <2>5. Fetch(n) = h  BY <2>2, <2>3, <2>4
  <2>6. ubuf'[f] = Fetch(n)  BY <1>5, <1>a DEF CallTypes
  <2> QED BY <2>5, <2>6 DEF h
<1>10. n <= Len(Contents)  BY <1>4, <1>7
<1> QED BY <1>4, <1>7, <1>8, <1>9, <1>10
\* Where the bytes lie after a write pointer that moved by n.
LEMMA PutSlots ==
  ASSUME DevTypes, Inside, alloc > 0, NEW n \in Nat, n <= spacefree, wp + n <= buffersize,
         wp' = wp + n, UNCHANGED <<alloc, buffersize, rp>>
  PROVE  /\ Queued' = Queued + n
         /\ \A i \in Int : Slot(i)' = Slot(i)
         /\ \A i \in 1 .. n : Slot(Queued + i) = wp + i - 1
<1>1. /\ Queued = wp - rp + (IF wp < rp THEN buffersize ELSE 0)
      /\ Queued \in 0 .. buffersize - 1
      /\ spacefree = buffersize - 1 - Queued
  BY QueuedInside
<1>2. Queued' = Queued + n
  <2>1. CASE wp + n = buffersize
    <3>1. Wrapped(wp)' = 0 /\ Wrapped(rp)' = rp  BY <2>1 DEF Wrapped, Inside, DevTypes
    <3>2. Queued' = 0 - rp + (IF 0 < rp THEN buffersize ELSE 0)
      BY <3>1 DEF Queued, DevTypes
    <3> QED BY <3>2, <2>1, <1>1 DEF DevTypes, Inside
  <2>2. CASE wp + n < buffersize
    <3>1. Wrapped(wp)' = wp + n /\ Wrapped(rp)' = rp  BY <2>2 DEF Wrapped, Inside, DevTypes
    <3>2. Queued' = wp + n - rp + (IF wp + n < rp THEN buffersize ELSE 0)
      BY <3>1 DEF Queued, DevTypes
    <3> QED BY <3>2, <2>2, <1>1 DEF DevTypes, Inside
  <2> QED BY <2>1, <2>2 DEF DevTypes
<1>3. \A i \in Int : Slot(i)' = Slot(i)  BY DEF Slot, Wrapped
<1>4. Wrapped(rp) = rp  BY DEF Wrapped, Inside, DevTypes
<1>5. \A i \in 1 .. n : Slot(Queued + i) = wp + i - 1
  <2> TAKE i \in 1 .. n
  <2>1. Slot(Queued + i) = IF rp + (Queued + i) - 1 < buffersize
                             THEN rp + (Queued + i) - 1
                             ELSE rp + (Queued + i) - 1 - buffersize
    BY <1>1, <1>4 DEF Slot, DevTypes
  <2> QED BY <2>1, <1>1 DEF DevTypes, Inside
<1> QED BY <1>2, <1>3, <1>5

\* A write puts a prefix of its data behind what is queued, and it fits.
LEMMA PutContents ==
  ASSUME RInv, NEW f \in Files, WritePut(f)
  PROVE  /\ Contents \in Seq(Bytes \cup {Junk})
         /\ \E n \in Nat :
              /\ n <= Len(ubuf[f]) /\ Len(Contents) + n <= MaxSize - 1
              /\ Contents' = Contents \o SubSeq(ubuf[f], 1, n)
<1>a. CallTypes /\ DevTypes /\ TypeOK /\ SemExcludes /\ CallShape /\ OpenCounts /\ RingWraps
      /\ Fits
  BY Types DEF RInv, QInv, IInv
<1>1. pc[f] = "w_loop" /\ spacefree # 0  BY DEF WritePut
<1>2. alloc > 0 /\ Inside  BY <1>1, <1>a, CallHasBuffer, RingInside
<1>3. count[f] \in Nat  BY <1>a DEF CallTypes
<1> DEFINE n == Writable(count[f])
           t == SubSeq(ubuf[f], 1, n)
<1>4. n \in Nat /\ n <= count[f] /\ n <= spacefree /\ wp + n <= buffersize
  BY <1>1, <1>2, <1>3, <1>a, WritableBounds
<1>5. t \in Seq(Bytes \cup {Junk}) /\ Len(t) = n
  <2>1. n <= n  BY <1>4
  <2> QED BY <2>1, <1>1, <1>4, <1>a, PutStores
<1>6. Store(t) /\ wp' = wp + Len(t) /\ UNCHANGED <<alloc, buffersize, rp>>
  BY DEF WritePut
<1> HIDE DEF n, t
<1>7. wp' = wp + n  BY <1>5, <1>6
<1>8. /\ Queued' = Queued + n
      /\ \A i \in Int : Slot(i)' = Slot(i)
      /\ \A i \in 1 .. n : Slot(Queued + i) = wp + i - 1
  BY <1>2, <1>4, <1>6, <1>7, <1>a, PutSlots
<1>9. /\ Contents \in Seq(Bytes \cup {Junk}) /\ Len(Contents) = Queued
      /\ Queued \in 0 .. buffersize - 1
      /\ \A i \in 1 .. Queued : Contents[i] = mem[Slot(i)]
      /\ \A i \in 1 .. Queued : Slot(i) \in Offsets /\ Slot(i) < alloc
  BY <1>2, <1>a, ContentsSeq
<1>b. Queued \in Nat  BY <1>9, <1>a DEF DevTypes
<1>10. \A i \in 1 .. Queued : mem'[Slot(i)] = mem[Slot(i)]
  <2> TAKE i \in 1 .. Queued
  <2>1. Slot(i) \notin wp .. wp + n - 1  BY <1>2, <1>4, <1>a, SlotsApart
  <2> QED BY <2>1, <1>5, <1>6, <1>9 DEF Store
<1>11. \A i \in 1 .. n : mem'[wp + i - 1] = t[i]
  <2> TAKE i \in 1 .. n
  <2>1. wp + i - 1 \in wp .. wp + n - 1 /\ wp + i - 1 < buffersize /\ wp + i - 1 \in Nat
    BY <1>4, <1>a DEF DevTypes
  <2>2. buffersize <= MaxSize /\ alloc = buffersize  BY <1>2, <1>a DEF Fits, DevTypes
  <2>3. wp + i - 1 \in Offsets /\ wp + i - 1 < alloc
    BY <2>1, <2>2, SizesAssumption, <1>a DEF Offsets, DevTypes
  <2>4. (wp + i - 1) - wp + 1 = i  BY <1>4, <1>a DEF DevTypes
  <2>5. mem'[wp + i - 1] = t[(wp + i - 1) - wp + 1]
    BY <2>1, <2>3, <1>5, <1>6 DEF Store
  <2> QED BY <2>4, <2>5
<1>12. Contents' = Contents \o t
  <2> DEFINE r == Contents \o t
  <2>1. /\ r \in Seq(Bytes \cup {Junk}) /\ Len(r) = Queued + n
        /\ \A i \in 1 .. Queued + n :
             r[i] = IF i <= Queued THEN Contents[i] ELSE t[i - Queued]
    <3> DEFINE c == Contents
               S == Bytes \cup {Junk}
    <3>1. c \in Seq(S) /\ Len(c) = Queued /\ t \in Seq(S) /\ Len(t) = n
      BY <1>5, <1>9
    <3> HIDE DEF c, S
    <3>2. /\ c \o t \in Seq(S) /\ Len(c \o t) = Len(c) + Len(t)
          /\ \A i \in 1 .. Len(c) + Len(t) :
               (c \o t)[i] = IF i <= Len(c) THEN c[i] ELSE t[i - Len(c)]
      BY <3>1, ConcatProperties
    <3> QED BY <3>1, <3>2 DEF c, S
  <2> HIDE DEF r
  <2>2. Contents' = [i \in 1 .. Queued + n |-> mem'[Slot(i)]]
    <3>1. \A i \in 1 .. Queued + n : Slot(i)' = Slot(i)  BY <1>4, <1>8, <1>b
    <3> QED BY <3>1, <1>8 DEF Contents
  <2>3. r = [i \in 1 .. Queued + n |-> r[i]]  BY <2>1, LenProperties
  <2>4. \A i \in 1 .. Queued + n : r[i] = mem'[Slot(i)]
    <3> TAKE i \in 1 .. Queued + n
    <3>1. CASE i <= Queued
      <4>1. i \in 1 .. Queued  BY <3>1, <1>4, <1>b
      <4> QED BY <4>1, <3>1, <2>1, <1>9, <1>10
    <3>2. CASE i > Queued
      <4>1. i - Queued \in 1 .. n /\ Queued + (i - Queued) = i /\ ~(i <= Queued)
        BY <3>2, <1>4, <1>b
      <4>2. Slot(i) = wp + (i - Queued) - 1  BY <4>1, <1>8
      <4>3. mem'[wp + (i - Queued) - 1] = t[i - Queued]  BY <4>1, <1>11
      <4> QED BY <4>1, <4>2, <4>3, <2>1
    <3> QED BY <3>1, <3>2, <1>4, <1>b
  <2>5. Contents' = r  BY <2>2, <2>3, <2>4
  <2> QED BY <2>5 DEF r
<1>13. n <= Len(ubuf[f])
  <2>1. count[f] = Len(ubuf[f])
    BY <1>1, <1>a DEF CallShape, ShapeOf, Offering
  <2> QED BY <2>1, <1>4
<1>14. Len(Contents) + n <= MaxSize - 1
  <2>1. spacefree = buffersize - 1 - Queued  BY <1>2, <1>a, QueuedInside
  <2>2. buffersize <= MaxSize  BY <1>2, <1>a DEF Fits, DevTypes
  <2> QED BY <2>1, <2>2, <1>4, <1>9, <1>b, <1>a, SizesAssumption DEF DevTypes
<1> QED BY <1>4, <1>9, <1>12, <1>13, <1>14 DEF t
\* An open finds nothing queued and leaves nothing queued (pipe.c:80).
LEMMA OpenContents ==
  ASSUME RInv, NEW f \in Files, OpenSucceeds(f)
  PROVE  Contents' = Contents /\ IsOpen(f)'
<1>a. CallTypes /\ ShapeOf(f)  BY Types DEF RInv, QInv, IInv, CallShape
<1>1. pc[f] = "open_cs" /\ pc'[f] = "idle" /\ flags' = flags
  BY <1>a DEF OpenSucceeds, Goto, CallTypes
<1>2. Queued = 0  BY <1>1 DEF RInv, QInv, OpensEmpty
<1>3. Queued' = 0  BY DEF OpenSucceeds, Queued, Wrapped
<1>4. Contents' = Contents  BY <1>2, <1>3, NothingQueued
<1>5. IsOpen(f)'  BY <1>1, <1>a DEF ShapeOf, IsOpen
<1> QED BY <1>4, <1>5

\* The last close frees the buffer (pipe.c:105-108), and only the last one.
LEMMA CloseContents ==
  ASSUME RInv, NEW f \in Files, ReleaseCounts(f)
  PROVE  /\ ~IsOpen(f)'
         /\ Contents' = IF Users = {f} THEN <<>> ELSE Contents
<1>a. /\ CallTypes /\ DevTypes /\ TypeOK /\ SemExcludes /\ CallShape /\ OpenCounts
      /\ RingWraps /\ ShapeOf(f) /\ Act(f)
  BY Types DEF RInv, QInv, IInv, CallShape, Act, Step
<1>1. OpenCounts'  BY <1>a, CountsStep
<1>2. pc[f] = "rel_cs" /\ flags'[f] = {}
  BY <1>a DEF ReleaseCounts, CallTypes
<1>3. ~IsOpen(f)' /\ IsOpen(f)  BY <1>2, <1>a DEF IsOpen, ShapeOf
<1>4. \A g \in Files : g # f => (IsOpen(g)' <=> IsOpen(g))  BY <1>a, OthersMap
<1>5. CASE Users = {f}
  <2>1. \A g \in Files : ~IsOpen(g)'  BY <1>3, <1>4, <1>5 DEF Users
  <2>2. ~(alloc' > 0)  BY <1>1, <2>1 DEF OpenCounts
  <2>3. alloc' = 0
    <3>1. alloc' = 0 \/ alloc' = alloc  BY DEF ReleaseCounts
    <3> QED BY <3>1, <2>2, <1>a DEF DevTypes
  <2>4. Queued' = 0  BY <2>3 DEF Queued
  <2> QED BY <2>4, <1>3, <1>5, NothingQueued
<1>6. CASE Users # {f}
  <2>1. PICK g \in Files : g # f /\ IsOpen(g)  BY <1>3, <1>6 DEF Users
  <2>2. alloc' > 0  BY <2>1, <1>1, <1>4 DEF OpenCounts
  <2>3. UNCHANGED <<alloc, buffersize, rp, wp, mem>>  BY <2>2 DEF ReleaseCounts
  <2>4. Contents' = Contents  BY <2>3 DEF Contents, Slot, Queued, Wrapped
  <2> QED BY <2>4, <1>3, <1>6
<1> QED BY <1>5, <1>6
-----------------------------------------------------------------------------
(***************************************************************************)
(* The strengthened invariant.                                             *)
(***************************************************************************)
\* A buffer keeps its size: an open that resized the ring without reallocating
\* (pipe.c:70-79) would break it, and QuietSpec leaves that out.
LEMMA RInvStep == RInv /\ [QuietNext]_vars => RInv'
<1> SUFFICES ASSUME RInv, [QuietNext]_vars PROVE RInv'
  OBVIOUS
<1>a. QInv'  BY QInvStep DEF RInv
<1>b. Fits /\ SizeKept /\ IInv  BY DEF RInv, QInv
<1>1. CASE (alloc = 0 /\ SetBufferSize) \/ UNCHANGED vars
  <2>1. UNCHANGED <<alloc, buffersize>>  BY <1>1 DEF SetBufferSize, vars, dev
  <2> QED BY <2>1, <1>a, <1>b DEF RInv, Fits
<1>2. ASSUME NEW f \in Files, QuietAct(f) PROVE RInv'
  <2>a. Act(f)  BY <1>2 DEF QuietAct, Act
  <2>b. CallTypes /\ DevTypes /\ ShapeOf(f)  BY <1>b, Types DEF IInv, CallShape
  <2>1. CASE OpenSucceeds(f)
    <3>1. /\ alloc' = IF alloc = 0 THEN scull_p_buffer ELSE alloc
          /\ buffersize' = scull_p_buffer
      BY <2>1 DEF OpenSucceeds
    <3>2. Fits'  BY <3>1, <2>b, <1>b DEF Fits, SizeKept, DevTypes
    <3> QED BY <3>2, <1>a DEF RInv
  <2>2. CASE ReleaseCounts(f)  BY <2>2, <1>a, <1>b DEF ReleaseCounts, RInv, Fits
  <2>3. CASE ReadTake(f) \/ ReadWrap(f) \/ WritePut(f) \/ WriteWrap(f) \/ Still(f)
    <3>1. UNCHANGED <<alloc, buffersize>>
      BY <2>3 DEF ReadTake, ReadWrap, WritePut, WriteWrap, Still
    <3> QED BY <3>1, <1>a, <1>b DEF RInv, Fits
  <2> QED BY <2>1, <2>2, <2>3, <2>a, <2>b, MoveOrStill
<1> QED BY <1>1, <1>2 DEF QuietNext, QuietAct
-----------------------------------------------------------------------------
(***************************************************************************)
(* The refinement.                                                         *)
(***************************************************************************)
\* The abstract variables by the names used here.
LEMMA FifoVars == Fifo!vars = <<Users, Contents, Tosends, Takens>>
BY DEF Fifo!vars, Users, Tosends, Takens, Tosend, Taken

\* When a step maps to an open of the channel.
LEMMA MapsToOpen ==
  ASSUME NEW f \in Files, Users' = Users \cup {f}, UNCHANGED <<Contents, Tosends, Takens>>
  PROVE  Fifo!Open(f)
BY DEF Fifo!Open, Users, Tosends, Takens, Tosend, Taken

\* When a step maps to a close.
LEMMA MapsToClose ==
  ASSUME NEW f \in Files, Users' = Users \ {f},
         Contents' = IF Users = {f} THEN <<>> ELSE Contents,
         UNCHANGED <<Tosends, Takens>>
  PROVE  Fifo!Close(f)
BY DEF Fifo!Close, Users, Tosends, Takens, Tosend, Taken

\* When a step maps to a write call that gives up.
LEMMA MapsToAbandon ==
  ASSUME NEW f \in Files, Tosends' = [Tosends EXCEPT ![f] = <<>>],
         UNCHANGED <<Users, Contents, Takens>>
  PROVE  Fifo!Abandon(f)
BY DEF Fifo!Abandon, Fifo!Set, Users, Tosends, Takens, Tosend, Taken

\* When a step maps to a read call that hands over what it took.
LEMMA MapsToDeliver ==
  ASSUME NEW f \in Files, Takens' = [Takens EXCEPT ![f] = <<>>],
         UNCHANGED <<Users, Contents, Tosends>>
  PROVE  Fifo!Deliver(f)
BY DEF Fifo!Deliver, Fifo!Set, Users, Tosends, Takens, Tosend, Taken

\* When a step maps to the start of a write call.
LEMMA MapsToOffer ==
  ASSUME NEW f \in Files, f \in Users, Tosends'[f] \in Seq(Bytes),
         Tosends' = [Tosends EXCEPT ![f] = Tosends'[f]],
         UNCHANGED <<Users, Contents, Takens>>
  PROVE  Fifo!Offer(f)
BY DEF Fifo!Offer, Fifo!Set, Users, Tosends, Takens, Tosend, Taken

\* When a step maps to bytes entering the channel.
LEMMA MapsToPut ==
  ASSUME NEW f \in Files, NEW n \in 1 .. Len(Tosends[f]),
         Len(Contents) + n <= MaxSize - 1,
         Contents' = Contents \o SubSeq(Tosends[f], 1, n),
         Tosends' = [Tosends EXCEPT ![f] = <<>>],
         UNCHANGED <<Users, Takens>>
  PROVE  Fifo!Put(f)
BY DEF Fifo!Put, Fifo!Set, Users, Tosends, Takens, Tosend, Taken

\* When a step maps to bytes leaving it.
LEMMA MapsToTake ==
  ASSUME NEW f \in Files, f \in Users, NEW n \in 1 .. Len(Contents),
         Takens' = [Takens EXCEPT ![f] = SubSeq(Contents, 1, n)],
         Contents' = SubSeq(Contents, n + 1, Len(Contents)),
         UNCHANGED <<Users, Tosends>>
  PROVE  Fifo!Take(f)
BY DEF Fifo!Take, Fifo!Set, Users, Tosends, Takens, Tosend, Taken

\* Only f's part of the abstract state moves.
LEMMA OnlyPart ==
  ASSUME CallTypes, NEW f \in Files, Act(f)
  PROVE  /\ (IsOpen(f)' <=> IsOpen(f)) => Users' = Users
         /\ IsOpen(f)' => Users' = Users \cup {f}
         /\ ~IsOpen(f)' => Users' = Users \ {f}
         /\ Tosends' = [Tosends EXCEPT ![f] = Tosend(f)']
         /\ Takens' = [Takens EXCEPT ![f] = Taken(f)']
         /\ Tosend(f)' = Tosend(f) => Tosends' = Tosends
         /\ Taken(f)' = Taken(f) => Takens' = Takens
<1>1. \A g \in Files : g # f => /\ IsOpen(g)' <=> IsOpen(g)
                                /\ Tosend(g)' = Tosend(g)
                                /\ Taken(g)' = Taken(g)
  BY OthersMap
<1>2. /\ (IsOpen(f)' <=> IsOpen(f)) => Users' = Users
      /\ IsOpen(f)' => Users' = Users \cup {f}
      /\ ~IsOpen(f)' => Users' = Users \ {f}
  BY <1>1 DEF Users
<1>3. /\ Tosends' = [Tosends EXCEPT ![f] = Tosend(f)']
      /\ Tosend(f)' = Tosend(f) => Tosends' = Tosends
  BY <1>1 DEF Tosends
<1>4. /\ Takens' = [Takens EXCEPT ![f] = Taken(f)']
      /\ Taken(f)' = Taken(f) => Takens' = Takens
  BY <1>1 DEF Takens
<1> QED BY <1>2, <1>3, <1>4

\* A read that takes bytes is Take, one that asked for none delivers none.
LEMMA TakeMaps ==
  ASSUME RInv, NEW f \in Files, ReadTake(f)
  PROVE  Fifo!Transfer(f)
<1>a. /\ CallTypes /\ DevTypes /\ TypeOK /\ SemExcludes /\ CallShape /\ OpenCounts
      /\ RingWraps /\ ShapeOf(f) /\ Act(f) /\ Fits
  BY Types DEF RInv, QInv, IInv, CallShape, Act, Step
<1>1. pc[f] = "r_loop" /\ pc'[f] = "r_adv" /\ flags' = flags
  BY <1>a DEF ReadTake, Goto, CallTypes, users
<1>2. IsOpen(f) /\ IsOpen(f)' /\ f \in Users
  BY <1>1, <1>a DEF IsOpen, ShapeOf, Users
<1>3. Tosend(f) = <<>> /\ Tosend(f)' = <<>> /\ Taken(f)' = ubuf'[f]
  BY <1>1 DEF Tosend, Taken, Offering
<1>4. UNCHANGED <<Users, Tosends>> /\ Takens' = [Takens EXCEPT ![f] = ubuf'[f]]
  BY <1>2, <1>3, <1>a, OnlyPart
<1>5. Contents \in Seq(Bytes \cup {Junk})  BY TakeContents
<1>6. PICK n \in Nat : /\ n <= Len(Contents)
                       /\ Contents' = SubSeq(Contents, n + 1, Len(Contents))
                       /\ ubuf'[f] = SubSeq(Contents, 1, n)
  BY TakeContents
<1>7. CASE n = 0
  <2>1. Contents' = Contents  BY <1>5, <1>6, <1>7, SubSeqFull
  <2>2. ubuf'[f] = <<>>  BY <1>6, <1>7, SubSeqEmpty
  <2>3. Fifo!Deliver(f)  BY <1>4, <2>1, <2>2, MapsToDeliver
  <2> QED BY <2>3 DEF Fifo!Transfer
<1>8. CASE n > 0
  <2>1. n \in 1 .. Len(Contents)  BY <1>5, <1>6, <1>8, LenProperties
  <2>2. Takens' = [Takens EXCEPT ![f] = SubSeq(Contents, 1, n)]  BY <1>4, <1>6
  <2>3. Contents' = SubSeq(Contents, n + 1, Len(Contents))  BY <1>6
  <2>4. Fifo!Take(f)  BY <1>2, <1>4, <2>1, <2>2, <2>3, MapsToTake
  <2> QED BY <2>4 DEF Fifo!Transfer
<1> QED BY <1>7, <1>8

\* A write that stores bytes is Put, one that had none to store gives up.
LEMMA PutMaps ==
  ASSUME RInv, NEW f \in Files, WritePut(f)
  PROVE  Fifo!Transfer(f)
<1>a. /\ CallTypes /\ DevTypes /\ TypeOK /\ SemExcludes /\ CallShape /\ OpenCounts
      /\ RingWraps /\ ShapeOf(f) /\ Act(f) /\ Fits
  BY Types DEF RInv, QInv, IInv, CallShape, Act, Step
<1>1. pc[f] = "w_loop" /\ pc'[f] = "w_adv" /\ flags' = flags
  BY <1>a DEF WritePut, Goto, CallTypes, users
<1>2. IsOpen(f) /\ IsOpen(f)'
  BY <1>1, <1>a DEF IsOpen, ShapeOf
<1>3. /\ Tosend(f) = ubuf[f] /\ Tosend(f)' = <<>>
      /\ Taken(f) = <<>> /\ Taken(f)' = <<>>
  BY <1>1 DEF Tosend, Taken, Offering
<1>4. UNCHANGED <<Users, Takens>> /\ Tosends' = [Tosends EXCEPT ![f] = <<>>]
  BY <1>2, <1>3, <1>a, OnlyPart
<1>b. Tosends[f] = ubuf[f]  BY <1>3 DEF Tosends
<1>5. Contents \in Seq(Bytes \cup {Junk}) /\ ubuf[f] \in Seq(Bytes \cup {Junk})
  BY <1>a, PutContents DEF CallTypes
<1>6. PICK n \in Nat : /\ n <= Len(ubuf[f])
                       /\ Len(Contents) + n <= MaxSize - 1
                       /\ Contents' = Contents \o SubSeq(ubuf[f], 1, n)
  BY PutContents
<1>7. CASE n = 0
  <2>1. SubSeq(ubuf[f], 1, n) = <<>>  BY <1>7, SubSeqEmpty
  <2>2. Contents' = Contents  BY <1>5, <1>6, <2>1, ConcatEmptySeq
  <2>3. Fifo!Abandon(f)  BY <1>4, <2>2, MapsToAbandon
  <2> QED BY <2>3 DEF Fifo!Transfer
<1>8. CASE n > 0
  <2>1. n \in 1 .. Len(Tosends[f])  BY <1>b, <1>5, <1>6, <1>8, LenProperties
  <2>2. Contents' = Contents \o SubSeq(Tosends[f], 1, n)  BY <1>b, <1>6
  <2>3. Len(Contents) + n <= MaxSize - 1  BY <1>6
  <2>4. Fifo!Put(f)  BY <1>4, <2>1, <2>2, <2>3, MapsToPut
  <2> QED BY <2>4 DEF Fifo!Transfer
<1> QED BY <1>7, <1>8

\* A call that leaves the ring alone starts, gives up or ends a transfer, or is
\* no step of the channel at all.
LEMMA StillMaps ==
  ASSUME RInv, NEW f \in Files, Act(f), Still(f), ~ReadTake(f), ~WritePut(f)
  PROVE  Fifo!Transfer(f) \/ UNCHANGED Fifo!vars
<1>a. CallTypes /\ ShapeOf(f)  BY Types DEF RInv, QInv, IInv, CallShape
<1>1. Contents' = Contents  BY StillContents
<1>2. IsOpen(f)' <=> IsOpen(f)  BY DEF Still
<1>3. /\ Users' = Users
      /\ Tosends' = [Tosends EXCEPT ![f] = Tosend(f)']
      /\ Takens' = [Takens EXCEPT ![f] = Taken(f)']
      /\ Tosend(f)' = Tosend(f) => Tosends' = Tosends
      /\ Taken(f)' = Taken(f) => Takens' = Takens
  BY <1>2, <1>a, OnlyPart
<1>4. CASE Tosend(f)' = Tosend(f) /\ Taken(f)' = Taken(f)
  <2>1. UNCHANGED <<Users, Contents, Tosends, Takens>>  BY <1>1, <1>3, <1>4
  <2> QED BY <2>1, FifoVars DEF Fifo!vars, Users, Tosends, Takens, Tosend, Taken
<1>5. CASE Tosend(f)' = <<>> /\ Taken(f)' = Taken(f)
  <2>1. Tosends' = [Tosends EXCEPT ![f] = <<>>]  BY <1>3, <1>5
  <2>2. Fifo!Abandon(f)  BY <1>1, <1>3, <1>5, <2>1, MapsToAbandon
  <2> QED BY <2>2 DEF Fifo!Transfer
<1>6. CASE Tosend(f)' = Tosend(f) /\ Taken(f)' = <<>>
  <2>1. Takens' = [Takens EXCEPT ![f] = <<>>]  BY <1>3, <1>6
  <2>2. Fifo!Deliver(f)  BY <1>1, <1>3, <1>6, <2>1, MapsToDeliver
  <2> QED BY <2>2 DEF Fifo!Transfer
<1>7. CASE Write(f) /\ Tosend(f)' \in Data /\ Taken(f)' = Taken(f)
  <2>1. IsOpen(f)  BY <1>7 DEF Write, IsOpen
  <2>2. f \in Users  BY <2>1 DEF Users
  <2>3. Tosends'[f] = Tosend(f)'  BY DEF Tosends
  <2>4. Tosends'[f] \in Seq(Bytes)  BY <2>3, <1>7, DataAssumption
  <2>5. Tosends' = [Tosends EXCEPT ![f] = Tosends'[f]]  BY <2>3, <1>3
  <2>6. Fifo!Offer(f)  BY <1>1, <1>3, <1>7, <2>2, <2>4, <2>5, MapsToOffer
  <2> QED BY <2>6 DEF Fifo!Transfer
<1> QED BY <1>4, <1>5, <1>6, <1>7, <1>a, CallMaps

\* A wrap is invisible to the users.
LEMMA WrapMaps ==
  ASSUME RInv, NEW f \in Files, ReadWrap(f) \/ WriteWrap(f)
  PROVE  UNCHANGED Fifo!vars
<1>a. CallTypes /\ ShapeOf(f) /\ Act(f)
  BY Types DEF RInv, QInv, IInv, CallShape, Act, Step
<1>1. /\ \/ pc[f] = "r_adv" /\ pc'[f] = "r_wake"
         \/ pc[f] = "w_adv" /\ pc'[f] = "w_wake"
      /\ flags' = flags /\ ubuf' = ubuf
  <2>1. CASE ReadWrap(f)  BY <2>1, <1>a DEF ReadWrap, Goto, CallTypes, users, call
  <2>2. CASE WriteWrap(f)  BY <2>2, <1>a DEF WriteWrap, Goto, CallTypes, users, call
  <2> QED BY <2>1, <2>2
<1>2. IsOpen(f)' <=> IsOpen(f)  BY <1>1 DEF IsOpen
<1>3. Tosend(f)' = Tosend(f) /\ Taken(f)' = Taken(f)
  BY <1>1 DEF Tosend, Taken, Offering
<1>4. UNCHANGED <<Users, Tosends, Takens>>  BY <1>2, <1>3, <1>a, OnlyPart
<1>5. Contents' = Contents  BY WrapContents
<1> QED BY <1>4, <1>5 DEF Fifo!vars, Users, Tosends, Takens, Tosend, Taken

\* Every step of a file is one of the channel, or a stutter.
LEMMA ActMaps ==
  ASSUME RInv, NEW f \in Files, QuietAct(f)
  PROVE  Fifo!Open(f) \/ Fifo!Close(f) \/ Fifo!Transfer(f) \/ UNCHANGED Fifo!vars
<1>a. CallTypes /\ ShapeOf(f) /\ Act(f)
  BY Types DEF RInv, QInv, IInv, CallShape, QuietAct, Act
<1>1. CASE OpenSucceeds(f)
  <2>1. Contents' = Contents /\ IsOpen(f)'  BY <1>1, OpenContents
  <2>2. pc[f] = "open_cs" /\ pc'[f] = "idle"
    BY <1>1, <1>a DEF OpenSucceeds, Goto, CallTypes
  <2>3. Tosend(f)' = Tosend(f) /\ Taken(f)' = Taken(f)
    BY <2>2 DEF Tosend, Taken, Offering
  <2>4. Users' = Users \cup {f} /\ UNCHANGED <<Tosends, Takens>>
    BY <2>1, <2>3, <1>a, OnlyPart
  <2> QED BY <2>1, <2>4, MapsToOpen
<1>2. CASE ReleaseCounts(f)
  <2>1. ~IsOpen(f)' /\ Contents' = IF Users = {f} THEN <<>> ELSE Contents
    BY <1>2, CloseContents
  <2>2. pc[f] = "rel_cs" /\ pc'[f] = "idle"
    BY <1>2, <1>a DEF ReleaseCounts, Goto, CallTypes
  <2>3. Tosend(f)' = Tosend(f) /\ Taken(f)' = Taken(f)
    BY <2>2 DEF Tosend, Taken, Offering
  <2>4. Users' = Users \ {f} /\ UNCHANGED <<Tosends, Takens>>
    BY <2>1, <2>3, <1>a, OnlyPart
  <2>5. Contents' = IF Users = {f} THEN <<>> ELSE Contents  BY <2>1
  <2> QED BY <2>4, <2>5, MapsToClose
<1>3. CASE ReadTake(f)  BY <1>3, TakeMaps
<1>4. CASE WritePut(f)  BY <1>4, PutMaps
<1>5. CASE ReadWrap(f) \/ WriteWrap(f)  BY <1>5, WrapMaps
<1>6. CASE Still(f) /\ ~ReadTake(f) /\ ~WritePut(f)  BY <1>6, <1>a, StillMaps
<1> QED BY <1>1, <1>2, <1>3, <1>4, <1>5, <1>6, <1>a, MoveOrStill

\* The state of a loaded driver is that of a channel nobody uses.
LEMMA InitMaps == Init => Fifo!Init /\ RInv
<1> SUFFICES ASSUME Init PROVE Fifo!Init /\ RInv
  OBVIOUS
<1>1. RInv  BY InitQInv DEF RInv, Fits, Init
<1>2. Users = {}  BY DEF Init, Users, IsOpen
<1>3. Contents = <<>>
  <2>1. Queued = 0  BY DEF Init, Queued
  <2> QED BY <2>1, NothingQueued
<1>4. Tosends = [f \in Files |-> <<>>] /\ Takens = [f \in Files |-> <<>>]
  BY DEF Init, Tosends, Takens, Tosend, Taken, Offering
<1>5. Fifo!Init
  BY <1>2, <1>3, <1>4 DEF Fifo!Init, Users, Tosends, Takens, Tosend, Taken
<1> QED BY <1>1, <1>5

\* Every step of the driver is a step of the channel, or a stutter.
LEMMA NextMaps == RInv /\ [QuietNext]_vars => [Fifo!Next]_(Fifo!vars)
<1> SUFFICES ASSUME RInv, [QuietNext]_vars
             PROVE  Fifo!Next \/ UNCHANGED Fifo!vars
  OBVIOUS
<1>1. CASE (alloc = 0 /\ SetBufferSize) \/ UNCHANGED vars
  <2>1. UNCHANGED <<alloc, buffersize, rp, wp, mem, flags, pc, ubuf>>
    BY <1>1 DEF SetBufferSize, vars, dev, users, call
  <2>2. Contents' = Contents  BY <2>1 DEF Contents, Slot, Queued, Wrapped
  <2>3. UNCHANGED <<Users, Tosends, Takens>>
    BY <2>1 DEF Users, IsOpen, Tosends, Takens, Tosend, Taken, Offering
  <2> QED BY <2>2, <2>3 DEF Fifo!vars, Users, Tosends, Takens, Tosend, Taken
<1>2. ASSUME NEW f \in Files, QuietAct(f) PROVE Fifo!Next \/ UNCHANGED Fifo!vars
  BY <1>2, ActMaps DEF Fifo!Next
<1> QED BY <1>1, <1>2 DEF QuietNext, QuietAct

\* As long as nobody opens the pipe with bytes in it or resizes it while it is
\* open, the device is a first-in first-out channel of bytes, whatever the sizes,
\* the number of files and the data: no byte is lost, repeated, reordered or
\* invented between write (pipe.c:188-226) and read (pipe.c:118-155).
THEOREM PipeIsFifo == QuietSpec => IsFifo
<1> QED BY InitMaps, RInvStep, NextMaps, PTL DEF QuietSpec, IsFifo, Fifo!Spec

\* With the size set only while the pipe is closed, end is the end of the
\* allocation (pipe.c:70-80, 105-108) and the pointers never leave it.
THEOREM PointersStay == QuietSpec => []PointersInBuffer
<1>1. RInv => PointersInBuffer
  <2> SUFFICES ASSUME RInv PROVE PointersInBuffer
    OBVIOUS
  <2>1. RingWraps /\ Fits  BY DEF RInv, QInv, IInv
  <2> QED BY <2>1 DEF PointersInBuffer, RingWraps, Fits
<1>2. Init => RInv  BY InitMaps
<1> QED BY <1>1, <1>2, RInvStep, PTL DEF QuietSpec
=============================================================================

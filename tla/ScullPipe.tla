----------------------------- MODULE ScullPipe ------------------------------
(***************************************************************************)
(* One scullpipe device (scull/pipe.c): a circular buffer guarded by a     *)
(* semaphore, two wait queues, and the calls of the files that use it.     *)
(*                                                                         *)
(* Each file makes one call at a time.  A call is cut into steps where the *)
(* code takes or drops the semaphore, tests the ring without it, moves a   *)
(* pointer, or wakes a queue; everything between two cuts is invisible to  *)
(* the other files.  A file on a wait queue leaves it when it is woken, so *)
(* "asleep" is: in a sleep state and still on the queue.                   *)
(***************************************************************************)
EXTENDS Integers, FiniteSets, Sequences

CONSTANTS
  Files,     \* the open files (struct file) that may exist at once
  Free,      \* the semaphore's holder when nobody holds it
  Bytes,     \* the values of a byte
  Junk,      \* what memory holds that this driver has not written
  Sizes,     \* the values scull_p_buffer may be set to
  MaxSize,   \* bound: the largest of them
  Modes,     \* the flag sets an open may ask for
  Notified,  \* bound: the files that may ask for SIGIO (FASYNC)
  Data,      \* bound: the byte strings a write may offer
  MaxCount   \* bound: the longest read or write request

ASSUME FilesAssumption == IsFiniteSet(Files) /\ Free \notin Files
ASSUME BytesAssumption == Junk \notin Bytes
ASSUME SizesAssumption == MaxSize \in Nat /\ Sizes \subseteq 1 .. MaxSize
ASSUME ModesAssumption ==
  \A m \in Modes : m \subseteq {"READ", "WRITE", "NONBLOCK"} /\ m \cap {"READ", "WRITE"} # {}
ASSUME DataAssumption ==
  MaxCount \in Nat /\ Data \subseteq Seq(Bytes) /\ \A s \in Data : Len(s) <= MaxCount

VARIABLES
  scull_p_buffer,       \* the size the next open uses
  sem,                  \* the holder of dev->sem
  alloc,                \* bytes behind dev->buffer; 0 when it is NULL
  buffersize, rp, wp,   \* as in struct scull_pipe, pointers as offsets
  mem,                  \* the allocated bytes
  flags,                \* flags[f]: f_mode and O_NONBLOCK; {} when closed
  nreaders, nwriters,
  inq, outq,            \* who waits on the two queues
  async,                \* the files on async_queue
  pc,                   \* where f's call stands
  count,                \* the length f's call asked for
  ubuf,                 \* f's user buffer
  want                  \* the event f's select waits for

dev   == <<alloc, buffersize, rp, wp, mem>>
users == <<flags, nreaders, nwriters>>
queues == <<inq, outq, async>>
call  == <<count, ubuf, want>>
vars  == <<scull_p_buffer, sem, dev, users, queues, pc, call>>

Offsets == 0 .. MaxSize - 1
Least(S) == CHOOSE m \in S : \A s \in S : m <= s
Goto(f, label) == pc' = [pc EXCEPT ![f] = label]
-----------------------------------------------------------------------------
Init ==
  /\ scull_p_buffer \in Sizes
  /\ sem = Free
  /\ alloc = 0 /\ buffersize = 0 /\ rp = 0 /\ wp = 0
  /\ mem = [o \in Offsets |-> Junk]
  /\ flags = [f \in Files |-> {}] /\ nreaders = 0 /\ nwriters = 0
  /\ inq = {} /\ outq = {} /\ async = {}
  /\ pc = [f \in Files |-> "idle"]
  /\ count = [f \in Files |-> 0]
  /\ ubuf = [f \in Files |-> <<>>]
  /\ want = [f \in Files |-> "none"]

(***************************************************************************)
(* The kernel's part: the semaphore, the wait queues and signals.          *)
(***************************************************************************)
Locked == [open |-> "open_cs", rel |-> "rel_cs", r_down |-> "r_loop",
           w_down |-> "w_loop", p_down |-> "p_cs"]

Down(f) ==
  /\ pc[f] \in DOMAIN Locked
  /\ sem = Free
  /\ sem' = f
  /\ Goto(f, Locked[pc[f]])
  /\ UNCHANGED <<scull_p_buffer, dev, users, queues, call>>

Up == sem' = Free

LeaveQueues(f) == inq' = inq \ {f} /\ outq' = outq \ {f} /\ UNCHANGED async

\* The call returns to user space.
Return(f) ==
  /\ Goto(f, "idle")
  /\ count' = [count EXCEPT ![f] = 0]
  /\ ubuf' = [ubuf EXCEPT ![f] = <<>>]
  /\ want' = [want EXCEPT ![f] = "none"]

\* A signal is pending where the code looks for one: -ERESTARTSYS.
Interrupted(f) ==
  /\ \/ pc[f] \in {"open", "r_down", "w_down"} /\ sem # Free
     \/ pc[f] = "r_test" /\ rp = wp
     \/ pc[f] \in {"w_test", "w_sleep", "p_sleep"}
  /\ Return(f)
  /\ LeaveQueues(f)
  /\ flags' = IF pc[f] = "open" THEN [flags EXCEPT ![f] = {}] ELSE flags
  /\ UNCHANGED <<scull_p_buffer, sem, dev, nreaders, nwriters>>
-----------------------------------------------------------------------------
(***************************************************************************)
(* The ring.                                                               *)
(***************************************************************************)
Empty == rp = wp

\* Mutant: the slot that tells full from empty is given away.
SpaceWithoutGap ==
  IF rp = wp THEN buffersize - 1 ELSE (rp + buffersize - wp) % buffersize

spacefree ==
  IF rp = wp THEN buffersize - 1
             ELSE ((rp + buffersize - wp) % buffersize) - 1

\* How many bytes are queued, also while a pointer stands at the end.
Wrapped(p) == IF p = buffersize THEN 0 ELSE p
Queued ==
  IF alloc = 0 THEN 0
  ELSE Wrapped(wp) - Wrapped(rp) + (IF Wrapped(wp) < Wrapped(rp) THEN buffersize ELSE 0)

\* Bytes beyond the allocation are not this driver's: reading them yields
\* Junk, writing them leaves the ring's memory as it was.
Fetch(n) ==
  [i \in 1 .. n |-> IF rp + i - 1 < alloc THEN mem[rp + i - 1] ELSE Junk]

Store(s) ==
  mem' = [o \in Offsets |->
            IF o < alloc /\ o \in wp .. (wp + Len(s) - 1) THEN s[o - wp + 1] ELSE mem[o]]

Readable(n) == Least({n, IF wp > rp THEN wp - rp ELSE buffersize - rp})

Writable(n) ==
  Least({n, spacefree, IF wp >= rp THEN buffersize - wp ELSE rp - wp - 1})
-----------------------------------------------------------------------------
(***************************************************************************)
(* open, release, fasync and the ioctl that sets the buffer size.          *)
(***************************************************************************)
IsOpen(f) == flags[f] # {} /\ pc[f] \notin {"open", "open_cs"}

Open(f) ==
  /\ pc[f] = "idle" /\ flags[f] = {}
  /\ \E m \in Modes : flags' = [flags EXCEPT ![f] = m]
  /\ Goto(f, "open")
  /\ UNCHANGED <<scull_p_buffer, sem, dev, nreaders, nwriters, queues, call>>

OpenFails(f) ==
  /\ pc[f] = "open_cs" /\ alloc = 0
  /\ flags' = [flags EXCEPT ![f] = {}]
  /\ Up /\ Goto(f, "idle")
  /\ UNCHANGED <<scull_p_buffer, dev, nreaders, nwriters, queues, call>>

OpenSucceeds(f) ==
  /\ pc[f] = "open_cs"
  /\ alloc' = IF alloc = 0 THEN scull_p_buffer ELSE alloc
  /\ buffersize' = scull_p_buffer
  /\ rp' = 0 /\ wp' = 0
  /\ nreaders' = nreaders + (IF "READ" \in flags[f] THEN 1 ELSE 0)
  /\ nwriters' = nwriters + (IF "WRITE" \in flags[f] THEN 1 ELSE 0)
  /\ Up /\ Goto(f, "idle")
  /\ UNCHANGED <<scull_p_buffer, mem, flags, queues, call>>

Release(f) ==
  /\ pc[f] = "idle" /\ IsOpen(f)
  /\ async' = async \ {f}
  /\ Goto(f, "rel")
  /\ UNCHANGED <<scull_p_buffer, sem, dev, users, inq, outq, call>>

\* Mutant: every close counts as a reader's.
ReleaseCountsReader(f) ==
  /\ pc[f] = "rel_cs"
  /\ nreaders' = nreaders - 1
  /\ flags' = [flags EXCEPT ![f] = {}]
  /\ Up /\ Goto(f, "idle")
  /\ UNCHANGED <<scull_p_buffer, dev, nwriters, queues, call>>

\* Mutant: the buffer goes with the last reader, whoever still writes.
ReleaseFreesEarly(f) ==
  /\ pc[f] = "rel_cs"
  /\ nreaders' = nreaders - (IF "READ" \in flags[f] THEN 1 ELSE 0)
  /\ nwriters' = nwriters - (IF "WRITE" \in flags[f] THEN 1 ELSE 0)
  /\ flags' = [flags EXCEPT ![f] = {}]
  /\ alloc' = IF nreaders' = 0 THEN 0 ELSE alloc
  /\ Up /\ Goto(f, "idle")
  /\ UNCHANGED <<scull_p_buffer, buffersize, rp, wp, mem, queues, call>>

ReleaseCounts(f) ==
  /\ pc[f] = "rel_cs"
  /\ nreaders' = nreaders - (IF "READ" \in flags[f] THEN 1 ELSE 0)
  /\ nwriters' = nwriters - (IF "WRITE" \in flags[f] THEN 1 ELSE 0)
  /\ flags' = [flags EXCEPT ![f] = {}]
  /\ LET last == nreaders' + nwriters' = 0
     IN  /\ alloc' = IF last THEN 0 ELSE alloc
         /\ mem' = IF last THEN [o \in Offsets |-> Junk] ELSE mem
  /\ Up /\ Goto(f, "idle")
  /\ UNCHANGED <<scull_p_buffer, buffersize, rp, wp, queues, call>>

Fasync(f) ==
  /\ f \in Notified
  /\ pc[f] = "idle" /\ IsOpen(f)
  /\ async' \in {async \cup {f}, async \ {f}}
  /\ UNCHANGED <<scull_p_buffer, sem, dev, users, inq, outq, pc, call>>

SetBufferSize ==
  /\ scull_p_buffer' \in Sizes
  /\ UNCHANGED <<sem, dev, users, queues, pc, call>>
-----------------------------------------------------------------------------
(***************************************************************************)
(* scull_p_read                                                            *)
(***************************************************************************)
Read(f) ==
  /\ pc[f] = "idle" /\ "READ" \in flags[f]
  /\ \E n \in 0 .. MaxCount : count' = [count EXCEPT ![f] = n]
  /\ Goto(f, "r_down")
  /\ UNCHANGED <<scull_p_buffer, sem, dev, users, queues, ubuf, want>>

ReadEmpty(f) ==
  /\ pc[f] = "r_loop" /\ Empty
  /\ Up
  /\ IF "NONBLOCK" \in flags[f]
       THEN Return(f)                                     \* -EAGAIN
       ELSE Goto(f, "r_wait") /\ UNCHANGED call
  /\ UNCHANGED <<scull_p_buffer, dev, users, queues>>

\* Mutant: join the queue and sleep on the strength of the test under the semaphore.
ReadWaitBlind(f) ==
  /\ pc[f] = "r_wait"
  /\ inq' = inq \cup {f} /\ Goto(f, "r_sleep")
  /\ UNCHANGED <<scull_p_buffer, sem, dev, users, outq, async, call>>

\* wait_event_interruptible(dev->inq, dev->rp != dev->wp): join the queue ...
ReadWait(f) ==
  /\ pc[f] = "r_wait"
  /\ IF Empty THEN inq' = inq \cup {f} /\ Goto(f, "r_test")
              ELSE inq' = inq \ {f} /\ Goto(f, "r_down")
  /\ UNCHANGED <<scull_p_buffer, sem, dev, users, outq, async, call>>

\* Mutant: go on to the bytes without the semaphore.
ReadTestUnlocked(f) ==
  /\ pc[f] = "r_test"
  /\ IF Empty THEN Goto(f, "r_sleep") /\ UNCHANGED inq
              ELSE inq' = inq \ {f} /\ Goto(f, "r_loop")
  /\ UNCHANGED <<scull_p_buffer, sem, dev, users, outq, async, call>>

\* ... test again, and only then sleep, until woken or signalled.
ReadTest(f) ==
  /\ pc[f] = "r_test"
  /\ IF Empty THEN Goto(f, "r_sleep") /\ UNCHANGED inq
              ELSE inq' = inq \ {f} /\ Goto(f, "r_down")
  /\ UNCHANGED <<scull_p_buffer, sem, dev, users, outq, async, call>>

ReadWoken(f) ==
  /\ pc[f] = "r_sleep" /\ f \notin inq
  /\ Goto(f, "r_wait")
  /\ UNCHANGED <<scull_p_buffer, sem, dev, users, queues, call>>

ReadSignalled(f) ==
  /\ pc[f] = "r_sleep"
  /\ Goto(f, "r_wait")
  /\ UNCHANGED <<scull_p_buffer, sem, dev, users, queues, call>>

ReadTake(f) ==
  /\ pc[f] = "r_loop" /\ ~Empty
  /\ LET n == Readable(count[f])
     IN  ubuf' = [ubuf EXCEPT ![f] = Fetch(n)] /\ rp' = rp + n
  /\ Goto(f, "r_adv")
  /\ UNCHANGED <<scull_p_buffer, sem, alloc, buffersize, wp, mem, users, queues, count, want>>

\* Mutant: the read pointer stays at the end.
ReadWrapNever(f) ==
  /\ pc[f] = "r_adv"
  /\ Up /\ Goto(f, "r_wake")
  /\ UNCHANGED <<scull_p_buffer, dev, users, queues, call>>

ReadWrap(f) ==
  /\ pc[f] = "r_adv"
  /\ rp' = IF rp = buffersize THEN 0 ELSE rp
  /\ Up /\ Goto(f, "r_wake")
  /\ UNCHANGED <<scull_p_buffer, alloc, buffersize, wp, mem, users, queues, call>>

\* Mutant: a read forgets the writers.
ReadWakesNobody(f) ==
  /\ pc[f] = "r_wake"
  /\ Return(f)
  /\ UNCHANGED <<scull_p_buffer, sem, dev, users, queues>>

ReadWake(f) ==
  /\ pc[f] = "r_wake"
  /\ outq' = {}
  /\ Return(f)
  /\ UNCHANGED <<scull_p_buffer, sem, dev, users, inq, async>>

\* Mutant: the read pointer moves before the copy is known to succeed.
ReadFaultsLosing(f) ==
  /\ pc[f] = "r_loop" /\ ~Empty /\ count[f] > 0
  /\ rp' = Wrapped(rp + Readable(count[f]))
  /\ Up /\ Return(f)
  /\ UNCHANGED <<scull_p_buffer, alloc, buffersize, wp, mem, users, queues>>

ReadFaults(f) ==
  /\ pc[f] = "r_loop" /\ ~Empty /\ count[f] > 0
  /\ Up /\ Return(f)                                      \* -EFAULT
  /\ UNCHANGED <<scull_p_buffer, dev, users, queues>>
-----------------------------------------------------------------------------
(***************************************************************************)
(* scull_p_write and scull_getwritespace                                   *)
(***************************************************************************)
Write(f) ==
  /\ pc[f] = "idle" /\ "WRITE" \in flags[f]
  /\ \E s \in Data : /\ ubuf' = [ubuf EXCEPT ![f] = s]
                     /\ count' = [count EXCEPT ![f] = Len(s)]
  /\ Goto(f, "w_down")
  /\ UNCHANGED <<scull_p_buffer, sem, dev, users, queues, want>>

WriteFull(f) ==
  /\ pc[f] = "w_loop" /\ spacefree = 0
  /\ Up
  /\ IF "NONBLOCK" \in flags[f]
       THEN Return(f)                                     \* -EAGAIN
       ELSE Goto(f, "w_wait") /\ UNCHANGED call
  /\ UNCHANGED <<scull_p_buffer, dev, users, queues>>

\* prepare_to_wait, before the space is tested again.
WriteWait(f) ==
  /\ pc[f] = "w_wait"
  /\ outq' = outq \cup {f}
  /\ Goto(f, "w_test")
  /\ UNCHANGED <<scull_p_buffer, sem, dev, users, inq, async, call>>

\* Mutant: sleep without testing again once on the queue.
WriteTestBlind(f) ==
  /\ pc[f] = "w_test"
  /\ Goto(f, "w_sleep")
  /\ UNCHANGED <<scull_p_buffer, sem, dev, users, queues, call>>

WriteTest(f) ==
  /\ pc[f] = "w_test"
  /\ IF spacefree = 0 THEN Goto(f, "w_sleep") /\ UNCHANGED outq
                      ELSE outq' = outq \ {f} /\ Goto(f, "w_down")
  /\ UNCHANGED <<scull_p_buffer, sem, dev, users, inq, async, call>>

WriteWoken(f) ==
  /\ pc[f] = "w_sleep" /\ f \notin outq
  /\ Goto(f, "w_down")
  /\ UNCHANGED <<scull_p_buffer, sem, dev, users, queues, call>>

WritePut(f) ==
  /\ pc[f] = "w_loop" /\ spacefree # 0
  /\ LET s == SubSeq(ubuf[f], 1, Writable(count[f]))
     IN  ubuf' = [ubuf EXCEPT ![f] = s] /\ Store(s) /\ wp' = wp + Len(s)
  /\ Goto(f, "w_adv")
  /\ UNCHANGED <<scull_p_buffer, sem, alloc, buffersize, rp, users, queues, count, want>>

WriteWrap(f) ==
  /\ pc[f] = "w_adv"
  /\ wp' = IF wp = buffersize THEN 0 ELSE wp
  /\ Up /\ Goto(f, "w_wake")
  /\ UNCHANGED <<scull_p_buffer, alloc, buffersize, rp, mem, users, queues, call>>

\* Mutant: a write forgets the readers.
WriteWakesNobody(f) ==
  /\ pc[f] = "w_wake"
  /\ Return(f)
  /\ UNCHANGED <<scull_p_buffer, sem, dev, users, queues>>

\* The SIGIO of kill_fasync is one of the signals Interrupted allows anywhere.
WriteWake(f) ==
  /\ pc[f] = "w_wake"
  /\ inq' = {}
  /\ Return(f)
  /\ UNCHANGED <<scull_p_buffer, sem, dev, users, outq, async>>

\* copy_from_user stored a part of the data, past wp, before it failed.
WriteFaults(f) ==
  /\ pc[f] = "w_loop" /\ spacefree # 0 /\ count[f] > 0
  /\ \E n \in 0 .. Writable(count[f]) - 1 : Store(SubSeq(ubuf[f], 1, n))
  /\ Up /\ Return(f)                                      \* -EFAULT
  /\ UNCHANGED <<scull_p_buffer, alloc, buffersize, rp, wp, users, queues>>
-----------------------------------------------------------------------------
(***************************************************************************)
(* scull_p_poll, called by a select that sleeps until its event is there.  *)
(***************************************************************************)
Poll(f) ==
  /\ pc[f] = "idle" /\ IsOpen(f)
  /\ \E e \in {"in", "out"} : want' = [want EXCEPT ![f] = e]
  /\ Goto(f, "p_down")
  /\ UNCHANGED <<scull_p_buffer, sem, dev, users, queues, count, ubuf>>

PollMask == (IF Empty THEN {} ELSE {"in"}) \cup (IF spacefree = 0 THEN {} ELSE {"out"})

PollTest(f) ==
  /\ pc[f] = "p_cs"
  /\ Up
  /\ IF want[f] \in PollMask
       THEN Return(f) /\ LeaveQueues(f)
       ELSE /\ Goto(f, "p_sleep")
            /\ inq' = inq \cup {f} /\ outq' = outq \cup {f}
            /\ UNCHANGED <<async, call>>
  /\ UNCHANGED <<scull_p_buffer, dev, users>>

PollWoken(f) ==
  /\ pc[f] = "p_sleep" /\ (f \notin inq \/ f \notin outq)
  /\ Goto(f, "p_down")
  /\ UNCHANGED <<scull_p_buffer, sem, dev, users, queues, call>>
-----------------------------------------------------------------------------
\* What the kernel, not the user, makes happen.
Step(f) ==
  \/ OpenFails(f) \/ OpenSucceeds(f) \/ ReleaseCounts(f)
  \/ ReadEmpty(f) \/ ReadWait(f) \/ ReadTest(f) \/ ReadWoken(f)
  \/ ReadTake(f) \/ ReadWrap(f) \/ ReadWake(f)
  \/ WriteFull(f) \/ WriteWait(f) \/ WriteTest(f) \/ WriteWoken(f)
  \/ WritePut(f) \/ WriteWrap(f) \/ WriteWake(f)
  \/ PollTest(f) \/ PollWoken(f)

UserCall(f) == Open(f) \/ Release(f) \/ Fasync(f) \/ Read(f) \/ Write(f) \/ Poll(f)

Fault(f) == ReadFaults(f) \/ WriteFaults(f) \/ Interrupted(f) \/ ReadSignalled(f)

Next ==
  \/ SetBufferSize
  \/ \E f \in Files : Down(f) \/ Step(f) \/ UserCall(f) \/ Fault(f)

Spec == Init /\ [][Next]_vars

(***************************************************************************)
(* The usage a FIFO needs: the files that share the pipe open it while no  *)
(* bytes are queued, since an open empties it (pipe.c:80), and the size    *)
(* changes only while nobody has it open, since an open does not           *)
(* reallocate (pipe.c:70-78).                                              *)
(***************************************************************************)
QuietNext ==
  \/ alloc = 0 /\ SetBufferSize
  \/ \E f \in Files :
       \/ (pc[f] = "open" => Queued = 0) /\ Down(f)
       \/ Step(f) \/ UserCall(f) \/ Fault(f)

\* The kernel runs every process that can run, and a process waiting for the
\* semaphore gets it if it is free again and again: its waiters are queued.
Fairness ==
  \A f \in Files : WF_vars(Step(f)) /\ SF_vars(pc[f] # "open" /\ Down(f))

QuietSpec == Init /\ [][QuietNext]_vars /\ Fairness
-----------------------------------------------------------------------------
(***************************************************************************)
(* What must hold.                                                         *)
(***************************************************************************)
Critical == {"open_cs", "rel_cs", "r_loop", "r_adv", "w_loop", "w_adv", "p_cs"}
Labels == {"idle", "open", "rel", "r_down", "r_wait", "r_test", "r_sleep", "r_wake",
           "w_down", "w_wait", "w_test", "w_sleep", "w_wake", "p_down", "p_sleep"} \cup Critical

\* Every variable has its type.
TypeOK ==
  /\ scull_p_buffer \in Sizes
  /\ sem \in Files \cup {Free}
  /\ alloc \in Sizes \cup {0} /\ buffersize \in Sizes \cup {0}
  /\ rp \in Nat /\ wp \in Nat
  /\ mem \in [Offsets -> Bytes \cup {Junk}]
  /\ flags \in [Files -> SUBSET {"READ", "WRITE", "NONBLOCK"}]
  /\ nreaders \in Nat /\ nwriters \in Nat
  /\ inq \subseteq Files /\ outq \subseteq Files /\ async \subseteq Files
  /\ pc \in [Files -> Labels]
  /\ count \in [Files -> 0 .. MaxCount]
  /\ ubuf \in [Files -> Seq(Bytes \cup {Junk})]
  /\ want \in [Files -> {"in", "out", "none"}]

\* The semaphore (pipe.c:40) excludes: exactly its holder is in a critical
\* section, so a read or write that slept took it again before going on.
SemExcludes == \A f \in Files : sem = f <=> pc[f] \in Critical

\* The ring wraps (pipe.c:137-148, 181-186, 202-215): a pointer stands at end only
\* between its advance and its wrap, never past it, and a write never makes a
\* full ring look empty.
RingWraps ==
  alloc > 0 =>
    /\ rp <= buffersize /\ wp <= buffersize
    /\ rp = buffersize => \E f \in Files : pc[f] = "r_adv"
    /\ wp = buffersize => \E f \in Files : pc[f] = "w_adv"
    /\ \A f \in Files : pc[f] = "w_adv" /\ ubuf[f] # <<>> => Queued > 0

\* And so the pointers stay in the memory allocated, on one condition: no open has
\* set a size beyond the allocation it found (pipe.c:70-79 moves end, and
\* allocates only when there is no buffer).
RingBounds ==
  RingWraps /\ (alloc > 0 /\ buffersize <= alloc => rp <= alloc /\ wp <= alloc)

\* The same without the condition: rp and wp, "where to read, where to write", lie
\* between buffer and end, "begin of buf, end of buf" (pipe.c:36-38).  It holds
\* while the size changes only with the pipe closed, and fails otherwise.
PointersInBuffer == alloc > 0 => rp <= alloc /\ wp <= alloc

\* The counts (pipe.c:83-86, 101-108) are those of the files open for reading
\* and for writing, and there is a buffer exactly while some file is open.
OpenFor(mode) == {f \in Files : IsOpen(f) /\ mode \in flags[f]}
OpenCounts ==
  /\ nreaders = Cardinality(OpenFor("READ"))
  /\ nwriters = Cardinality(OpenFor("WRITE"))
  /\ alloc > 0 <=> \E f \in Files : IsOpen(f)

\* No reader or select sleeps on inq while bytes are queued, unless the writer
\* that queued them has yet to wake it (pipe.c:131, 219, 239).
SleepsFor(f, label, event) == pc[f] = label \/ (pc[f] = "p_sleep" /\ want[f] = event)
ReadersWoken ==
  (Queued > 0 /\ \E f \in inq : SleepsFor(f, "r_sleep", "in"))
    => \E g \in Files : pc[g] \in {"w_adv", "w_wake"}

\* The same for a writer asleep on outq while there is space (pipe.c:157).
WritersWoken ==
  (alloc > 0 /\ Queued < buffersize - 1 /\ \E f \in outq : SleepsFor(f, "w_sleep", "out"))
    => \E g \in Files : pc[g] \in {"r_adv", "r_wake"}

\* A call that asks for bytes and is not refused moves at least one: neither
\* the wrap nor the slot left free makes min() come out 0 (pipe.c:138-141, 203-207).
CallsMoveBytes ==
  \A f \in Files : pc[f] \in {"r_adv", "r_wake", "w_adv", "w_wake"} /\ count[f] > 0
                   => ubuf[f] # <<>>

\* What a call carries from one of its steps to the next.
Offering(f) == pc[f] \in {"w_down", "w_loop", "w_wait", "w_test", "w_sleep"}
ShapeOf(f) ==
  /\ flags[f] = {} \/ flags[f] \cap {"READ", "WRITE"} # {}
  /\ pc[f] # "idle" => flags[f] # {}
  /\ Offering(f) => count[f] = Len(ubuf[f])
CallShape ==
  /\ alloc > 0 => buffersize > 0
  /\ \A f \in Files : ShapeOf(f)

\* The inductive invariant: each part needs others, so they stand together.
IInv ==
  /\ TypeOK /\ SemExcludes /\ CallShape /\ OpenCounts
  /\ RingWraps /\ CallsMoveBytes /\ ReadersWoken

\* A read that waits returns, or finds the pipe empty again: a wake-up may be
\* beaten to the bytes by another reader, but is never lost.  The same for a
\* write and a full pipe.
Reading(f) == pc[f] \in {"r_down", "r_loop", "r_wait", "r_test", "r_sleep", "r_adv", "r_wake"}
Writing(f) == pc[f] \in {"w_down", "w_loop", "w_wait", "w_test", "w_sleep", "w_adv", "w_wake"}
ReadsReturn == \A f \in Files : Reading(f) ~> (~Reading(f) \/ Queued = 0)
WritesReturn == \A f \in Files : Writing(f) ~> (~Writing(f) \/ Queued >= buffersize - 1)
-----------------------------------------------------------------------------
(***************************************************************************)
(* The pipe implements ByteFifo.                                           *)
(***************************************************************************)
Slot(i) ==
  LET o == Wrapped(rp) + i - 1 IN IF o < buffersize THEN o ELSE o - buffersize
Contents == [i \in 1 .. Queued |-> mem[Slot(i)]]

Fifo == INSTANCE ByteFifo WITH
  Capacity <- MaxSize - 1,
  users <- {f \in Files : IsOpen(f)},
  q <- Contents,
  tosend <- [f \in Files |->
    IF Offering(f) THEN ubuf[f] ELSE <<>>],
  taken <- [f \in Files |-> IF pc[f] \in {"r_adv", "r_wake"} THEN ubuf[f] ELSE <<>>]

\* Under the usage of QuietSpec no byte is lost, repeated, reordered or invented
\* between write (pipe.c:188-226) and read (pipe.c:118-155), wraps included.
IsFifo == Fifo!Spec
=============================================================================

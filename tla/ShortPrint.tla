----------------------------- MODULE ShortPrint -----------------------------
(***************************************************************************)
(* shortprint: writers fill a ring, a work item prints it byte by byte,    *)
(* the printer's interrupt queues the work again and a timer stands in for *)
(* an interrupt that was lost.                                             *)
(*                                                                         *)
(* What runs under shortp_out_lock is one step.  On a multiprocessor the   *)
(* timeout runs beside the rest: its unlocked test of output_active is a   *)
(* step of its own.  Bytes are numbered in the order they are accepted.    *)
(***************************************************************************)
EXTENDS TimeRing, FiniteSets, FiniteSetsExt

CONSTANTS
  Writers,   \* processes that write
  M,         \* bytes of the output page
  Lengths,   \* lengths of a write
  MaxBytes   \* bound: bytes accepted while loaded

VARIABLES
  phase,     \* "unloaded", "live", and the steps of cleanup: "noirq", "flush"
  open,      \* writers with the device open
  out, out_head, out_tail,
  accepted, printed,  \* ghosts: bytes put into the ring and taken out
  sem,       \* who holds shortp_out_sem
  wpc, space, left,   \* of each writer: its step, the space it saw, its bytes
  outq, emptyq,       \* the two wait queues
  active,    \* shortp_output_active
  timer,     \* shortp_timer is pending
  timeout,   \* the timeout has found the output active
  work, wk,  \* shortp_work is queued; where it is
  ready      \* the printer is

output  == <<out, out_head, out_tail, accepted, printed>>
writers == <<open, sem, wpc, space, left, outq, emptyq>>
control == <<active, timer, timeout, work, wk, ready>>
vars    == <<ringvars, readers, phase, output, writers, control>>

Nobody == "nobody"
Stamp  == 1   \* what a record tells is not followed

OutputInit ==
  /\ out = [i \in 0..(M - 1) |-> 0] /\ out_head = 0 /\ out_tail = 0
  /\ accepted = 0 /\ printed = 0
  /\ active = FALSE /\ timer = FALSE /\ timeout = FALSE
  /\ work = FALSE /\ wk = "idle" /\ ready = TRUE

WritersInit ==
  /\ open = {} /\ sem = Nobody
  /\ wpc = [w \in Writers |-> "idle"]
  /\ space = [w \in Writers |-> 0] /\ left = [w \in Writers |-> 0]
  /\ outq = {} /\ emptyq = {}

Init == phase = "unloaded" /\ OutputInit /\ WritersInit /\ RingInit

Step(w, next) == wpc' = [wpc EXCEPT ![w] = next]

-----------------------------------------------------------------------------
(* The output ring                                                         *)

\* Mutant: no slot is kept free.
out_space_all ==
  IF out_head >= out_tail THEN M - out_head ELSE out_tail - out_head

(* Contiguous space; one slot stays free, so that full is not empty.       *)
shortp_out_space ==
  IF out_head >= out_tail
  THEN M - out_head - (IF out_tail = 0 THEN 1 ELSE 0)
  ELSE out_tail - out_head - 1

shortp_incr_out_bp(bp, incr) == (bp + incr) % M

\* Mutant: the wake-up is left for an empty ring.
WakeWritersEmpty(head1, tail1) == outq' = IF head1 = tail1 THEN {} ELSE outq

(* Writers are woken when more than half of the page is free.              *)
WakeWriters(head1, tail1) ==
  outq' = IF (M + tail1 - head1) % M > M \div 2 THEN {} ELSE outq

-----------------------------------------------------------------------------
(* shortp_write, with the semaphore held throughout                        *)

WriteDown(w) ==
  /\ phase = "live" /\ w \in open /\ wpc[w] = "idle" /\ sem = Nobody
  /\ sem' = w
  /\ \E n \in Lengths : accepted + n <= MaxBytes /\ left' = [left EXCEPT ![w] = n]
  /\ Step(w, "space")
  /\ UNCHANGED <<ringvars, readers, phase, output, open, space, outq, emptyq, control>>

(* The test before the wait, and the one of wait_event on the queue.       *)
WriteSpace(w) ==
  /\ wpc[w] \in {"space", "retest"}
  /\ space' = [space EXCEPT ![w] = shortp_out_space]
  /\ IF shortp_out_space > 0
     THEN Step(w, "copy") /\ outq' = outq \ {w}
     ELSE /\ Step(w, IF wpc[w] = "space" THEN "prepare" ELSE "asleep")
          /\ UNCHANGED outq
  /\ UNCHANGED <<ringvars, readers, phase, output, open, sem, left, emptyq, control>>

WritePrepare(w) ==
  /\ wpc[w] = "prepare" \/ (wpc[w] = "asleep" /\ w \notin outq)
  /\ outq' = outq \cup {w}
  /\ Step(w, "retest")
  /\ UNCHANGED <<ringvars, readers, phase, output, open, sem, space, left, emptyq, control>>

Up(w) == sem' = Nobody /\ Step(w, "idle") /\ left' = [left EXCEPT ![w] = 0]

WriteSignal(w) ==
  /\ wpc[w] = "asleep"
  /\ outq' = outq \ {w}
  /\ Up(w)
  /\ UNCHANGED <<ringvars, readers, phase, output, open, space, emptyq, control>>

(* The bytes go into the ring; a copy that faults ends the call.           *)
WriteCopy(w) ==
  /\ wpc[w] = "copy"
  /\ \/ Up(w) /\ UNCHANGED output
     \/ LET n == Min({space[w], left[w]})
        IN /\ out' = [i \in 0..(M - 1) |->
                        IF i \in out_head..(out_head + n - 1)
                        THEN accepted + 1 + i - out_head ELSE out[i]]
           /\ out_head' = shortp_incr_out_bp(out_head, n)
           /\ accepted' = accepted + n
           /\ left' = [left EXCEPT ![w] = @ - n]
           /\ Step(w, "start")
           /\ UNCHANGED <<out_tail, printed, sem>>
  /\ space' = [space EXCEPT ![w] = 0]
  /\ UNCHANGED <<ringvars, readers, phase, open, outq, emptyq, control>>

(* shortp_start_output, when no output is active.                          *)
WriteStart(w) ==
  /\ wpc[w] = "start"
  /\ IF active
     THEN UNCHANGED control
     ELSE /\ active' = TRUE /\ timer' = TRUE /\ work' = TRUE
          /\ UNCHANGED <<timeout, wk, ready>>
  /\ IF left[w] = 0 THEN Up(w) ELSE Step(w, "space") /\ UNCHANGED <<sem, left>>
  /\ UNCHANGED <<ringvars, readers, phase, output, open, space, outq, emptyq>>

shortp_write(w) ==
  \/ WriteDown(w) \/ WriteSpace(w) \/ WritePrepare(w)
  \/ WriteSignal(w) \/ WriteCopy(w) \/ WriteStart(w)

-----------------------------------------------------------------------------
(* shortp_open and shortp_release                                          *)

shortp_open(w) ==
  /\ phase = "live" /\ w \notin open
  /\ open' = open \cup {w}
  /\ UNCHANGED <<ringvars, readers, phase, output, sem, wpc, space, left, outq, emptyq, control>>

(* The last close waits until the output is no longer active; a signal     *)
(* ends the wait.                                                          *)
ReleaseTest(w) ==
  /\ \/ wpc[w] = "idle" /\ w \in open
     \/ wpc[w] \in {"drain_retest", "drain_signal"}
  /\ IF ~active \/ wpc[w] = "drain_signal"
     THEN /\ open' = open \ {w} /\ Step(w, "idle")
          /\ emptyq' = emptyq \ {w}
     ELSE /\ Step(w, IF wpc[w] = "idle" THEN "drain" ELSE "drain_asleep")
          /\ UNCHANGED <<open, emptyq>>
  /\ UNCHANGED <<ringvars, readers, phase, output, sem, space, left, outq, control>>

ReleasePrepare(w) ==
  /\ wpc[w] = "drain" \/ (wpc[w] = "drain_asleep" /\ w \notin emptyq)
  /\ emptyq' = emptyq \cup {w}
  /\ Step(w, "drain_retest")
  /\ UNCHANGED <<ringvars, readers, phase, output, open, sem, space, left, outq, control>>

ReleaseSignal(w) ==
  /\ wpc[w] = "drain_asleep"
  /\ Step(w, "drain_signal")
  /\ UNCHANGED <<ringvars, readers, phase, output, open, sem, space, left, outq, emptyq, control>>

shortp_release(w) == ReleaseTest(w) \/ ReleasePrepare(w) \/ ReleaseSignal(w)

-----------------------------------------------------------------------------
(* shortp_do_work                                                          *)

(* The work item leaves the queue and waits for the printer.               *)
shortp_wait ==
  /\ work /\ wk = "idle" /\ phase \in {"live", "noirq", "flush"}
  /\ work' = FALSE /\ wk' = "wait"
  /\ UNCHANGED <<ringvars, readers, phase, output, writers, active, timer, timeout, ready>>

(* A byte is strobed and the timer set anew; the printer turns to it.      *)
shortp_do_write ==
  /\ timer' = TRUE
  /\ out_tail' = shortp_incr_out_bp(out_tail, 1)
  /\ printed' = printed + 1
  /\ ready' = FALSE
  /\ UNCHANGED <<out, out_head, accepted, active>>

(* Under the lock: the end of the output, or its next byte.                *)
WorkLocked ==
  /\ wk = "wait" /\ ready /\ wk' = "stamp"
  /\ IF out_head = out_tail
     THEN /\ active' = FALSE /\ timer' = FALSE /\ emptyq' = {}
          /\ UNCHANGED <<output, ready>>
     ELSE shortp_do_write /\ UNCHANGED emptyq
  /\ WakeWriters(out_head, out_tail')
  /\ UNCHANGED <<ringvars, readers, phase, open, sem, wpc, space, left, timeout, work>>

(* The read side.                                                          *)
WorkStamp ==
  /\ wk = "stamp" /\ wk' = "idle"
  /\ Put(Stamp) /\ Wake
  /\ UNCHANGED <<phase, output, writers, active, timer, timeout, work, ready>>

shortp_do_work == shortp_wait \/ WorkLocked \/ WorkStamp

-----------------------------------------------------------------------------
(* The interrupt and the timeout                                           *)

(* A stamp is taken and the work item queued, while the output is active.  *)
shortp_interrupt == work' = (work \/ active)

(* The printer has done its byte; its interrupt may be lost, and is once   *)
(* cleanup has freed the line.                                             *)
PrinterDone ==
  /\ ~ready /\ ready' = TRUE
  /\ \/ phase = "live" /\ shortp_interrupt
     \/ UNCHANGED work
  /\ UNCHANGED <<ringvars, readers, phase, output, writers, active, timer, timeout, wk>>

(* The timer fires; the test of output_active is outside the lock.         *)
TimeoutTest ==
  /\ timer /\ phase # "unloaded"
  /\ timer' = FALSE /\ timeout' = active
  /\ ~timeout
  /\ UNCHANGED <<ringvars, readers, phase, output, writers, active, work, wk, ready>>

\* Mutant: a printer that is still busy ends the watch.
TimeoutLockedOnce ==
  /\ timeout /\ timeout' = FALSE
  /\ \/ UNCHANGED work
     \/ ready /\ shortp_interrupt
  /\ UNCHANGED <<ringvars, readers, phase, output, writers, active, timer, wk, ready>>

(* A busy printer has its timer set again, also where the output ended or  *)
(* was started since the test; else the interrupt was lost.                *)
TimeoutLocked ==
  /\ timeout /\ timeout' = FALSE
  /\ \/ timer' = TRUE /\ UNCHANGED work
     \/ ready /\ shortp_interrupt /\ UNCHANGED timer
  /\ UNCHANGED <<ringvars, readers, phase, output, writers, active, wk, ready>>

shortp_timeout == TimeoutTest \/ TimeoutLocked

-----------------------------------------------------------------------------
(* Loading and unloading                                                   *)

(* A major or an interrupt line that cannot be had undoes the load.        *)
shortp_init ==
  /\ phase = "unloaded" /\ ~timer
  /\ phase' = "live"
  /\ UNCHANGED <<ringvars, readers, output, writers, control>>

(* The line is freed first, with no file open and nobody reading.          *)
CleanupIrq ==
  /\ phase = "live" /\ open = {} /\ \A r \in Readers : pc[r] = "idle"
  /\ phase' = "noirq"
  /\ UNCHANGED <<ringvars, readers, output, writers, control>>

(* del_timer_sync, only if the output is active.                           *)
CleanupTimer ==
  /\ phase = "noirq" /\ (active => ~timeout)
  /\ phase' = "flush"
  /\ timer' = (timer /\ ~active)
  /\ UNCHANGED <<ringvars, readers, output, writers, active, timeout, work, wk, ready>>

(* The queue is flushed; what is left of the output goes with the pages.   *)
CleanupFlush ==
  /\ phase = "flush" /\ ~work /\ wk = "idle"
  /\ phase' = "unloaded"
  /\ out' = [i \in 0..(M - 1) |-> 0] /\ out_head' = 0 /\ out_tail' = 0
  /\ accepted' = 0 /\ printed' = 0
  /\ active' = FALSE /\ ready' = TRUE
  /\ head' = 0 /\ tail' = 0 /\ want' = <<>> /\ torn' = FALSE
  /\ ring' = [i \in 0..(PageSize - 1) |-> Junk]
  /\ UNCHANGED <<readers, writers, timer, timeout, work, wk>>

shortp_cleanup == CleanupIrq \/ CleanupTimer \/ CleanupFlush

Read(r) ==
  /\ phase = "live"
  /\ short_i_read(r)
  /\ UNCHANGED <<phase, output, writers, control>>

Next ==
  \/ shortp_init \/ shortp_cleanup
  \/ \E w \in Writers : shortp_open(w) \/ shortp_write(w) \/ shortp_release(w)
  \/ shortp_do_work \/ shortp_timeout \/ PrinterDone
  \/ \E r \in Readers : Read(r)

-----------------------------------------------------------------------------
(* The ring holds the bytes that were accepted and not printed, in order,  *)
(* whatever the two ends do between the reading of a pointer and its use.  *)
BytesInOrder ==
  /\ (out_head - out_tail) % M = accepted - printed
  /\ \A i \in 1..(accepted - printed) : out[(out_tail + i - 1) % M] = printed + i

(* Bytes wait only under an active output, and an active output has a      *)
(* timer, a timeout or a work item to go on with.                          *)
OutputGoing ==
  phase = "live" =>
    /\ out_head # out_tail => active \/ \E w \in Writers : wpc[w] = "start"
    /\ active => timer \/ timeout \/ work \/ wk = "wait"

(* "If somebody's waiting, maybe wake them up": a writer that sleeps has   *)
(* half a page before it that is yet to be printed, and one that closes    *)
(* sleeps only beside active output.                                       *)
WritersWoken ==
  \A w \in Writers :
    /\ wpc[w] = "asleep" /\ w \in outq => accepted - printed >= M \div 2
    /\ wpc[w] = "drain_asleep" /\ w \in emptyq => active

SleepersWoken == ReadersWoken(FALSE) /\ WritersWoken
=============================================================================

------------------------------ MODULE MCPorts ------------------------------
(***************************************************************************)
(* The two drivers of the parallel port, and the three modules that show   *)
(* how to wait and to defer work, one of them in each behaviour.  The      *)
(* readers of shortprint are those of short: they are left to the          *)
(* behaviours of short.  All share the names phase, pc and queued.         *)
(***************************************************************************)
EXTENDS Integers, Sequences, FiniteSets, TLC

CONSTANTS Readers, N, U, T, MaxIrq, Writers, M, Lengths, MaxBytes,
          Loops, MaxData, Limit

ASSUME SizesAssumption ==
  /\ N \in Nat \ {0} /\ U \in Nat \ {0} /\ T \in Nat \ {0}
  /\ M \in Nat /\ M > 2 /\ Lengths \subseteq Nat \ {0}
  /\ Loops \in Nat \ {0}
ASSUME NamesAssumption == "nobody" \notin Writers

VARIABLES driver, phase,
  head, tail, ring, want, torn, pc, count, got, queued,
  opt, held, irq, handler, irqs, tv, tv_head, tv_tail, short_wq_count,
  pending, bh, stamped, over,
  open, out, out_head, out_tail, accepted, printed, sem, wpc, space, left,
  outq, emptyq, active, timer, timeout, work, wk, ready,
  jits, mine, timers, tasklets, signalled,
  file, jiq_data, jiq_work, running, jiq_tasklet, jiq_timer, shared, stray, broken,
  flag, waking

(* Each handler and each way to find the line is in one of the loads.      *)
Load(mem, probe, share, half) ==
  [mem |-> mem, probe |-> probe, share |-> share, bh |-> half]
Options == {Load(FALSE, 1, FALSE, "none"), Load(TRUE, 2, TRUE, "wq"),
            Load(FALSE, 0, FALSE, "wq"), Load(FALSE, 2, FALSE, "tasklet")}

S == INSTANCE Short
P == INSTANCE ShortPrint WITH Readers <- {}, N <- 1, U <- 1
J == INSTANCE Jit WITH Readers <- Writers
Q == INSTANCE Jiq WITH Readers <- Writers
F == INSTANCE Sleepy WITH Readers <- Writers

rings  == <<head, tail, ring, want, torn, pc, count, got, queued>>
shorts == <<opt, held, irq, handler, irqs, tv, tv_head, tv_tail,
            short_wq_count, pending, bh, stamped, over>>
prints == <<open, out, out_head, out_tail, accepted, printed, sem, wpc, space,
            left, outq, emptyq, active, timer, timeout, work, wk, ready>>
ring0  == <<head, tail, ring, want, torn, count, got>>
jit    == <<jits, mine, timers, tasklets>>
jiq    == <<file, jiq_data, jiq_work, running, jiq_tasklet, jiq_timer, shared,
            stray, broken>>
sleepy == <<flag, waking>>
misc   == <<jit, signalled, jiq, sleepy>>
vars   == <<driver, phase, rings, shorts, prints, misc>>

(* pc and queued are those of whose driver it is.                          *)
Init ==
  /\ driver \in {"short", "shortprint", "jit", "jiq", "sleepy"}
  /\ S!LinesInit /\ S!HalvesInit /\ P!OutputInit /\ P!WritersInit
  /\ J!JitInit /\ Q!PrintInit /\ F!FlagInit
  /\ phase = "unloaded"
  /\ CASE driver = "short" -> S!RingInit
       [] driver = "shortprint" -> P!RingInit
       [] OTHER -> P!RingsInit /\ J!WaitInit

StepShort ==
  /\ driver = "short" /\ S!Next
  /\ UNCHANGED <<driver, prints, misc>>

StepShortPrint ==
  /\ driver = "shortprint" /\ P!Next
  /\ UNCHANGED <<driver, shorts, misc>>

StepJit ==
  /\ driver = "jit" /\ J!Next
  /\ UNCHANGED <<driver, ring0, shorts, prints, jiq, sleepy>>

StepJiq ==
  /\ driver = "jiq" /\ Q!Next
  /\ UNCHANGED <<driver, ring0, shorts, prints, jit, sleepy>>

StepSleepy ==
  /\ driver = "sleepy" /\ F!Next
  /\ UNCHANGED <<driver, ring0, shorts, prints, jit, signalled, jiq>>

Next == StepShort \/ StepShortPrint \/ StepJit \/ StepJiq \/ StepSleepy

Spec == Init /\ [][Next]_vars

(* Bounds: once a copy was torn nothing more is said of the page of stamps;*)
(* and only one reader is in a call after the fourth interrupt.            *)
UntilTorn == ~torn
OneLateReader ==
  irqs > 3 => Cardinality({r \in Readers : pc[r] # "idle"}) <= 1

Symmetry == Permutations(Writers) \cup Permutations(Readers)

(* No reader, writer or closer of the port's drivers or sleepy sleeps on   *)
(* while what it waits for is there, and no reader of jit or of jiqwq once *)
(* nothing is left to wake it.  Nothing is said of the readers of          *)
(* jiqtasklet and jitimer, which start what wakes them before they are on  *)
(* the queue: they can sleep on, see TaskletsComplete.                     *)
SleepersWoken ==
  CASE driver = "short" -> S!SleepersWoken
    [] driver = "shortprint" -> P!SleepersWoken
    [] driver = "jit" -> J!SleepersWoken
    [] driver = "jiq" -> Q!SleepersWoken
    [] driver = "sleepy" -> F!SleepersWoken

(* What leaves a ring is what entered it, once and in order, though head   *)
(* and tail move without a lock.  A read of short that stops anywhere      *)
(* returns the oldest bytes of the page of stamps, unless two reads copied *)
(* at once or an overrun came during a copy: see StampsReadable; an overrun*)
(* of a half-read record joins its half to the new one.  The printer of    *)
(* shortprint gets the bytes that writes accepted.  The lines of jiq go to *)
(* the page of a read that is in its call, unless reads overlap or a signal*)
(* ended one.                                                              *)
DataInOrder ==
  CASE driver = "short" -> S!ReadsInOrder
    [] driver = "shortprint" -> P!BytesInOrder
    [] driver = "jiq" -> Q!LinesHome
    [] OTHER -> TRUE

(* What was taken in goes on to its end: a stamp has a bottom half to come,*)
(* a byte an active output, an active output a timer or a work item, and a *)
(* jit_data its timer or tasklet exactly as long as loops are left.        *)
WorkGoesOn ==
  CASE driver = "short" -> S!StampsServed
    [] driver = "shortprint" -> P!OutputGoing
    [] driver = "jit" -> J!LinesGoOn
    [] OTHER -> TRUE

(* A module that is not loaded has left nothing on an interrupt line, and  *)
(* jit and jiq no timer, tasklet or work: unless a signal ended a read of  *)
(* theirs or, for jiq, two reads overlapped.                               *)
NothingInstalled ==
  CASE driver = "short" -> S!NothingInstalled
    [] driver = "jit" -> J!NothingLeft
    [] driver = "jiq" -> Q!NothingLeft
    [] OTHER -> TRUE

(* "count0 is the number of readable data bytes" (short.c:294): a read of  *)
(* short copies no more than the page of stamps holds.  It is false of the *)
(* code: two reads can copy at once.                                       *)
StampsReadable == driver = "short" => S!CopiesReadable

(* "sleep till completion" (jiq.c:190): a reader of jiqtasklet does not    *)
(* sleep on once nothing is left to wake it.  It is false of the code: the *)
(* tasklet may be done before its reader is on the queue.                  *)
TaskletsComplete == driver = "jiq" => Q!SleepsTillCompletion
=============================================================================

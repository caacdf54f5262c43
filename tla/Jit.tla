-------------------------------- MODULE Jit --------------------------------
(***************************************************************************)
(* jit, its files jitimer, jitasklet and jitasklethi: a read allocates a   *)
(* jit_data, whose timer or tasklet prints a line, comes back for some     *)
(* loops and then wakes the reader, who frees it.  The files that only     *)
(* delay keep nothing.                                                     *)
(*                                                                         *)
(* One processor: a handler is one step, between any two of the readers.   *)
(***************************************************************************)
EXTENDS WaitEvent, FiniteSets

CONSTANTS
  Loops,    \* JIT_ASYNC_LOOPS
  MaxData   \* bound: jit_data that exist at once

VARIABLES
  jits,     \* the jit_data: its reader and the loops left, where allocated
  mine,     \* the jit_data of each reader's call
  timers,   \* jit_data with a pending timer
  tasklets, \* jit_data with a scheduled tasklet
  signalled      \* ghost: a signal ended a read

jitdata == <<jits, mine, timers, tasklets, signalled>>

Ids == 1..MaxData

JitInit ==
  /\ jits = [d \in {} |-> 0] /\ mine = [r \in Readers |-> 0]
  /\ timers = {} /\ tasklets = {} /\ signalled = FALSE

(* The head of jit_timer and of jit_tasklet.                               *)
Allocate(r, d) ==
  /\ phase = "live" /\ pc[r] = "idle" /\ d \notin DOMAIN jits
  /\ \A e \in Ids : e < d => e \in DOMAIN jits
  /\ jits' = [e \in DOMAIN jits \cup {d} |->
                IF e = d THEN [reader |-> r, loops |-> Loops] ELSE jits[e]]
  /\ mine' = [mine EXCEPT ![r] = d]
  /\ Goto(r, "test")
  /\ UNCHANGED <<phase, queued, signalled>>

jit_timer(r) ==
  \E d \in Ids : Allocate(r, d) /\ timers' = timers \cup {d} /\ UNCHANGED tasklets

jit_tasklet(r) ==
  \E d \in Ids : Allocate(r, d) /\ tasklets' = tasklets \cup {d} /\ UNCHANGED timers

(* wait_event_interruptible(data->wait, !data->loops)                      *)
Wait(r) ==
  /\ wait_event_interruptible(r, jits[mine[r]].loops = 0)
  /\ UNCHANGED <<phase, jitdata>>

(* The end of both: with a signal pending, also one that came too late to  *)
(* end the wait, the data is not freed and whatever is pending goes on.    *)
Finish(r) ==
  /\ pc[r] \in {"go", "signalled"}
  /\ \/ /\ signalled' = TRUE /\ UNCHANGED jits
     \/ /\ pc[r] = "go"
        /\ jits' = [e \in DOMAIN jits \ {mine[r]} |-> jits[e]]
        /\ UNCHANGED signalled
  /\ mine' = [mine EXCEPT ![r] = 0]
  /\ Goto(r, "idle")
  /\ UNCHANGED <<phase, queued, timers, tasklets>>

(* A line is printed; the last one wakes the reader on data->wait.         *)
Line(d) ==
  /\ phase = "live"
  /\ jits' = [jits EXCEPT ![d].loops = @ - 1]
  /\ queued' = IF jits[d].loops = 1 THEN {r \in queued : mine[r] # d} ELSE queued
  /\ UNCHANGED <<phase, pc, mine, signalled>>

jit_timer_fn(d) ==
  /\ d \in timers /\ Line(d)
  /\ timers' = IF jits[d].loops > 1 THEN timers ELSE timers \ {d}
  /\ UNCHANGED tasklets

jit_tasklet_fn(d) ==
  /\ d \in tasklets /\ Line(d)
  /\ tasklets' = IF jits[d].loops > 1 THEN tasklets ELSE tasklets \ {d}
  /\ UNCHANGED timers

jit_init ==
  /\ phase = "unloaded" /\ DOMAIN jits = {}
  /\ phase' = "live" /\ UNCHANGED <<waits, jitdata>>

jit_cleanup ==
  /\ phase = "live" /\ Idle
  /\ phase' = "unloaded" /\ UNCHANGED <<waits, jitdata>>

Next ==
  \/ jit_init \/ jit_cleanup
  \/ \E r \in Readers : jit_timer(r) \/ jit_tasklet(r) \/ Wait(r) \/ Finish(r)
  \/ \E d \in Ids : jit_timer_fn(d) \/ jit_tasklet_fn(d)

-----------------------------------------------------------------------------
(* A reader does not sleep on once its last line is printed.               *)
SleepersWoken == \A r \in Readers : Sleeps(r) => jits[mine[r]].loops > 0

(* A jit_data that is not full has a timer or tasklet to fill it, and no   *)
(* timer or tasklet is left with one that was freed.                       *)
LinesGoOn == timers \cup tasklets = {d \in DOMAIN jits : jits[d].loops > 0}

(* Without signals nothing stays behind: see the findings for these.       *)
NothingLeft ==
  phase = "unloaded" /\ ~signalled => DOMAIN jits = {} /\ timers \cup tasklets = {}
=============================================================================

------------------------------- MODULE Sleepy -------------------------------
(***************************************************************************)
(* sleepy: readers wait for a flag that a write sets and a reader clears,  *)
(* without a lock.  One write at a time.                                   *)
(***************************************************************************)
EXTENDS WaitEvent

VARIABLES
  flag,
  waking   \* sleepy_write has set the flag and will wake the queue

FlagInit == flag = FALSE /\ waking = FALSE

(* The result of the wait is not looked at: a read that a signal ended     *)
(* clears the flag as well.                                                *)
sleepy_read(r) ==
  /\ phase = "live" /\ UNCHANGED <<phase, waking>>
  /\ \/ pc[r] = "idle" /\ Goto(r, "test") /\ UNCHANGED <<queued, flag>>
     \/ wait_event_interruptible(r, flag) /\ UNCHANGED flag
     \/ /\ pc[r] \in {"go", "signalled"}
        /\ flag' = FALSE /\ Goto(r, "idle") /\ UNCHANGED queued

sleepy_write ==
  /\ phase = "live"
  /\ \/ ~waking /\ waking' = TRUE /\ flag' = TRUE /\ UNCHANGED queued
     \/ waking /\ waking' = FALSE /\ queued' = {} /\ UNCHANGED flag
  /\ UNCHANGED <<phase, pc>>

sleepy_init ==
  /\ phase = "unloaded"
  /\ phase' = "live" /\ flag' = FALSE /\ UNCHANGED <<waits, waking>>

sleepy_cleanup ==
  /\ phase = "live" /\ Idle /\ ~waking
  /\ phase' = "unloaded" /\ UNCHANGED <<waits, flag, waking>>

Next ==
  \/ sleepy_init \/ sleepy_cleanup \/ sleepy_write
  \/ \E r \in Readers : sleepy_read(r)

-----------------------------------------------------------------------------
(* No reader sleeps beside the flag, unless the write that set it is about *)
(* to wake the queue.                                                      *)
SleepersWoken == \A r \in Readers : Sleeps(r) => ~flag \/ waking
=============================================================================

----------------------------- MODULE WaitEvent -----------------------------
(***************************************************************************)
(* wait_event_interruptible, as the example modules use it: the condition  *)
(* is tested, the process goes on the queue and tests it again before it   *)
(* sleeps.  External: <linux/wait.h>.                                      *)
(***************************************************************************)
EXTENDS Integers

CONSTANT Readers  \* processes that read

VARIABLES
  phase,   \* "unloaded" or "live"
  pc,      \* the step each process is at
  queued   \* processes on the wait queue

waits == <<pc, queued>>

WaitInit ==
  /\ phase = "unloaded" /\ queued = {}
  /\ pc = [r \in Readers |-> "idle"]

Idle == \A r \in Readers : pc[r] = "idle"

Goto(r, step) == pc' = [pc EXCEPT ![r] = step]

WaitTest(r, there) ==
  /\ pc[r] = "test"
  /\ Goto(r, IF there THEN "go" ELSE "prepare")
  /\ UNCHANGED queued

WaitPrepare(r) ==
  /\ pc[r] = "prepare"
  /\ queued' = queued \cup {r}
  /\ Goto(r, "retest")

(* With the condition false a signal that is pending ends the wait.        *)
WaitRetest(r, there) ==
  /\ pc[r] = "retest"
  /\ \/ there /\ Goto(r, "go") /\ queued' = queued \ {r}
     \/ ~there /\ Goto(r, "signalled") /\ queued' = queued \ {r}
     \/ ~there /\ Goto(r, "asleep") /\ UNCHANGED queued

(* A wake-up took it off the queue, or a signal came.                      *)
WaitWoken(r) == pc[r] = "asleep" /\ Goto(r, "prepare") /\ UNCHANGED queued

wait_event_interruptible(r, there) ==
  \/ WaitTest(r, there) \/ WaitPrepare(r) \/ WaitRetest(r, there)
  \/ WaitWoken(r)

Sleeps(r) == pc[r] = "asleep" /\ r \in queued
=============================================================================

-------------------------------- MODULE Jiq --------------------------------
(***************************************************************************)
(* jiq: a read of one of its files starts a work item, a tasklet or a timer*)
(* that prints lines into the page of the read until that is full, and     *)
(* sleeps until then.  The four files share one jiq_data, one wait queue   *)
(* and one of each of the three, without a lock; jiqwqdelay is jiqwq with  *)
(* a delay.                                                                *)
(*                                                                         *)
(* Filling jiq_data and jiq_print are one step each.  init_timer or        *)
(* add_timer on a timer that is pending ends the behaviour (`broken`).     *)
(***************************************************************************)
EXTENDS Integers, FiniteSets

CONSTANTS
  Readers,  \* processes that read
  Limit     \* lines up to LIMIT

VARIABLES
  phase, pc, queued,
  file,      \* the file each reader reads
  jiq_data,  \* len in lines, and the reader whose page is buf
  jiq_work,  \* queued, at once or after its delay
  running,   \* jiq_print_wq has printed and will queue itself
  jiq_tasklet, \* scheduled
  jiq_timer,   \* pending
  shared,    \* ghost: two reads were in the module at once
  signalled, \* ghost: a signal ended a read, its printing going on
  stray,     \* ghost: a line went to the page of a read that had ended
  broken

waits  == <<pc, queued, file>>
async  == <<jiq_work, running, jiq_tasklet, jiq_timer>>
ghosts == <<shared, signalled, stray, broken>>
vars   == <<phase, waits, jiq_data, async, ghosts>>

Nobody == "nobody"

PrintInit ==
  /\ file = [r \in Readers |-> "none"]
  /\ jiq_data = [len |-> 0, buf |-> Nobody]
  /\ jiq_work = FALSE /\ running = FALSE /\ jiq_tasklet = FALSE /\ jiq_timer = FALSE
  /\ shared = FALSE /\ signalled = FALSE /\ stray = FALSE /\ broken = FALSE

Goto(r, step) == pc' = [pc EXCEPT ![r] = step]
Live == phase = "live" /\ ~broken
Idle == \A r \in Readers : pc[r] = "idle"

-----------------------------------------------------------------------------
(* Printing                                                                *)

Full == jiq_data.len > Limit

PutLine ==
  /\ jiq_data' = [jiq_data EXCEPT !.len = @ + 1]
  /\ stray' = (stray \/ pc[jiq_data.buf] = "idle")
  /\ UNCHANGED queued

jiq_print ==
  \/ Full /\ queued' = {} /\ UNCHANGED <<jiq_data, stray>>
  \/ ~Full /\ PutLine

jiq_print_wq ==
  /\ Live /\ jiq_work /\ ~running /\ jiq_print
  /\ jiq_work' = FALSE /\ running' = ~Full
  /\ UNCHANGED <<phase, pc, file, jiq_tasklet, jiq_timer, shared, signalled, broken>>

Requeue ==
  /\ Live /\ running
  /\ running' = FALSE /\ jiq_work' = TRUE
  /\ UNCHANGED <<phase, waits, jiq_data, jiq_tasklet, jiq_timer, ghosts>>

jiq_print_tasklet ==
  /\ Live /\ jiq_tasklet /\ jiq_print
  /\ jiq_tasklet' = ~Full
  /\ UNCHANGED <<phase, pc, file, jiq_work, running, jiq_timer, shared, signalled, broken>>

(* A line if there is room, and the wake-up in any case.                   *)
jiq_timedout ==
  /\ Live /\ jiq_timer
  /\ jiq_data' = [jiq_data EXCEPT !.len = IF Full THEN @ ELSE @ + 1]
  /\ stray' = (stray \/ (~Full /\ pc[jiq_data.buf] = "idle"))
  /\ queued' = {} /\ jiq_timer' = FALSE
  /\ UNCHANGED <<phase, pc, file, jiq_work, running, jiq_tasklet, shared, signalled, broken>>

-----------------------------------------------------------------------------
(* The reads                                                               *)

(* jiq_data and, for jitimer, init_timer.                                  *)
Fill(r, f) ==
  /\ Live /\ pc[r] = "idle"
  /\ jiq_data' = [len |-> 0, buf |-> r]
  /\ file' = [file EXCEPT ![r] = f]
  /\ shared' = (shared \/ ~Idle)
  /\ broken' = (f = "jitimer" /\ jiq_timer)
  /\ Goto(r, IF f = "jiqwq" THEN "prepare" ELSE "start")
  /\ UNCHANGED <<phase, queued, async, signalled, stray>>

OnQueue(r, next) ==
  /\ queued' = queued \cup {r} /\ Goto(r, next)
  /\ UNCHANGED <<phase, file, jiq_data, async, ghosts>>

PrepareToWait(r) == Live /\ pc[r] = "prepare" /\ OnQueue(r, "start")

(* interruptible_sleep_on                                                  *)
SleepOn(r) == Live /\ pc[r] = "sleep_on" /\ OnQueue(r, "asleep")

ScheduleWork(r) ==
  /\ Live /\ pc[r] = "start" /\ file[r] = "jiqwq"
  /\ jiq_work' = TRUE /\ Goto(r, "asleep")
  /\ UNCHANGED <<phase, queued, file, jiq_data, running, jiq_tasklet, jiq_timer, ghosts>>

ScheduleTasklet(r) ==
  /\ Live /\ pc[r] = "start" /\ file[r] = "jiqtasklet"
  /\ jiq_tasklet' = TRUE /\ Goto(r, "sleep_on")
  /\ UNCHANGED <<phase, queued, file, jiq_data, jiq_work, running, jiq_timer, ghosts>>

AddTimer(r) ==
  /\ Live /\ pc[r] = "start" /\ file[r] = "jitimer"
  /\ jiq_print
  /\ broken' = jiq_timer /\ jiq_timer' = TRUE /\ Goto(r, "sleep_on")
  /\ UNCHANGED <<phase, file, jiq_work, running, jiq_tasklet, shared, signalled>>

(* Woken or, still on the queue, by a signal.  Only jitimer stops what it  *)
(* started.                                                                *)
Return(r) ==
  /\ Live /\ pc[r] = "asleep"
  /\ queued' = queued \ {r} /\ Goto(r, "idle")
  /\ signalled' = (signalled \/ (r \in queued /\ file[r] # "jitimer"))
  /\ jiq_timer' = (jiq_timer /\ file[r] # "jitimer")
  /\ UNCHANGED <<phase, file, jiq_data, jiq_work, running, jiq_tasklet, shared, stray, broken>>

jiq_read_wq(r) ==
  Fill(r, "jiqwq") \/ PrepareToWait(r) \/ ScheduleWork(r) \/ Return(r)

jiq_read_tasklet(r) ==
  Fill(r, "jiqtasklet") \/ ScheduleTasklet(r) \/ SleepOn(r) \/ Return(r)

jiq_read_run_timer(r) ==
  Fill(r, "jitimer") \/ AddTimer(r) \/ SleepOn(r) \/ Return(r)

jiq_init ==
  /\ phase = "unloaded" /\ ~(jiq_work \/ running \/ jiq_tasklet \/ jiq_timer)
  /\ phase' = "live" /\ UNCHANGED <<waits, jiq_data, async, ghosts>>

jiq_cleanup ==
  /\ Live /\ Idle
  /\ phase' = "unloaded" /\ UNCHANGED <<waits, jiq_data, async, ghosts>>

Next ==
  \/ jiq_init \/ jiq_cleanup
  \/ jiq_print_wq \/ Requeue \/ jiq_print_tasklet \/ jiq_timedout
  \/ \E r \in Readers :
       jiq_read_wq(r) \/ jiq_read_tasklet(r) \/ jiq_read_run_timer(r)

-----------------------------------------------------------------------------
(* A reader of jiqwq that sleeps has work to come that will wake it, also  *)
(* among other readers: it is on the queue before the work is.             *)
SleepersWoken ==
  \A r \in queued : file[r] = "jiqwq" /\ pc[r] = "asleep" => jiq_work \/ running

(* "sleep till completion" (jiq.c:190): a reader of jiqtasklet that sleeps *)
(* has something to come that will wake it.  It has not when the printing  *)
(* was complete before it joined the queue.                                *)
SleepsTillCompletion ==
  \A r \in queued : file[r] = "jiqtasklet" /\ pc[r] = "asleep" =>
    jiq_tasklet \/ jiq_work \/ running \/ jiq_timer

(* A line goes to the page of a read that is still in its call, unless a   *)
(* signal ended one or two shared jiq_data.                                *)
LinesHome == stray => shared \/ signalled

(* The printing ends with the read, unless a signal ended that first or    *)
(* two shared jiq_data.                                                    *)
NothingLeft ==
  phase = "unloaded" /\ ~shared => ~jiq_timer /\ (~signalled => ~(jiq_work \/ running \/ jiq_tasklet))
=============================================================================

------------------------------- MODULE TinyTty -------------------------------
(***************************************************************************)
(* tiny_tty, one port: an object made by the first open, the count of its  *)
(* openings, and a timer that hands a character to the tty and adds itself *)
(* again for as long as the port is open.                                  *)
(*                                                                         *)
(* The tty layer keeps one tty while somebody has it open, calls close     *)
(* also after an open that failed, and frees the tty after the last close. *)
(* One processor: the timer's handler runs between two steps.              *)
(***************************************************************************)
EXTENDS Integers, FiniteSets

CONSTANTS
  Openers,  \* processes
  MaxCount  \* bound: openings counted at a time

VARIABLES
  tiny,        \* tiny_table's entry: "none" or "there"
  open_count,
  sem,         \* who holds the object's semaphore
  driver_data, \* the tty points to the object
  timer,       \* "none", "idle" (allocated) or "pending"
  mcr,         \* the modem lines that are set
  tpc,         \* each process's step
  fault        \* "none", "null": a null pointer used, "twins": two objects
               \* made, "freed": the handler ran after the tty was freed

vars == <<tiny, open_count, sem, driver_data, timer, mcr, tpc, fault>>

Nobody == "nobody"

PortInit ==
  /\ tiny = "none" /\ open_count = 0 /\ sem = Nobody
  /\ driver_data = FALSE /\ timer = "none"
  /\ mcr = {} /\ tpc = [p \in Openers |-> "closed"]

Init == PortInit /\ fault = "none"

Goto(p, step) == tpc' = [tpc EXCEPT ![p] = step]

-----------------------------------------------------------------------------
(* Opening                                                                 *)

OpenLook(p) ==
  /\ tpc[p] = "closed" /\ open_count < MaxCount
  /\ driver_data' = FALSE
  /\ Goto(p, IF tiny = "none" THEN "create" ELSE "down")
  /\ UNCHANGED <<tiny, open_count, sem, timer, mcr, fault>>

(* kmalloc may sleep; what it returns holds any mcr.                       *)
OpenCreate(p) ==
  /\ tpc[p] = "create"
  /\ \/ /\ tiny' = "there" /\ open_count' = 0 /\ timer' = "none"
        /\ mcr' \in {{}, {"DTR", "RTS"}}
        /\ fault' = IF tiny = "none" THEN fault ELSE "twins"
        /\ Goto(p, "down")
     \/ Goto(p, "failed") /\ UNCHANGED <<tiny, open_count, timer, mcr, fault>>
  /\ UNCHANGED <<sem, driver_data>>

OpenDown(p) ==
  /\ tpc[p] = "down" /\ sem = Nobody
  /\ driver_data' = TRUE
  /\ open_count' = open_count + 1
  /\ IF open_count' = 1 /\ timer = "none"
       THEN sem' = p /\ Goto(p, "timer") /\ UNCHANGED timer
       ELSE /\ timer' = IF open_count' = 1 THEN "pending" ELSE timer
            /\ Goto(p, "open") /\ UNCHANGED sem
  /\ UNCHANGED <<tiny, mcr, fault>>

(* The timer's kmalloc, with the semaphore held; a failure leaves the      *)
(* count and driver_data as they are.                                      *)
OpenTimer(p) ==
  /\ tpc[p] = "timer"
  /\ sem' = Nobody
  /\ \/ timer' = "pending" /\ Goto(p, "open")
     \/ Goto(p, "failed") /\ UNCHANGED timer
  /\ UNCHANGED <<tiny, open_count, driver_data, mcr, fault>>

tiny_open(p) == OpenLook(p) \/ OpenCreate(p) \/ OpenDown(p) \/ OpenTimer(p)

-----------------------------------------------------------------------------
(* Closing and unloading                                                   *)

\* Mutant: the port is closed without its timer.
CloseLeaves ==
  IF open_count = 0 THEN UNCHANGED <<open_count, timer, fault>>
  ELSE open_count' = open_count - 1 /\ UNCHANGED <<timer, fault>>

(* One closing of the port, with the semaphore: the last one deletes the   *)
(* timer.                                                                  *)
do_close ==
  IF open_count = 0 THEN UNCHANGED <<open_count, timer, fault>>
  ELSE /\ open_count' = open_count - 1
       /\ IF open_count' > 0 THEN UNCHANGED <<timer, fault>>
          ELSE /\ timer' = IF timer = "pending" THEN "idle" ELSE timer
               /\ fault' = IF timer = "none" THEN "null" ELSE fault

tiny_close(p) ==
  /\ tpc[p] \in {"open", "failed"}
  /\ IF driver_data THEN sem = Nobody /\ do_close
                    ELSE UNCHANGED <<open_count, timer, fault>>
  /\ Goto(p, "closed")
  /\ UNCHANGED <<tiny, sem, driver_data, mcr>>

(* The tty layer holds the module while a tty is open.  do_close until the *)
(* count is 0 and del_timer: either way the timer is gone.                 *)
tiny_exit ==
  /\ \A p \in Openers : tpc[p] = "closed"
  /\ tiny = "there"
  /\ tiny' = "none" /\ open_count' = 0 /\ timer' = "none"
  /\ fault' = IF timer = "none" THEN "null" ELSE fault
  /\ UNCHANGED <<sem, driver_data, mcr, tpc>>

-----------------------------------------------------------------------------
(* With the tty open                                                       *)

(* The handler adds the timer again; once the tty was freed it hands its   *)
(* character to freed memory.                                              *)
tiny_timer ==
  /\ timer = "pending"
  /\ fault' = IF \A p \in Openers : tpc[p] = "closed" THEN "freed" ELSE fault
  /\ UNCHANGED <<tiny, open_count, sem, driver_data, timer, mcr, tpc>>

(* DTR moves the bit of RTS; the object is not looked for under a lock.    *)
tiny_tiocmset(set, clear) ==
  /\ \E p \in Openers : tpc[p] = "open"
  /\ IF driver_data
       THEN /\ mcr' = (mcr \cup (IF set = {} THEN {} ELSE {"RTS"}))
                      \ (IF clear = {} THEN {} ELSE {"RTS"})
            /\ UNCHANGED fault
       ELSE fault' = "null" /\ UNCHANGED mcr
  /\ UNCHANGED <<tiny, open_count, sem, driver_data, timer, tpc>>

Next ==
  /\ fault = "none"
  /\ \/ \E p \in Openers : tiny_open(p) \/ tiny_close(p)
     \/ tiny_exit \/ tiny_timer
     \/ \E set, clear \in SUBSET {"DTR", "RTS"} : tiny_tiocmset(set, clear)

-----------------------------------------------------------------------------
(* The timer is pending only while the port is counted open: none outlives *)
(* the object that its handler looks into.                                 *)
TimerWhileOpen ==
  (fault # "twins" /\ timer = "pending") => (tiny = "there" /\ open_count > 0)

(* "number of times this port has been opened": the count is the number of *)
(* processes that have the port open, so the last close stops the timer.   *)
OpensCounted ==
  (fault = "none" /\ \A p \in Openers : tpc[p] \in {"open", "closed"})
    => open_count = Cardinality({p \in Openers : tpc[p] = "open"})
=============================================================================

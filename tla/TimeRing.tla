------------------------------ MODULE TimeRing ------------------------------
(***************************************************************************)
(* The page of time stamps that short and shortprint give to their readers:*)
(* an interrupt handler or its bottom half puts one record after another   *)
(* and wakes the readers, none of them under a lock.  A record is written  *)
(* whole, a read may stop anywhere in it: between any two of its U units.  *)
(*                                                                         *)
(* The ghost `want` is what the reads have yet to return.  A writer that   *)
(* comes round to the tail overruns the ring: at the tail, it looks empty; *)
(* past a tail inside a record, the end of the new record is what is left. *)
(* It is in order again after that, unless somebody was copying.           *)
(***************************************************************************)
EXTENDS Integers, Sequences

CONSTANTS
  Readers,  \* processes that read
  N,        \* records in the page
  U         \* units of a record (16 bytes): where a read may stop

VARIABLES
  head, tail,  \* short_head, short_tail as offsets in units
  ring,        \* the page
  want,        \* ghost: the units written and not read
  torn,        \* ghost: the ring was overrun during a copy, or two copied
  pc,          \* the step each reader is at
  count,       \* units its read will copy
  got,         \* units its read has copied
  queued       \* readers on the wait queue

PageSize == N * U
Junk == <<>>
Units(record) == [k \in 1..U |-> <<record, k>>]

ringvars == <<head, tail, ring, want, torn>>
readers  == <<pc, count, got, queued>>

RingsInit ==
  /\ head = 0 /\ tail = 0 /\ ring = [i \in 0..(PageSize - 1) |-> Junk]
  /\ want = <<>> /\ torn = FALSE
  /\ count = [r \in Readers |-> 0] /\ got = [r \in Readers |-> <<>>]

RingInit ==
  /\ RingsInit
  /\ pc = [r \in Readers |-> "idle"] /\ queued = {}

(* An index moves on, at the end of the page to its start.                 *)
short_incr_bp(index, delta) ==
  IF index + delta >= PageSize THEN 0 ELSE index + delta

Copying == {r \in Readers : pc[r] \in {"copy", "incr"}}

(* A record is written at the head.                                        *)
Overruns == Len(want) + U >= PageSize

Put(record) ==
  /\ ring' = [i \in DOMAIN ring |->
                IF i \in head..(head + U - 1) THEN Units(record)[i - head + 1] ELSE ring[i]]
  /\ head' = short_incr_bp(head, U)
  /\ torn' = (torn \/ (Overruns /\ Copying # {}))
  /\ want' = IF torn' THEN <<>>
             ELSE IF Overruns THEN SubSeq(Units(record), PageSize - Len(want) + 1, U)
             ELSE want \o Units(record)
  /\ UNCHANGED tail

(* wake_up_interruptible                                                   *)
Wake == queued' = {} /\ UNCHANGED <<pc, count, got>>

Goto(r, step) == pc' = [pc EXCEPT ![r] = step]

-----------------------------------------------------------------------------
(* short_i_read                                                            *)

(* count0: what can be read without a wrap.                                *)
Readable == IF head < tail THEN PageSize - tail ELSE head - tail

(* while (short_head == short_tail), first and after each wake-up.         *)
ReadTest(r) ==
  /\ pc[r] \in {"idle", "finish"}
  /\ queued' = queued \ {r}
  /\ \/ head = tail /\ Goto(r, "prepare") /\ UNCHANGED <<count, torn, want>>
     \/ /\ head # tail
        /\ \E n \in 0..Readable : count' = [count EXCEPT ![r] = n]
        /\ torn' = (torn \/ Copying # {})
        /\ want' = IF torn' THEN <<>> ELSE want
        /\ Goto(r, "copy")
  /\ UNCHANGED <<head, tail, ring, got>>

ReadPrepare(r) ==
  /\ pc[r] = "prepare"
  /\ queued' = queued \cup {r}
  /\ Goto(r, "retest")
  /\ UNCHANGED <<ringvars, count, got>>

(* The second look, with the process on the queue.                         *)
ReadRetest(r) ==
  /\ pc[r] = "retest"
  /\ Goto(r, IF head = tail THEN "asleep" ELSE "finish")
  /\ UNCHANGED <<ringvars, count, got, queued>>

ReadWoken(r) ==
  /\ pc[r] = "asleep" /\ r \notin queued
  /\ Goto(r, "finish")
  /\ UNCHANGED <<ringvars, count, got, queued>>

ReadSignal(r) ==
  /\ pc[r] \in {"asleep", "finish"}
  /\ queued' = queued \ {r}
  /\ Goto(r, "idle")
  /\ UNCHANGED <<ringvars, count, got>>

(* copy_to_user, from where the tail is now; it may fault.                 *)
ReadCopy(r) ==
  /\ pc[r] = "copy"
  /\ \/ /\ got' = [got EXCEPT ![r] = IF torn THEN <<>> ELSE
                     [i \in 1..count[r] |->
                        IF tail + i <= PageSize THEN ring[tail + i - 1] ELSE Junk]]
        /\ Goto(r, "incr") /\ UNCHANGED count
     \/ Goto(r, "idle") /\ count' = [count EXCEPT ![r] = 0] /\ UNCHANGED got
  /\ UNCHANGED <<ringvars, queued>>

ReadIncr(r) ==
  /\ pc[r] = "incr"
  /\ tail' = short_incr_bp(tail, count[r])
  /\ want' = SubSeq(want, count[r] + 1, Len(want))
  /\ Goto(r, "idle")
  /\ count' = [count EXCEPT ![r] = 0] /\ got' = [got EXCEPT ![r] = <<>>]
  /\ UNCHANGED <<head, ring, torn, queued>>

short_i_read(r) ==
  \/ ReadTest(r) \/ ReadPrepare(r) \/ ReadRetest(r) \/ ReadWoken(r)
  \/ ReadSignal(r) \/ ReadCopy(r) \/ ReadIncr(r)

-----------------------------------------------------------------------------
(* Nobody sleeps beside a record, unless who wrote it is about to wake the *)
(* queue: or two copied at once and moved the tail past the head.          *)
ReadersWoken(waking) ==
  \A r \in queued : pc[r] = "asleep" => head = tail \/ waking \/ torn

(* A read returns the oldest units in the ring, each as it was written and *)
(* once: head and tail move without a lock.  Two things tear the ring: a   *)
(* second read that starts while one copies, and an overrun during a copy. *)
(* (An overrun past a tail inside a record joins the read half of the old  *)
(* record to the rest of the new one: that is what is left to be read.)    *)
ReadsInOrder ==
  \A r \in Readers :
    pc[r] = "incr" /\ ~torn =>
      count[r] <= Len(want) /\ got[r] = SubSeq(want, 1, count[r])

(* "count0 is the number of readable data bytes" (short.c:294) when they   *)
(* are copied.  It is not when the ring was torn.                          *)
CopiesReadable == \A r \in Readers : pc[r] = "copy" => count[r] <= Readable
=============================================================================

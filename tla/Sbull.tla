-------------------------------- MODULE Sbull --------------------------------
(***************************************************************************)
(* sbull, a disk in memory, in its three request modes.  One disk; idle    *)
(* for a while it pretends that its medium was changed and comes back      *)
(* empty.                                                                  *)
(*                                                                         *)
(* The block layer serialises the opens and releases of a disk, gives it   *)
(* requests while somebody has it open, and none beyond its capacity.  A   *)
(* request is one bio here: neither mode lets bios of a request meet.      *)
(***************************************************************************)
EXTENDS Integers, FiniteSets, SequencesExt

CONSTANTS
  Users,      \* processes, each with at most one open file
  Sectors,    \* capacity
  Segments,   \* bound: the segment lengths, in sectors, a bio may have
  MaxWrites   \* bound: writes in a behaviour

VARIABLES
  request_mode, \* "simple", "full" or "noqueue"
  disk,         \* "none", "no data", "dangling" or "ready"
  users, media_change,
  invalidate,   \* sbull_invalidate: "idle", "pending" or "running"
  bd_sem,       \* who is opening
  file,         \* each user's file
  data,         \* what each sector holds: a write and a place in its buffer
  wanted,       \* what it should hold
  writes,       \* writes made
  uneven,       \* a bio with segments of unequal length was moved
  misread,      \* a read returned something else than was wanted
  fault         \* "none", or "twice": memory freed twice

idle  == <<users, media_change, invalidate, bd_sem, file>>
bytes == <<data, wanted, writes, uneven, misread>>
vars  == <<request_mode, disk, idle, bytes, fault>>

Nobody == "nobody"
Zeroes == [s \in 0 .. Sectors - 1 |-> <<0, 0>>]
Past   == <<-1, 0>>      \* what lies in memory after a segment

IdleInit ==
  /\ users = 0 /\ media_change = FALSE /\ invalidate = "idle"
  /\ bd_sem = Nobody /\ file = [u \in Users |-> "closed"]

BytesInit ==
  /\ data = Zeroes /\ wanted = Zeroes
  /\ writes = 0 /\ uneven = FALSE /\ misread = FALSE

Init ==
  /\ request_mode \in {"simple", "full", "noqueue"}
  /\ disk = "none" /\ fault = "none"
  /\ IdleInit /\ BytesInit

-----------------------------------------------------------------------------
(* Loading                                                                 *)

(* Each allocation may fail; without a queue or a gendisk the data is      *)
(* freed and the pointer stays.                                            *)
setup_device ==
  /\ disk = "none"
  /\ disk' \in {"no data", "dangling", "ready"}
  /\ data' = Zeroes /\ wanted' = Zeroes
  /\ UNCHANGED <<request_mode, idle, writes, uneven, misread, fault>>

sbull_exit ==
  /\ disk # "none" /\ users = 0 /\ bd_sem = Nobody
  /\ invalidate # "running"                           \* del_timer_sync
  /\ invalidate' = "idle" /\ media_change' = FALSE
  /\ disk' = "none"
  /\ fault' = IF disk = "dangling" THEN "twice" ELSE fault
  /\ UNCHANGED <<request_mode, users, bd_sem, file, bytes>>

-----------------------------------------------------------------------------
(* Opening, closing and the simulated change of the medium                 *)

\* Mutant: the timer is deleted without waiting for its handler.
OpenUnsynced(u) ==
  /\ disk = "ready" /\ file[u] = "closed" /\ bd_sem = Nobody
  /\ bd_sem' = u
  /\ invalidate' = IF invalidate = "pending" THEN "idle" ELSE invalidate
  /\ file' = [file EXCEPT ![u] = "opening"]
  /\ UNCHANGED <<request_mode, disk, users, media_change, bytes, fault>>

OpenSync(u) ==
  /\ disk = "ready" /\ file[u] = "closed" /\ bd_sem = Nobody
  /\ invalidate # "running"                           \* del_timer_sync
  /\ bd_sem' = u
  /\ invalidate' = "idle"
  /\ file' = [file EXCEPT ![u] = "opening"]
  /\ UNCHANGED <<request_mode, disk, users, media_change, bytes, fault>>

(* With the lock: the first user asks sbull_media_changed, and on a change *)
(* sbull_revalidate empties the disk.                                      *)
OpenCheck(u) ==
  /\ file[u] = "opening"
  /\ IF users = 0 /\ media_change
       THEN data' = Zeroes /\ wanted' = Zeroes /\ media_change' = FALSE
       ELSE UNCHANGED <<data, wanted, media_change>>
  /\ users' = users + 1
  /\ bd_sem' = Nobody
  /\ file' = [file EXCEPT ![u] = "open"]
  /\ UNCHANGED <<request_mode, disk, invalidate, writes, uneven, misread, fault>>

sbull_open(u) == OpenSync(u) \/ OpenCheck(u)

sbull_release(u) ==
  /\ file[u] = "open" /\ bd_sem = Nobody
  /\ users' = users - 1
  /\ invalidate' = IF users' = 0 THEN "pending" ELSE invalidate
  /\ file' = [file EXCEPT ![u] = "closed"]
  /\ UNCHANGED <<request_mode, disk, media_change, bd_sem, bytes, fault>>

(* The timer runs out ...                                                  *)
InvalidateStart ==
  /\ invalidate = "pending" /\ invalidate' = "running"
  /\ UNCHANGED <<request_mode, disk, users, media_change, bd_sem, file, bytes, fault>>

(* ... and its handler gets the lock.                                      *)
InvalidateMark ==
  /\ invalidate = "running" /\ invalidate' = "idle"
  /\ media_change' = (media_change \/ users = 0)
  /\ UNCHANGED <<request_mode, disk, users, bd_sem, file, bytes, fault>>

sbull_invalidate == InvalidateStart \/ InvalidateMark

-----------------------------------------------------------------------------
(* Requests                                                                *)

Length(segs)    == FoldSeq(LAMBDA n, sum : n + sum, 0, segs)
StartOf(segs, i) == Length(SubSeq(segs, 1, i - 1))

(* What sbull_transfer is asked for each segment.  The simple mode goes by *)
(* the request's current chunk; sbull_xfer_bio takes the length of the     *)
(* first segment for all of them.                                          *)
Chunk(first, segs, i) ==
  IF request_mode = "simple"
    THEN [sector |-> first + StartOf(segs, i), nsect |-> segs[i]]
    ELSE [sector |-> first + (i - 1) * segs[1], nsect |-> segs[1]]

\* Mutant: a transfer that ends at the last sector is turned down.
TransferShort(first, segs) ==
  UNION {LET c == Chunk(first, segs, i) IN
           IF c.sector + c.nsect >= Sectors THEN {}
           ELSE {<<c.sector + k, IF k < segs[i] THEN StartOf(segs, i) + k ELSE -1>> :
                   k \in 0 .. c.nsect - 1}
         : i \in DOMAIN segs}

(* The sectors moved, each with its place in the buffer, -1 past the end   *)
(* of a segment; a transfer beyond the end of the disk is left out.        *)
sbull_transfer(first, segs) ==
  UNION {LET c == Chunk(first, segs, i) IN
           IF c.sector + c.nsect > Sectors THEN {}
           ELSE {<<c.sector + k, IF k < segs[i] THEN StartOf(segs, i) + k ELSE -1>> :
                   k \in 0 .. c.nsect - 1}
         : i \in DOMAIN segs}

Note(segs) == uneven' = (uneven \/ \E i \in DOMAIN segs : segs[i] # segs[1])

(* sbull_request, sbull_full_request and sbull_make_request: the request   *)
(* is always reported done.                                                *)
Write(first, segs) ==
  /\ writes < MaxWrites /\ writes' = writes + 1
  /\ LET moved == sbull_transfer(first, segs) IN
       data' = [s \in DOMAIN data |->
                  IF \E m \in moved : m[1] = s
                    THEN LET m == CHOOSE m \in moved : m[1] = s IN
                           IF m[2] = -1 THEN Past ELSE <<writes', m[2]>>
                    ELSE data[s]]
  /\ wanted' = [s \in DOMAIN wanted |->
                  IF s \in first .. first + Length(segs) - 1
                    THEN <<writes', s - first>> ELSE wanted[s]]
  /\ Note(segs)
  /\ UNCHANGED misread

Read(first, segs) ==
  /\ misread' = ~ \A p \in 0 .. Length(segs) - 1 :
                    \E m \in sbull_transfer(first, segs) :
                      m[2] = p /\ data[m[1]] = wanted[first + p]
  /\ Note(segs)
  /\ UNCHANGED <<data, wanted, writes>>

Request ==
  /\ \E u \in Users : file[u] = "open"
  /\ \E segs \in Segments :
       \E first \in 0 .. Sectors - Length(segs) :
         Write(first, segs) \/ Read(first, segs)
  /\ UNCHANGED <<request_mode, disk, idle, fault>>

Next ==
  /\ fault = "none"
  /\ \/ setup_device \/ sbull_exit \/ sbull_invalidate \/ Request
     \/ \E u \in Users : sbull_open(u) \/ sbull_release(u)

-----------------------------------------------------------------------------
(* "timer sanity check failed" is never printed: no timer is pending and   *)
(* no handler runs while the disk is open, or when it is gone.             *)
InvalidatedIdle ==
  invalidate # "idle" => users = 0 /\ disk = "ready"

(* What was written can be read until the disk was closed by everyone and  *)
(* came back empty; not so in the modes of sbull_xfer_bio once a bio had   *)
(* segments of unequal length.                                             *)
DataKept ==
  request_mode = "simple" \/ ~uneven => data = wanted /\ ~misread
=============================================================================

-------------------------------- MODULE Snull --------------------------------
(***************************************************************************)
(* The two snull interfaces (snull/snull.c), each the other's peer: a      *)
(* packet sent on one is copied into a buffer of that interface's pool,    *)
(* queued on the peer, received there, and the buffer goes back.           *)
(*                                                                         *)
(* The kernel runs at most one of an interface's snull_tx and              *)
(* snull_tx_timeout at a time (xmit_lock), and one poll; these are the     *)
(* threads, <<d, "xmit">> and <<d, "poll">>.  The interrupt handlers are   *)
(* called by them.  A thread is cut where it takes a device's lock and     *)
(* wherever it reads or writes shared data without it.                     *)
(***************************************************************************)
EXTENDS Integers, Sequences

CONSTANTS
  Devs,      \* the two interfaces
  Packets,   \* the packet buffers of both
  Home,      \* the interface to whose pool each belongs (pkt->dev)
  Pool,      \* the pools snull_setup_pool makes, first to be taken first
  Napi,      \* the values of use_napi
  NoPacket,  \* a pointer to none
  Lockups    \* the values of lockup: every lockup-th interrupt is dropped

ASSUME DevsAssumption == \E d, e \in Devs : d # e /\ Devs = {d, e}
ASSUME PacketsAssumption == NoPacket \notin Packets /\ Home \in [Packets -> Devs]
ASSUME PoolAssumption ==
  /\ Pool \in [Devs -> Seq(Packets) \ {<<>>}]
  /\ \A d \in Devs : /\ {Pool[d][i] : i \in DOMAIN Pool[d]} = {p \in Packets : Home[p] = d}
                     /\ \A i, j \in DOMAIN Pool[d] : Pool[d][i] = Pool[d][j] => i = j
ASSUME ModeAssumption == Napi \subseteq BOOLEAN /\ Lockups \subseteq Nat

Peer(d) == CHOOSE e \in Devs : e # d
Threads == Devs \X {"xmit", "poll"}
NoThread == <<>>

VARIABLES
  use_napi, lockup,  \* module parameters
  up,        \* up[d]: the interface is running
  stopped,   \* netif_queue_stopped
  scheduled, \* on the kernel's list of interfaces to poll
  lock,      \* the holder of priv->lock
  ppool,     \* the free buffers, first to be taken first
  rx_queue,  \* the buffers that came in, last to come in first
  bottom,    \* the buffers whose next pointer is NULL
  rx_int_enabled,
  status,    \* the status word, as the set of its bits
  skb,       \* what became of priv->skb: none yet, sent, freed or freed twice
  sent,      \* stats.tx_packets, modulo lockup
  pc,        \* where each thread stands
  phase,     \* what a transmitting thread raises an interrupt for
  hand,      \* the buffer a thread points to
  word       \* the status word a thread has read

params == <<use_napi, lockup>>
queue  == <<up, stopped, scheduled>>
lists  == <<ppool, rx_queue, bottom>>
words  == <<rx_int_enabled, status>>
skbs   == <<skb, sent>>
locals == <<phase, hand, word>>
vars   == <<params, queue, lock, lists, words, skbs, pc, locals>>

\* The device whose interrupt is being raised.
Target(t) == IF phase[t] = "RX" THEN Peer(t[1]) ELSE t[1]

Set(fn, x, v) == [fn EXCEPT ![x] = v]
Goto(t, label) == pc' = Set(pc, t, label)

Init ==
  /\ use_napi \in Napi /\ lockup \in Lockups
  /\ up = [d \in Devs |-> TRUE] /\ stopped = [d \in Devs |-> FALSE]
  /\ scheduled = [d \in Devs |-> FALSE]
  /\ lock = [d \in Devs |-> NoThread]
  /\ ppool = Pool
  /\ rx_queue = [d \in Devs |-> <<>>]
  /\ bottom = {Pool[d][Len(Pool[d])] : d \in Devs}
  /\ rx_int_enabled = [d \in Devs |-> TRUE]
  /\ status = [d \in Devs |-> {}]
  /\ skb = [d \in Devs |-> "none"] /\ sent = [d \in Devs |-> 0]
  /\ pc = [t \in Threads |-> "idle"]
  /\ phase = [t \in Threads |-> "none"]
  /\ hand = [t \in Threads |-> NoPacket]
  /\ word = [t \in Threads |-> {}]

Back(t) ==
  /\ Goto(t, "idle")
  /\ phase' = Set(phase, t, "none")
  /\ hand' = Set(hand, t, NoPacket)
  /\ word' = Set(word, t, {})
-----------------------------------------------------------------------------
(***************************************************************************)
(* The kernel: ifconfig up and down, and which threads it starts.          *)
(***************************************************************************)
\* snull_open: the transmit queue is started, whatever the pool holds.
Open(d) ==
  /\ ~up[d]
  /\ up' = Set(up, d, TRUE) /\ stopped' = Set(stopped, d, FALSE)
  /\ UNCHANGED <<params, scheduled, lock, lists, words, skbs, pc, locals>>

\* snull_release, after the transmitter and the poll are done.
Stop(d) ==
  /\ up[d] /\ pc[<<d, "xmit">>] = "idle" /\ ~scheduled[d]
  /\ up' = Set(up, d, FALSE) /\ stopped' = Set(stopped, d, TRUE)
  /\ UNCHANGED <<params, scheduled, lock, lists, words, skbs, pc, locals>>

\* snull_tx
Transmit(d) ==
  LET t == <<d, "xmit">>
  IN  /\ pc[t] = "idle" /\ up[d] /\ ~stopped[d]
      /\ skb' = Set(skb, d, "sent")
      /\ Goto(t, "get")
      /\ UNCHANGED <<params, queue, lock, lists, words, sent, locals>>

\* snull_tx_timeout: the queue has been stopped for too long.
Timeout(d) ==
  LET t == <<d, "xmit">>
  IN  /\ pc[t] = "idle" /\ up[d] /\ stopped[d]
      /\ status' = Set(status, d, {"TX"})
      /\ phase' = Set(phase, t, "timeout")
      /\ Goto(t, "intr")
      /\ UNCHANGED <<params, queue, lock, lists, rx_int_enabled, skbs, hand, word>>

Poll(d) ==
  LET t == <<d, "poll">>
  IN  /\ pc[t] = "idle" /\ scheduled[d]
      /\ Goto(t, "loop")
      /\ UNCHANGED <<params, queue, lock, lists, words, skbs, locals>>

WakeQueue(d) == stopped' = Set(stopped, d, FALSE)
-----------------------------------------------------------------------------
(***************************************************************************)
(* The lists.  Each function holds the lock of the list's device.          *)
(***************************************************************************)
Push(list, d, p) == Set(list, d, <<p>> \o list[d])
NextOf(list, d, p) == IF list[d] = <<>> THEN bottom \cup {p} ELSE bottom \ {p}

\* Mutant: the queue is not stopped when the pool runs out.
GetOnly(t) ==
  LET d == t[1]
  IN  /\ pc[t] = "get" /\ lock[d] = NoThread /\ ppool[d] # <<>>
      /\ hand' = Set(hand, t, Head(ppool[d]))
      /\ ppool' = Set(ppool, d, Tail(ppool[d]))
      /\ Goto(t, "enqueue")
      /\ UNCHANGED <<params, queue, lock, rx_queue, bottom, words, skbs, phase, word>>

\* snull_get_tx_buffer.  On an empty pool it follows a NULL pointer and
\* the thread goes no further.
Get(t) ==
  LET d == t[1]
  IN  /\ pc[t] = "get" /\ lock[d] = NoThread /\ ppool[d] # <<>>
      /\ hand' = Set(hand, t, Head(ppool[d]))
      /\ ppool' = Set(ppool, d, Tail(ppool[d]))
      /\ stopped' = Set(stopped, d, stopped[d] \/ Len(ppool[d]) = 1)
      /\ Goto(t, "enqueue")
      /\ UNCHANGED <<params, up, scheduled, lock, rx_queue, bottom, words, skbs, phase, word>>

\* snull_enqueue_buf, on the peer
Enqueue(t) ==
  LET e == Peer(t[1])
  IN  /\ pc[t] = "enqueue" /\ lock[e] = NoThread
      /\ rx_queue' = Push(rx_queue, e, hand[t])
      /\ bottom' = NextOf(rx_queue, e, hand[t])
      /\ hand' = Set(hand, t, NoPacket)
      /\ Goto(t, "check")
      /\ UNCHANGED <<params, queue, lock, ppool, words, skbs, phase, word>>

\* Mutant: the buffer goes to the pool of the interface that received it.
ReleaseHere(t) ==
  LET d == IF t[2] = "poll" THEN t[1] ELSE Target(t)
  IN  /\ pc[t] = "release" /\ lock[d] = NoThread
      /\ ppool' = Push(ppool, d, hand[t])
      /\ bottom' = NextOf(ppool, d, hand[t])
      /\ Goto(t, "test")
      /\ UNCHANGED <<params, queue, lock, rx_queue, words, skbs, locals>>

\* snull_release_buffer: give it back, then look whether its pool was empty.
Release(t) ==
  LET d == Home[hand[t]]
  IN  /\ pc[t] = "release" /\ lock[d] = NoThread
      /\ ppool' = Push(ppool, d, hand[t])
      /\ bottom' = NextOf(ppool, d, hand[t])
      /\ Goto(t, "test")
      /\ UNCHANGED <<params, queue, lock, rx_queue, words, skbs, locals>>

\* Mutant: the queue is woken for every buffer but the first.
ReleaseTestOthers(t) ==
  /\ pc[t] = "test"
  /\ IF stopped[Home[hand[t]]] /\ hand[t] \notin bottom
       THEN Goto(t, "wake") /\ UNCHANGED hand
       ELSE Goto(t, "next") /\ hand' = Set(hand, t, NoPacket)
  /\ UNCHANGED <<params, queue, lock, lists, words, skbs, phase, word>>

ReleaseTest(t) ==
  /\ pc[t] = "test"
  /\ IF stopped[Home[hand[t]]] /\ hand[t] \in bottom
       THEN Goto(t, "wake") /\ UNCHANGED hand
       ELSE Goto(t, "next") /\ hand' = Set(hand, t, NoPacket)
  /\ UNCHANGED <<params, queue, lock, lists, words, skbs, phase, word>>

ReleaseWake(t) ==
  /\ pc[t] = "wake"
  /\ WakeQueue(Home[hand[t]])
  /\ hand' = Set(hand, t, NoPacket)
  /\ Goto(t, "next")
  /\ UNCHANGED <<params, up, scheduled, lock, lists, words, skbs, phase, word>>
-----------------------------------------------------------------------------
(***************************************************************************)
(* snull_hw_tx: raise the peer's receive interrupt, then one's own.        *)
(***************************************************************************)
CheckEnabled(t) ==
  /\ pc[t] = "check"
  /\ phase' = Set(phase, t, IF rx_int_enabled[Peer(t[1])] THEN "RX" ELSE "TX")
  /\ Goto(t, "load")
  /\ UNCHANGED <<params, queue, lock, lists, words, skbs, hand, word>>

\* priv->status |= ..., without the lock
StatusLoad(t) ==
  /\ pc[t] = "load"
  /\ word' = Set(word, t, status[Target(t)])
  /\ Goto(t, "store")
  /\ UNCHANGED <<params, queue, lock, lists, words, skbs, phase, hand>>

StatusStore(t) ==
  /\ pc[t] = "store"
  /\ status' = Set(status, Target(t), word[t] \cup {phase[t]})
  /\ word' = Set(word, t, {})
  /\ Goto(t, IF phase[t] = "TX" THEN "drop" ELSE "intr")
  /\ UNCHANGED <<params, queue, lock, lists, rx_int_enabled, skbs, phase, hand>>

Drops(d) == lockup # 0 /\ (sent[d] + 1) % lockup = 0

RaiseOwn(t) ==
  /\ pc[t] = "drop" /\ ~Drops(t[1])
  /\ Goto(t, "intr")
  /\ UNCHANGED <<params, queue, lock, lists, words, skbs, locals>>

DropInterrupt(t) ==
  /\ pc[t] = "drop" /\ Drops(t[1])
  /\ stopped' = Set(stopped, t[1], TRUE)
  /\ Back(t)
  /\ UNCHANGED <<params, up, scheduled, lock, lists, words, skbs>>
-----------------------------------------------------------------------------
(***************************************************************************)
(* The interrupt handlers.                                                 *)
(***************************************************************************)
\* Mutant: the handler does not take the lock.
InterruptUnlocked(t) ==
  /\ pc[t] = "intr"
  /\ word' = Set(word, t, status[Target(t)])
  /\ Goto(t, "handle")
  /\ UNCHANGED <<params, queue, lock, lists, words, skbs, phase, hand>>

Interrupt(t) ==
  /\ pc[t] = "intr" /\ lock[Target(t)] = NoThread
  /\ lock' = Set(lock, Target(t), t)
  /\ word' = Set(word, t, status[Target(t)])
  /\ Goto(t, "handle")
  /\ UNCHANGED <<params, queue, lists, words, skbs, phase, hand>>

\* A transmission is over: free the skb.
FreeSkb(t, d) ==
  IF "TX" \in word[t]
    THEN /\ sent' = Set(sent, d, IF lockup = 0 THEN 0 ELSE (sent[d] + 1) % lockup)
         /\ skb' = Set(skb, d, IF skb[d] = "sent" THEN "freed" ELSE "freed twice")
    ELSE UNCHANGED skbs

\* Mutant: the status word is not reset.
RegularInterruptAgain(t) ==
  LET d == Target(t)
      receives == "RX" \in word[t] /\ rx_queue[d] # <<>>
  IN  /\ pc[t] = "handle" /\ ~use_napi
      /\ IF receives
           THEN /\ hand' = Set(hand, t, Head(rx_queue[d]))
                /\ rx_queue' = Set(rx_queue, d, Tail(rx_queue[d]))
           ELSE UNCHANGED <<hand, rx_queue>>
      /\ FreeSkb(t, d)
      /\ lock' = Set(lock, d, NoThread)
      /\ word' = Set(word, t, {})
      /\ Goto(t, IF receives THEN "release" ELSE "next")
      /\ UNCHANGED <<params, queue, ppool, bottom, words, phase>>

\* Mutant: one interrupt is either for a reception or for a transmission.
RegularInterruptElse(t) ==
  LET d == Target(t)
      receives == "RX" \in word[t] /\ "TX" \notin word[t] /\ rx_queue[d] # <<>>
  IN  /\ pc[t] = "handle" /\ ~use_napi
      /\ status' = Set(status, d, {})
      /\ IF receives
           THEN /\ hand' = Set(hand, t, Head(rx_queue[d]))
                /\ rx_queue' = Set(rx_queue, d, Tail(rx_queue[d]))
           ELSE UNCHANGED <<hand, rx_queue>>
      /\ FreeSkb(t, d)
      /\ lock' = Set(lock, d, NoThread)
      /\ word' = Set(word, t, {})
      /\ Goto(t, IF receives THEN "release" ELSE "next")
      /\ UNCHANGED <<params, queue, ppool, bottom, rx_int_enabled, phase>>

\* snull_regular_interrupt: one packet is received, if there is one.
RegularInterrupt(t) ==
  LET d == Target(t)
      receives == "RX" \in word[t] /\ rx_queue[d] # <<>>
  IN  /\ pc[t] = "handle" /\ ~use_napi
      /\ status' = Set(status, d, {})
      /\ IF receives
           THEN /\ hand' = Set(hand, t, Head(rx_queue[d]))
                /\ rx_queue' = Set(rx_queue, d, Tail(rx_queue[d]))
           ELSE UNCHANGED <<hand, rx_queue>>
      /\ FreeSkb(t, d)
      /\ lock' = Set(lock, d, NoThread)
      /\ word' = Set(word, t, {})
      /\ Goto(t, IF receives THEN "release" ELSE "next")
      /\ UNCHANGED <<params, queue, ppool, bottom, rx_int_enabled, phase>>

\* snull_napi_interrupt: leave it to the poll.
NapiInterrupt(t) ==
  LET d == Target(t)
  IN  /\ pc[t] = "handle" /\ use_napi
      /\ status' = Set(status, d, {})
      /\ IF "RX" \in word[t]
           THEN /\ rx_int_enabled' = Set(rx_int_enabled, d, FALSE)
                /\ scheduled' = Set(scheduled, d, scheduled[d] \/ up[d])
           ELSE UNCHANGED <<rx_int_enabled, scheduled>>
      /\ FreeSkb(t, d)
      /\ lock' = Set(lock, d, NoThread)
      /\ word' = Set(word, t, {})
      /\ Goto(t, "next")
      /\ UNCHANGED <<params, up, stopped, lists, phase, hand>>

\* The interrupt has returned to whoever raised it.
AfterReceive(t) ==
  /\ pc[t] = "next" /\ phase[t] = "RX"
  /\ phase' = Set(phase, t, "TX")
  /\ Goto(t, "load")
  /\ UNCHANGED <<params, queue, lock, lists, words, skbs, hand, word>>

AfterTransmit(t) ==
  /\ pc[t] = "next" /\ phase[t] = "TX"
  /\ Back(t)
  /\ UNCHANGED <<params, queue, lock, lists, words, skbs>>

\* Mutant: the timeout forgets the queue.
AfterTimeoutStopped(t) ==
  /\ pc[t] = "next" /\ phase[t] = "timeout"
  /\ Back(t)
  /\ UNCHANGED <<params, queue, lock, lists, words, skbs>>

AfterTimeout(t) ==
  /\ pc[t] = "next" /\ phase[t] = "timeout"
  /\ WakeQueue(t[1])
  /\ Back(t)
  /\ UNCHANGED <<params, up, scheduled, lock, lists, words, skbs>>
-----------------------------------------------------------------------------
(***************************************************************************)
(* snull_poll.  The quota only makes the loop start again: each round ends *)
(* with the test of PollDone.                                              *)
(***************************************************************************)
PollDequeue(t) ==
  LET d == t[1]
  IN  /\ pc[t] = "loop" /\ rx_queue[d] # <<>> /\ lock[d] = NoThread
      /\ hand' = Set(hand, t, Head(rx_queue[d]))
      /\ rx_queue' = Set(rx_queue, d, Tail(rx_queue[d]))
      /\ Goto(t, "release")
      /\ UNCHANGED <<params, queue, lock, ppool, bottom, words, skbs, phase, word>>

PollNext(t) ==
  /\ t[2] = "poll" /\ pc[t] = "next"
  /\ Goto(t, "loop")
  /\ UNCHANGED <<params, queue, lock, lists, words, skbs, locals>>

\* Two tests, that a packet may come between: l. 294 and 320.
PollDone(t) ==
  /\ pc[t] = "loop" /\ rx_queue[t[1]] = <<>>
  /\ Goto(t, "complete")
  /\ UNCHANGED <<params, queue, lock, lists, words, skbs, locals>>

PollComplete(t) ==
  /\ pc[t] = "complete"
  /\ scheduled' = Set(scheduled, t[1], FALSE)
  /\ Goto(t, "enable")
  /\ UNCHANGED <<params, up, stopped, lock, lists, words, skbs, locals>>

PollEnable(t) ==
  /\ pc[t] = "enable"
  /\ rx_int_enabled' = Set(rx_int_enabled, t[1], TRUE)
  /\ Back(t)
  /\ UNCHANGED <<params, queue, lock, lists, status, skbs>>
-----------------------------------------------------------------------------
Rest(t) ==
  \/ Enqueue(t) \/ Release(t) \/ ReleaseTest(t) \/ ReleaseWake(t)
  \/ CheckEnabled(t) \/ StatusStore(t) \/ RaiseOwn(t) \/ DropInterrupt(t)
  \/ RegularInterrupt(t) \/ NapiInterrupt(t)
  \/ AfterReceive(t) \/ AfterTransmit(t) \/ AfterTimeout(t)
  \/ PollDequeue(t) \/ PollNext(t) \/ PollDone(t) \/ PollComplete(t) \/ PollEnable(t)

Step(t) == Get(t) \/ StatusLoad(t) \/ Interrupt(t) \/ Rest(t)

Kernel(d) == Open(d) \/ Stop(d) \/ Transmit(d) \/ Timeout(d) \/ Poll(d)

Next == (\E d \in Devs : Kernel(d)) \/ (\E t \in Threads : Step(t))

Spec == Init /\ [][Next]_vars

\* The same while both interfaces stay up and no queue is stopped for long.
RunningSpec ==
  Init /\ [][(\E d \in Devs : Transmit(d) \/ Poll(d)) \/ (\E t \in Threads : Step(t))]_vars

(***************************************************************************)
(* The usage the code needs.  The unlocked updates of a status word do not *)
(* run into one another; traffic goes one way while lockups are simulated, *)
(* and the timeout comes while the transmit interrupt is still missing and *)
(* a buffer is free; an interface is closed when nothing is on its way to  *)
(* it and opened when its pool is not empty.                               *)
(***************************************************************************)
Updating(d) == {t \in Threads : pc[t] \in {"store", "handle"} /\ Target(t) = d}
Waking(d) == \E t \in Threads : pc[t] \in {"test", "wake"} /\ Home[hand[t]] = d
Watched(p) == \E t \in Threads : pc[t] = "test" /\ hand[t] = p
Sender == CHOOSE d \in Devs : TRUE

QuietTimeout(d) ==
  status[d] = {"TX"} /\ Updating(d) = {} /\ ppool[d] # <<>> /\ ~Waking(d) /\ Timeout(d)

QuietStep(t) ==
  \/ Get(t) /\ ~Watched(hand'[t])
  \/ Updating(Target(t)) = {} /\ (StatusLoad(t) \/ Interrupt(t))
  \/ Rest(t)

QuietNext ==
  \/ \E d \in Devs :
       \/ ppool[d] # <<>> /\ ~Waking(d) /\ Open(d)
       \/ rx_queue[d] = <<>> /\ pc[<<Peer(d), "xmit">>] = "idle" /\ Stop(d)
       \/ (use_napi => up[Peer(d)]) /\ (lockup # 0 => d = Sender) /\ Transmit(d)
       \/ QuietTimeout(d) \/ Poll(d)
  \/ \E t \in Threads : QuietStep(t)

\* The kernel runs on whatever it started, the watchdog included, and who spins on
\* a lock gets it if it is free again and again: no holder sleeps with one.
Fairness ==
  /\ \A t \in Threads : SF_vars(QuietStep(t))
  /\ \A d \in Devs : WF_vars(QuietTimeout(d)) /\ WF_vars(Poll(d))

QuietSpec == Init /\ [][QuietNext]_vars /\ Fairness
-----------------------------------------------------------------------------
Labels == {"idle", "get", "enqueue", "release", "test", "wake", "check", "load", "store",
           "drop", "intr", "handle", "next", "loop", "complete", "enable"}

Typed ==
  /\ use_napi \in Napi /\ lockup \in Lockups
  /\ up \in [Devs -> BOOLEAN] /\ stopped \in [Devs -> BOOLEAN] /\ scheduled \in [Devs -> BOOLEAN]
  /\ lock \in [Devs -> Threads \cup {NoThread}]
  /\ ppool \in [Devs -> Seq(Packets)] /\ rx_queue \in [Devs -> Seq(Packets)]
  /\ bottom \subseteq Packets
  /\ rx_int_enabled \in [Devs -> BOOLEAN]
  /\ status \in [Devs -> SUBSET {"RX", "TX"}]
  /\ skb \in [Devs -> {"none", "sent", "freed", "freed twice"}]
  /\ sent \in [Devs -> Nat]
  /\ pc \in [Threads -> Labels]
  /\ phase \in [Threads -> {"none", "RX", "TX", "timeout"}]
  /\ hand \in [Threads -> Packets \cup {NoPacket}]
  /\ word \in [Threads -> SUBSET {"RX", "TX"}]
Hands ==
  \A t \in Threads : pc[t] \in {"enqueue", "release", "test", "wake"} => hand[t] \in Packets
LockOwner ==
  /\ \A t \in Threads : pc[t] = "handle" => lock[Target(t)] = t
  /\ \A d \in Devs : lock[d] # NoThread => pc[lock[d]] = "handle" /\ Target(lock[d]) = d

\* Every variable has its type, who uses a buffer points to one, and who is in a
\* handler, and nobody else, holds the lock of the device it was raised for.
TypeOK == Typed /\ Hands /\ LockOwner

\* A buffer is in one place at a time (snull.c:132-186): free in its own pool,
\* queued once on the peer, or held by one thread; so it never has two users and
\* none is lost.
Members(list, d) == {list[d][i] : i \in DOMAIN list[d]}
Distinct(list) ==
  \A d \in Devs : \A i, j \in DOMAIN list[d] : list[d][i] = list[d][j] => i = j
Holding(t) == pc[t] \in {"enqueue", "release"}
Held == {hand[t] : t \in {u \in Threads : Holding(u)}}
PacketsAccounted ==
  /\ Distinct(ppool) /\ Distinct(rx_queue)
  /\ \A d \in Devs : /\ \A p \in Members(ppool, d) : Home[p] = d
                     /\ \A p \in Members(rx_queue, d) : Home[p] = Peer(d)
  /\ \A t, u \in Threads : Holding(t) /\ Holding(u) /\ hand[t] = hand[u] => t = u
  /\ \A p \in Packets :
       LET d == Home[p]
       IN  /\ p \in Members(ppool, d) \cup Members(rx_queue, Peer(d)) \cup Held
           /\ ~(p \in Members(ppool, d) /\ p \in Members(rx_queue, Peer(d)))
           /\ ~(p \in Members(ppool, d) /\ p \in Held)
           /\ ~(p \in Members(rx_queue, Peer(d)) /\ p \in Held)

\* snull_get_tx_buffer follows no NULL pointer: whenever the queue runs there is
\* a free buffer (snull.c:132-161).
PoolNotEmpty == \A t \in Threads : pc[t] = "get" => ppool[t[1]] # <<>>

\* The queue stays stopped while a buffer is free only if a thread is about to
\* wake it or its transmit interrupt was dropped (snull.c:141, 159, 498).
QueueWoken ==
  \A d \in Devs : up[d] /\ stopped[d] /\ ppool[d] # <<>>
                    => Waking(d) \/ "TX" \in status[d] \/ pc[<<d, "xmit">>] # "idle"

\* And so a stopped queue starts again.  With NAPI the packets left behind by the
\* race of AllProcessed may be all there are.
QueueStarts ==
  \A d \in Devs : (~use_napi /\ up[d] /\ stopped[d]) ~> (~up[d] \/ ~stopped[d])

\* An skb is freed once (snull.c:369, 412).
SkbFreedOnce == \A d \in Devs : skb[d] # "freed twice"

\* Whenever a buffer is queued somebody is going to look at the queue: the thread
\* that raises the interrupt, an unread status word, or the poll.
Raising(d) ==
  \E t \in Threads : /\ t[1] = Peer(d)
                      /\ \/ pc[t] = "check" /\ rx_int_enabled[d]
                         \/ phase[t] = "RX" /\ pc[t] \in {"load", "store"}
Polling(d) == scheduled[d] /\ pc[<<d, "poll">>] # "complete"
Coming(d) ==
  \/ Raising(d) \/ Polling(d) \/ "RX" \in status[d]
  \/ \E t \in Threads : pc[t] = "handle" /\ Target(t) = d /\ "RX" \in word[t]

\* Without NAPI no packet is left behind, and as one is taken per interrupt they
\* stay in order though the queue is last in, first out (snull.c:169, 357-364).
PacketsFetched ==
  ~use_napi => \A d \in Devs : /\ Len(rx_queue[d]) <= 1
                                /\ rx_queue[d] # <<>> => Coming(d)

\* "If we processed all packets, we're done; tell the kernel and reenable ints"
\* (snull.c:317): with interrupts enabled, no packet is left behind.
AllProcessed ==
  \A d \in Devs : use_napi /\ rx_int_enabled[d] /\ rx_queue[d] # <<>> => Coming(d)
=============================================================================

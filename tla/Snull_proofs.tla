---------------------------- MODULE Snull_proofs ----------------------------
(***************************************************************************)
(* Proofs about Snull, for any two interfaces and any pools: every buffer  *)
(* is in one place, on every path the code can take; and in quiet use      *)
(* queues are stopped and woken as they should, skbs are freed once and    *)
(* packets are fetched.                                                    *)
(***************************************************************************)
EXTENDS Snull, TLAPS

\* A buffer on its way to the peer is from the sender's pool.
HandHome == \A t \in Threads : pc[t] = "enqueue" => Home[hand[t]] = t[1]

\* An interrupt is raised for a reception or for a transmission.
Raises == \A t \in Threads : pc[t] \in {"load", "store"} => phase[t] \in {"RX", "TX"}

IInv == TypeOK /\ PacketsAccounted /\ HandHome /\ Raises
-----------------------------------------------------------------------------
\* The peer of an interface is the other one.
LEMMA PeerFacts ==
  ASSUME NEW d \in Devs
  PROVE  Peer(d) \in Devs /\ Peer(d) # d /\ Peer(Peer(d)) = d
<1>1. PICK a, b \in Devs : a # b /\ Devs = {a, b}
  BY DevsAssumption
<1>2. \A x \in Devs : Peer(x) \in Devs /\ Peer(x) # x
  <2>1. TAKE x \in Devs
  <2>2. \E e \in Devs : e # x
    BY <1>1
  <2>3. QED
    BY <2>2 DEF Peer
<1>3. Peer(d) \in Devs /\ Peer(d) # d
  BY <1>2
<1>4. Peer(Peer(d)) \in Devs /\ Peer(Peer(d)) # Peer(d)
  BY <1>2, <1>3
<1>5. QED
  BY <1>1, <1>3, <1>4

\* A thread belongs to an interface.
LEMMA ThreadFacts ==
  /\ NoThread \notin Threads
  /\ \A t \in Threads : t[1] \in Devs
  /\ \A d \in Devs : /\ <<d, "xmit">> \in Threads /\ <<d, "poll">> \in Threads
                     /\ <<d, "xmit">>[1] = d /\ <<d, "poll">>[1] = d
BY DEF Threads, NoThread

\* An interrupt is raised for one of the two interfaces.
LEMMA TargetFacts ==
  ASSUME NEW t \in Threads PROVE Target(t) \in Devs
BY ThreadFacts, PeerFacts DEF Target

\* What tx_packets is counted modulo (snull.c:496).
LEMMA Remainder ==
  ASSUME NEW a \in Nat, NEW n \in Nat, n # 0 PROVE a % n \in Nat
OBVIOUS

\* A buffer put at the head of a list.
LEMMA PushFacts ==
  ASSUME NEW list \in [Devs -> Seq(Packets)], NEW d \in Devs, NEW p \in Packets
  PROVE  /\ Push(list, d, p) \in [Devs -> Seq(Packets)]
         /\ Members(Push(list, d, p), d) = {p} \cup Members(list, d)
         /\ \A e \in Devs \ {d} : Members(Push(list, d, p), e) = Members(list, e)
         /\ Distinct(list) /\ p \notin Members(list, d) => Distinct(Push(list, d, p))
<1> DEFINE s == list[d]
           r == <<p>> \o s
           new == Push(list, d, p)
<1>1. s \in Seq(Packets) /\ r \in Seq(Packets)
  OBVIOUS
<1>2. new \in [Devs -> Seq(Packets)] /\ new[d] = r /\ \A e \in Devs \ {d} : new[e] = list[e]
  BY <1>1 DEF Push, Set
<1>3. /\ Len(r) = Len(s) + 1 /\ DOMAIN r = 1..Len(s) + 1 /\ DOMAIN s = 1..Len(s) /\ Len(s) \in Nat
      /\ r[1] = p /\ \A i \in DOMAIN s : r[i + 1] = s[i]
      /\ \A i \in DOMAIN r \ {1} : i - 1 \in DOMAIN s /\ r[i] = s[i - 1]
  BY <1>1
<1>4. Members(new, d) = {p} \cup Members(list, d)
  <2>1. \A x \in Members(new, d) : x \in {p} \cup Members(list, d)
    <3>1. TAKE x \in Members(new, d)
    <3>2. PICK i \in DOMAIN r : x = r[i]
      BY <1>2 DEF Members
    <3>3. QED
      BY <1>3, <3>2 DEF Members
  <2>2. p \in Members(new, d)
    <3>1. 1 \in DOMAIN r /\ r[1] = p
      BY <1>3
    <3>2. QED
      BY <1>2, <3>1 DEF Members
  <2>3. \A x \in Members(list, d) : x \in Members(new, d)
    <3>1. TAKE x \in Members(list, d)
    <3>2. PICK i \in DOMAIN s : x = s[i]
      BY DEF Members
    <3>3. i + 1 \in DOMAIN r /\ r[i + 1] = x
      BY <1>3, <3>2
    <3>4. QED
      BY <1>2, <3>3 DEF Members
  <2>4. QED
    BY <2>1, <2>2, <2>3
<1>5. \A e \in Devs \ {d} : Members(new, e) = Members(list, e)
  BY <1>2 DEF Members
<1>6. ASSUME Distinct(list), p \notin Members(list, d) PROVE Distinct(new)
  <2>1. \A i, j \in DOMAIN s : s[i] = s[j] => i = j
    BY <1>6 DEF Distinct
  <2>2. \A i \in DOMAIN s : s[i] # p
    BY <1>6 DEF Members
  <2>3. \A i, j \in DOMAIN r : r[i] = r[j] => i = j
    <3>1. TAKE i, j \in DOMAIN r
    <3>2. HAVE r[i] = r[j]
    <3>3. CASE i = 1 \/ j = 1
      BY <1>3, <2>2, <3>2, <3>3
    <3>4. CASE i # 1 /\ j # 1
      <4>1. i - 1 = j - 1
        BY <1>3, <2>1, <3>2, <3>4
      <4>2. QED
        BY <1>3, <4>1
    <3>5. QED
      BY <3>3, <3>4
  <2>4. QED
    BY <1>2, <1>6, <2>3 DEF Distinct
<1>7. QED
  BY <1>2, <1>4, <1>5, <1>6

\* The head of a list taken off.
Popped(list, d) == Set(list, d, Tail(list[d]))

\* What is left is told apart from what came off.
LEMMA PopFacts ==
  ASSUME NEW list \in [Devs -> Seq(Packets)], NEW d \in Devs, list[d] # <<>>
  PROVE  /\ Popped(list, d) \in [Devs -> Seq(Packets)]
         /\ Head(list[d]) \in Packets
         /\ Members(list, d) = {Head(list[d])} \cup Members(Popped(list, d), d)
         /\ \A e \in Devs \ {d} : Members(Popped(list, d), e) = Members(list, e)
         /\ Distinct(list) => /\ Distinct(Popped(list, d))
                              /\ Head(list[d]) \notin Members(Popped(list, d), d)
<1> DEFINE s == list[d]
           r == Tail(s)
           new == Popped(list, d)
<1>1. s \in Seq(Packets) /\ s # <<>> /\ r \in Seq(Packets) /\ Head(s) \in Packets
  OBVIOUS
<1>2. new \in [Devs -> Seq(Packets)] /\ new[d] = r /\ \A e \in Devs \ {d} : new[e] = list[e]
  BY <1>1 DEF Popped, Set
<1>3. /\ Len(s) \in Nat \ {0} /\ DOMAIN s = 1..Len(s) /\ DOMAIN r = 1..Len(s) - 1
      /\ Head(s) = s[1]
      /\ \A i \in DOMAIN r : i + 1 \in DOMAIN s /\ r[i] = s[i + 1]
  BY <1>1
<1>4. Members(list, d) = {Head(s)} \cup Members(new, d)
  <2>1. \A x \in Members(list, d) : x \in {Head(s)} \cup Members(new, d)
    <3>1. TAKE x \in Members(list, d)
    <3>2. PICK i \in DOMAIN s : x = s[i]
      BY DEF Members
    <3>3. CASE i = 1
      BY <1>3, <3>2, <3>3
    <3>4. CASE i # 1
      <4>1. i - 1 \in DOMAIN r /\ r[i - 1] = x
        BY <1>3, <3>2, <3>4
      <4>2. QED
        BY <1>2, <4>1 DEF Members
    <3>5. QED
      BY <3>3, <3>4
  <2>2. Head(s) \in Members(list, d)
    BY <1>3 DEF Members
  <2>3. \A x \in Members(new, d) : x \in Members(list, d)
    <3>1. TAKE x \in Members(new, d)
    <3>2. PICK i \in DOMAIN r : x = r[i]
      BY <1>2 DEF Members
    <3>3. i + 1 \in DOMAIN s /\ s[i + 1] = x
      BY <1>3, <3>2
    <3>4. QED
      BY <3>3 DEF Members
  <2>4. QED
    BY <2>1, <2>2, <2>3
<1>5. \A e \in Devs \ {d} : Members(new, e) = Members(list, e)
  BY <1>2 DEF Members
<1>6. ASSUME Distinct(list) PROVE Distinct(new) /\ Head(s) \notin Members(new, d)
  <2>1. \A i, j \in DOMAIN s : s[i] = s[j] => i = j
    BY <1>6 DEF Distinct
  <2>2. \A i, j \in DOMAIN r : r[i] = r[j] => i = j
    <3>1. TAKE i, j \in DOMAIN r
    <3>2. HAVE r[i] = r[j]
    <3>3. i + 1 = j + 1
      BY <1>3, <2>1, <3>2
    <3>4. QED
      BY <1>3, <3>3
  <2>3. Distinct(new)
    BY <1>2, <1>6, <2>2 DEF Distinct
  <2>4. \A i \in DOMAIN r : r[i] # Head(s)
    <3>1. TAKE i \in DOMAIN r
    <3>2. 1 \in DOMAIN s /\ i + 1 # 1
      BY <1>3
    <3>3. QED
      BY <1>3, <2>1, <3>2
  <2>5. Head(s) \notin Members(new, d)
    BY <1>2, <2>4 DEF Members
  <2>6. QED
    BY <2>3, <2>5
<1>7. QED
  BY <1>1, <1>2, <1>4, <1>5, <1>6
-----------------------------------------------------------------------------
\* Every action keeps the types.
LEMMA TypedStep == IInv /\ [Next]_vars => Typed'
<1> SUFFICES ASSUME IInv, [Next]_vars PROVE Typed'
  OBVIOUS
<1> USE DEF Set, Goto, Labels, params, queue, lists, words, skbs, locals
<1>t. Typed /\ Hands /\ Raises
  BY DEF IInv, TypeOK
<1>f. ASSUME NEW t \in Threads, NEW d \in Devs, FreeSkb(t, d)
      PROVE  /\ skb' \in [Devs -> {"none", "sent", "freed", "freed twice"}]
             /\ sent' \in [Devs -> Nat]
  <2>1. lockup # 0 => (sent[d] + 1) % lockup \in Nat
    <3>1. sent[d] + 1 \in Nat /\ lockup \in Nat
      <4>1. sent \in [Devs -> Nat] /\ lockup \in Lockups
        BY <1>t DEF Typed
      <4>2. QED
        BY <4>1, ModeAssumption
    <3>2. QED
      BY <3>1, Remainder
  <2>2. CASE "TX" \in word[t]
    <3>1. sent' \in [Devs -> Nat]
      <4>1. (IF lockup = 0 THEN 0 ELSE (sent[d] + 1) % lockup) \in Nat
        BY <2>1
      <4>2. QED
        BY <1>t, <1>f, <2>2, <4>1 DEF Typed, FreeSkb
    <3>2. skb' \in [Devs -> {"none", "sent", "freed", "freed twice"}]
      <4>1. skb \in [Devs -> {"none", "sent", "freed", "freed twice"}]
        BY <1>t DEF Typed
      <4>2. skb' = [skb EXCEPT ![d] = IF skb[d] = "sent" THEN "freed" ELSE "freed twice"]
        BY <1>f, <2>2 DEF FreeSkb
      <4>3. QED
        BY <4>1, <4>2
    <3>3. QED
      BY <3>1, <3>2
  <2>3. CASE "TX" \notin word[t]
    BY <1>t, <1>f, <2>3 DEF Typed, FreeSkb
  <2>4. QED
    BY <2>2, <2>3
<1>1. CASE UNCHANGED vars
  BY <1>t, <1>1 DEF Typed, Hands, Raises, vars
<1>2. ASSUME NEW d \in Devs, Kernel(d) PROVE Typed'
  <2>1. CASE Open(d)
    BY <1>t, <2>1, ThreadFacts DEF Typed, Open
  <2>2. CASE Stop(d)
    BY <1>t, <2>2, ThreadFacts DEF Typed, Stop
  <2>3. CASE Transmit(d)
    BY <1>t, <2>3, ThreadFacts DEF Typed, Transmit
  <2>4. CASE Timeout(d)
    BY <1>t, <2>4, ThreadFacts DEF Typed, Timeout
  <2>5. CASE Poll(d)
    BY <1>t, <2>5, ThreadFacts DEF Typed, Poll
  <2>6. QED
    BY <1>2, <2>1, <2>2, <2>3, <2>4, <2>5 DEF Kernel
<1>3. ASSUME NEW t \in Threads, Step(t) PROVE Typed'
  <2>1. CASE Get(t)
    <3>1. /\ t[1] \in Devs /\ Popped(ppool, t[1]) \in [Devs -> Seq(Packets)]
          /\ Head(ppool[t[1]]) \in Packets
      BY <1>t, <2>1, ThreadFacts, PopFacts DEF Typed, Get
    <3>2. QED
      BY <1>t, <2>1, <3>1 DEF Typed, Get, Popped
  <2>2. CASE Enqueue(t)
    <3>1. hand[t] \in Packets /\ Peer(t[1]) \in Devs
      BY <1>t, <2>2, ThreadFacts, PeerFacts DEF Hands, Enqueue
    <3>2. /\ Push(rx_queue, Peer(t[1]), hand[t]) \in [Devs -> Seq(Packets)]
          /\ NextOf(rx_queue, Peer(t[1]), hand[t]) \subseteq Packets
      BY <1>t, <3>1, PushFacts DEF Typed, NextOf
    <3>3. QED
      BY <1>t, <2>2, <3>2 DEF Typed, Enqueue
  <2>3. CASE Release(t)
    <3>1. hand[t] \in Packets /\ Home[hand[t]] \in Devs
      BY <1>t, <2>3, PacketsAssumption DEF Hands, Release
    <3>2. /\ Push(ppool, Home[hand[t]], hand[t]) \in [Devs -> Seq(Packets)]
          /\ NextOf(ppool, Home[hand[t]], hand[t]) \subseteq Packets
      BY <1>t, <3>1, PushFacts DEF Typed, NextOf
    <3>3. QED
      BY <1>t, <2>3, <3>2 DEF Typed, Release
  <2>4. CASE ReleaseTest(t)
    <3>1. pc' = [pc EXCEPT ![t] = "wake"] \/ pc' = [pc EXCEPT ![t] = "next"]
      BY <2>4 DEF ReleaseTest
    <3>2. hand' = hand \/ hand' = [hand EXCEPT ![t] = NoPacket]
      BY <2>4 DEF ReleaseTest
    <3>3. pc' \in [Threads -> Labels] /\ hand' \in [Threads -> Packets \cup {NoPacket}]
      BY <1>t, <3>1, <3>2 DEF Typed
    <3>4. QED
      BY <1>t, <2>4, <3>3 DEF Typed, ReleaseTest
  <2>5. CASE ReleaseWake(t)
    BY <1>t, <2>5, PacketsAssumption DEF Typed, Hands, ReleaseWake, WakeQueue
  <2>6. CASE CheckEnabled(t)
    BY <1>t, <2>6 DEF Typed, CheckEnabled
  <2>7. CASE StatusLoad(t)
    BY <1>t, <2>7, TargetFacts DEF Typed, StatusLoad
  <2>8. CASE StatusStore(t)
    BY <1>t, <2>8, TargetFacts DEF Typed, Raises, StatusStore
  <2>9. CASE RaiseOwn(t)
    BY <1>t, <2>9 DEF Typed, RaiseOwn
  <2>10. CASE DropInterrupt(t)
    BY <1>t, <2>10, ThreadFacts DEF Typed, DropInterrupt, Back
  <2>11. CASE Interrupt(t)
    BY <1>t, <2>11, TargetFacts DEF Typed, Interrupt
  <2>12. CASE RegularInterrupt(t)
    <3>1. Target(t) \in Devs
      BY TargetFacts
    <3>2. skb' \in [Devs -> {"none", "sent", "freed", "freed twice"}] /\ sent' \in [Devs -> Nat]
      BY <1>t, <1>f, <2>12, <3>1 DEF Typed, RegularInterrupt
    <3>3. /\ hand' \in [Threads -> Packets \cup {NoPacket}]
          /\ rx_queue' \in [Devs -> Seq(Packets)]
      <4>1. CASE "RX" \in word[t] /\ rx_queue[Target(t)] # <<>>
        <5>1. /\ Popped(rx_queue, Target(t)) \in [Devs -> Seq(Packets)]
              /\ Head(rx_queue[Target(t)]) \in Packets
          BY <1>t, <3>1, <4>1, PopFacts DEF Typed
        <5>2. /\ hand' = [hand EXCEPT ![t] = Head(rx_queue[Target(t)])]
              /\ rx_queue' = Popped(rx_queue, Target(t))
          BY <2>12, <4>1 DEF RegularInterrupt, Popped
        <5>3. hand \in [Threads -> Packets \cup {NoPacket}]
          BY <1>t DEF Typed
        <5>4. QED
          BY <5>1, <5>2, <5>3
      <4>2. CASE ~("RX" \in word[t] /\ rx_queue[Target(t)] # <<>>)
        BY <1>t, <2>12, <4>2 DEF Typed, RegularInterrupt
      <4>3. QED
        BY <4>1, <4>2
    <3>4. pc' \in [Threads -> Labels]
      BY <1>t, <2>12 DEF Typed, RegularInterrupt
    <3>5. QED
      BY <1>t, <2>12, <3>1, <3>2, <3>3, <3>4 DEF Typed, RegularInterrupt
  <2>13. CASE NapiInterrupt(t)
    <3>1. Target(t) \in Devs
      BY TargetFacts
    <3>2. skb' \in [Devs -> {"none", "sent", "freed", "freed twice"}] /\ sent' \in [Devs -> Nat]
      BY <1>t, <1>f, <2>13, <3>1 DEF Typed, NapiInterrupt
    <3>3. scheduled' \in [Devs -> BOOLEAN] /\ rx_int_enabled' \in [Devs -> BOOLEAN]
      <4>1. CASE "RX" \in word[t]
        BY <1>t, <2>13, <3>1, <4>1 DEF Typed, NapiInterrupt
      <4>2. CASE "RX" \notin word[t]
        BY <1>t, <2>13, <4>2 DEF Typed, NapiInterrupt
      <4>3. QED
        BY <4>1, <4>2
    <3>4. QED
      BY <1>t, <2>13, <3>1, <3>2, <3>3 DEF Typed, NapiInterrupt
  <2>14. CASE AfterReceive(t)
    BY <1>t, <2>14 DEF Typed, AfterReceive
  <2>15. CASE AfterTransmit(t)
    BY <1>t, <2>15 DEF Typed, AfterTransmit, Back
  <2>16. CASE AfterTimeout(t)
    BY <1>t, <2>16, ThreadFacts DEF Typed, AfterTimeout, Back, WakeQueue
  <2>17. CASE PollDequeue(t)
    <3>1. /\ t[1] \in Devs /\ Popped(rx_queue, t[1]) \in [Devs -> Seq(Packets)]
          /\ Head(rx_queue[t[1]]) \in Packets
      BY <1>t, <2>17, ThreadFacts, PopFacts DEF Typed, PollDequeue
    <3>2. QED
      BY <1>t, <2>17, <3>1 DEF Typed, PollDequeue, Popped
  <2>18. CASE PollNext(t)
    BY <1>t, <2>18 DEF Typed, PollNext
  <2>19. CASE PollDone(t)
    BY <1>t, <2>19 DEF Typed, PollDone
  <2>20. CASE PollComplete(t)
    BY <1>t, <2>20, ThreadFacts DEF Typed, PollComplete
  <2>21. CASE PollEnable(t)
    BY <1>t, <2>21, ThreadFacts DEF Typed, PollEnable, Back
  <2>22. QED
    BY <1>3, <2>1, <2>2, <2>3, <2>4, <2>5, <2>6, <2>7, <2>8, <2>9, <2>10, <2>11, <2>12, <2>13,
       <2>14, <2>15, <2>16, <2>17, <2>18, <2>19, <2>20, <2>21 DEF Step, Rest
<1>4. QED
  BY <1>1, <1>2, <1>3 DEF Next

\* Whoever comes to use a buffer has one.
LEMMA HandsStep == IInv /\ [Next]_vars => Hands'
<1> SUFFICES ASSUME IInv, [Next]_vars PROVE Hands'
  OBVIOUS
<1> USE DEF Set, Goto, Labels, params, queue, lists, words, skbs, locals
<1>t. Typed /\ Hands
  BY DEF IInv, TypeOK
<1>p. /\ pc \in [Threads -> Labels] /\ phase \in [Threads -> {"none", "RX", "TX", "timeout"}]
      /\ hand \in [Threads -> Packets \cup {NoPacket}]
  BY <1>t DEF Typed
<1>1. CASE UNCHANGED vars
  BY <1>t, <1>p, <1>1 DEF Hands, vars
<1>2. ASSUME NEW d \in Devs, Kernel(d) PROVE Hands'
  <2>1. CASE Open(d)
    BY <1>t, <1>p, <2>1 DEF Hands, Open
  <2>2. CASE Stop(d)
    BY <1>t, <1>p, <2>2 DEF Hands, Stop
  <2>3. CASE Transmit(d)
    BY <1>t, <1>p, <2>3 DEF Hands, Transmit
  <2>4. CASE Timeout(d)
    BY <1>t, <1>p, <2>4 DEF Hands, Timeout
  <2>5. CASE Poll(d)
    BY <1>t, <1>p, <2>5 DEF Hands, Poll
  <2>6. QED
    BY <1>2, <2>1, <2>2, <2>3, <2>4, <2>5 DEF Kernel
<1>3. ASSUME NEW t \in Threads, Step(t) PROVE Hands'
  <2>1. CASE Get(t)
    <3>1. Head(ppool[t[1]]) \in Packets
      BY <1>t, <2>1, ThreadFacts, PopFacts DEF Typed, Get
    <3>2. QED
      BY <1>t, <1>p, <2>1, <3>1 DEF Hands, Get
  <2>2. CASE Enqueue(t)
    BY <1>t, <1>p, <2>2 DEF Hands, Enqueue
  <2>3. CASE Release(t)
    BY <1>t, <1>p, <2>3 DEF Hands, Release
  <2>4. CASE ReleaseTest(t)
    <3>1. CASE stopped[Home[hand[t]]] /\ hand[t] \in bottom
      BY <1>t, <1>p, <2>4, <3>1 DEF Hands, ReleaseTest
    <3>2. CASE ~(stopped[Home[hand[t]]] /\ hand[t] \in bottom)
      BY <1>t, <1>p, <2>4, <3>2 DEF Hands, ReleaseTest
    <3>3. QED
      BY <3>1, <3>2
  <2>5. CASE ReleaseWake(t)
    BY <1>t, <1>p, <2>5 DEF Hands, ReleaseWake, WakeQueue
  <2>6. CASE CheckEnabled(t)
    BY <1>t, <1>p, <2>6 DEF Hands, CheckEnabled
  <2>7. CASE StatusLoad(t)
    BY <1>t, <1>p, <2>7 DEF Hands, StatusLoad
  <2>8. CASE StatusStore(t)
    BY <1>t, <1>p, <2>8 DEF Hands, StatusStore
  <2>9. CASE RaiseOwn(t)
    BY <1>t, <1>p, <2>9 DEF Hands, RaiseOwn
  <2>10. CASE DropInterrupt(t)
    BY <1>t, <1>p, <2>10 DEF Hands, DropInterrupt, Back
  <2>11. CASE Interrupt(t)
    BY <1>t, <1>p, <2>11 DEF Hands, Interrupt
  <2>12. CASE RegularInterrupt(t)
    <3>1. Target(t) \in Devs
      BY TargetFacts
    <3>2. CASE "RX" \in word[t] /\ rx_queue[Target(t)] # <<>>
      <4>1. Head(rx_queue[Target(t)]) \in Packets
        BY <1>t, <3>1, <3>2, PopFacts DEF Typed
      <4>2. QED
        BY <1>t, <1>p, <2>12, <3>2, <4>1 DEF Hands, RegularInterrupt
    <3>3. CASE ~("RX" \in word[t] /\ rx_queue[Target(t)] # <<>>)
      BY <1>t, <1>p, <2>12, <3>3 DEF Hands, RegularInterrupt
    <3>4. QED
      BY <3>2, <3>3
  <2>13. CASE NapiInterrupt(t)
    BY <1>t, <1>p, <2>13 DEF Hands, NapiInterrupt
  <2>14. CASE AfterReceive(t)
    BY <1>t, <1>p, <2>14 DEF Hands, AfterReceive
  <2>15. CASE AfterTransmit(t)
    BY <1>t, <1>p, <2>15 DEF Hands, AfterTransmit, Back
  <2>16. CASE AfterTimeout(t)
    BY <1>t, <1>p, <2>16 DEF Hands, AfterTimeout, Back, WakeQueue
  <2>17. CASE PollDequeue(t)
    <3>1. Head(rx_queue[t[1]]) \in Packets
      BY <1>t, <2>17, ThreadFacts, PopFacts DEF Typed, PollDequeue
    <3>2. QED
      BY <1>t, <1>p, <2>17, <3>1 DEF Hands, PollDequeue
  <2>18. CASE PollNext(t)
    BY <1>t, <1>p, <2>18 DEF Hands, PollNext
  <2>19. CASE PollDone(t)
    BY <1>t, <1>p, <2>19 DEF Hands, PollDone
  <2>20. CASE PollComplete(t)
    BY <1>t, <1>p, <2>20 DEF Hands, PollComplete
  <2>21. CASE PollEnable(t)
    BY <1>t, <1>p, <2>21 DEF Hands, PollEnable, Back
  <2>22. QED
    BY <1>3, <2>1, <2>2, <2>3, <2>4, <2>5, <2>6, <2>7, <2>8, <2>9, <2>10, <2>11, <2>12, <2>13,
       <2>14, <2>15, <2>16, <2>17, <2>18, <2>19, <2>20, <2>21 DEF Step, Rest
<1>4. QED
  BY <1>1, <1>2, <1>3 DEF Next

\* Whoever comes to a status word has decided for which interrupt (snull.c:487-495).
LEMMA RaisesStep == IInv /\ [Next]_vars => Raises'
<1> SUFFICES ASSUME IInv, [Next]_vars PROVE Raises'
  OBVIOUS
<1> USE DEF Set, Goto, Labels, params, queue, lists, words, skbs, locals
<1>t. Typed /\ Raises
  BY DEF IInv, TypeOK
<1>p. /\ pc \in [Threads -> Labels] /\ phase \in [Threads -> {"none", "RX", "TX", "timeout"}]
      /\ hand \in [Threads -> Packets \cup {NoPacket}]
  BY <1>t DEF Typed
<1>1. CASE UNCHANGED vars
  BY <1>t, <1>p, <1>1 DEF Raises, vars
<1>2. ASSUME NEW d \in Devs, Kernel(d) PROVE Raises'
  <2>1. CASE Open(d)
    BY <1>t, <1>p, <2>1 DEF Raises, Open
  <2>2. CASE Stop(d)
    BY <1>t, <1>p, <2>2 DEF Raises, Stop
  <2>3. CASE Transmit(d)
    BY <1>t, <1>p, <2>3 DEF Raises, Transmit
  <2>4. CASE Timeout(d)
    BY <1>t, <1>p, <2>4 DEF Raises, Timeout
  <2>5. CASE Poll(d)
    BY <1>t, <1>p, <2>5 DEF Raises, Poll
  <2>6. QED
    BY <1>2, <2>1, <2>2, <2>3, <2>4, <2>5 DEF Kernel
<1>3. ASSUME NEW t \in Threads, Step(t) PROVE Raises'
  <2>1. CASE Get(t)
    BY <1>t, <1>p, <2>1 DEF Raises, Get
  <2>2. CASE Enqueue(t)
    BY <1>t, <1>p, <2>2 DEF Raises, Enqueue
  <2>3. CASE Release(t)
    BY <1>t, <1>p, <2>3 DEF Raises, Release
  <2>4. CASE ReleaseTest(t)
    <3>1. phase' = phase /\ \A u \in Threads : pc'[u] \in {"load", "store"} => pc[u] = pc'[u]
      <4>1. pc' = [pc EXCEPT ![t] = "wake"] \/ pc' = [pc EXCEPT ![t] = "next"]
        BY <2>4 DEF ReleaseTest
      <4>2. pc \in [Threads -> Labels] /\ phase' = phase
        BY <1>t, <1>p, <2>4 DEF ReleaseTest
      <4>3. QED
        BY <4>1, <4>2
    <3>2. QED
      BY <1>t, <3>1 DEF Raises
  <2>5. CASE ReleaseWake(t)
    BY <1>t, <1>p, <2>5 DEF Raises, ReleaseWake, WakeQueue
  <2>6. CASE CheckEnabled(t)
    BY <1>t, <1>p, <2>6 DEF Raises, CheckEnabled
  <2>7. CASE StatusLoad(t)
    BY <1>t, <1>p, <2>7 DEF Raises, StatusLoad
  <2>8. CASE StatusStore(t)
    BY <1>t, <1>p, <2>8 DEF Raises, StatusStore
  <2>9. CASE RaiseOwn(t)
    BY <1>t, <1>p, <2>9 DEF Raises, RaiseOwn
  <2>10. CASE DropInterrupt(t)
    BY <1>t, <1>p, <2>10 DEF Raises, DropInterrupt, Back
  <2>11. CASE Interrupt(t)
    BY <1>t, <1>p, <2>11 DEF Raises, Interrupt
  <2>12. CASE RegularInterrupt(t)
    BY <1>t, <1>p, <2>12 DEF Raises, RegularInterrupt
  <2>13. CASE NapiInterrupt(t)
    BY <1>t, <1>p, <2>13 DEF Raises, NapiInterrupt
  <2>14. CASE AfterReceive(t)
    BY <1>t, <1>p, <2>14 DEF Raises, AfterReceive
  <2>15. CASE AfterTransmit(t)
    BY <1>t, <1>p, <2>15 DEF Raises, AfterTransmit, Back
  <2>16. CASE AfterTimeout(t)
    BY <1>t, <1>p, <2>16 DEF Raises, AfterTimeout, Back, WakeQueue
  <2>17. CASE PollDequeue(t)
    BY <1>t, <1>p, <2>17 DEF Raises, PollDequeue
  <2>18. CASE PollNext(t)
    BY <1>t, <1>p, <2>18, ThreadFacts DEF Raises, PollNext
  <2>19. CASE PollDone(t)
    BY <1>t, <1>p, <2>19 DEF Raises, PollDone
  <2>20. CASE PollComplete(t)
    BY <1>t, <1>p, <2>20 DEF Raises, PollComplete
  <2>21. CASE PollEnable(t)
    BY <1>t, <1>p, <2>21 DEF Raises, PollEnable, Back
  <2>22. QED
    BY <1>3, <2>1, <2>2, <2>3, <2>4, <2>5, <2>6, <2>7, <2>8, <2>9, <2>10, <2>11, <2>12, <2>13,
       <2>14, <2>15, <2>16, <2>17, <2>18, <2>19, <2>20, <2>21 DEF Step, Rest
<1>4. QED
  BY <1>1, <1>2, <1>3 DEF Next

\* A step of thread t that takes and drops no lock.
Apart(t) ==
  /\ lock' = lock
  /\ pc[t] # "handle" /\ pc'[t] # "handle"
  /\ \A u \in Threads \ {t} : pc'[u] = pc[u] /\ phase'[u] = phase[u]

\* Such a step leaves the holders as they are.
LEMMA LockKept == \A t \in Threads : Typed /\ LockOwner /\ Apart(t) => LockOwner'
<1> SUFFICES ASSUME NEW t \in Threads, Typed, LockOwner, Apart(t) PROVE LockOwner'
  OBVIOUS
<1>1. \A u \in Threads : pc'[u] = "handle" => pc[u] = "handle" /\ Target(u)' = Target(u)
  BY DEF Apart, Target
<1>2. \A u \in Threads : pc[u] = "handle" => pc'[u] = "handle"
  BY DEF Apart
<1>3. \A u \in Threads : pc'[u] = "handle" => lock'[Target(u)'] = u
  BY <1>1 DEF LockOwner, Apart
<1>4. ASSUME NEW d \in Devs, lock'[d] # NoThread
      PROVE  (pc[lock[d]] = "handle" /\ Target(lock[d]) = d)'
  <2>1. lock'[d] = lock[d] /\ lock[d] \in Threads
    BY <1>4 DEF Apart, Typed
  <2>2. pc[lock[d]] = "handle" /\ Target(lock[d]) = d
    BY <1>4, <2>1 DEF LockOwner
  <2>3. QED
    BY <1>1, <1>2, <2>1, <2>2
<1>5. QED
  BY <1>3, <1>4 DEF LockOwner, Target

\* A step of thread t out of a handler.
Leaves(t) ==
  /\ lock' = [lock EXCEPT ![Target(t)] = NoThread]
  /\ pc[t] = "handle" /\ pc'[t] # "handle"
  /\ \A u \in Threads \ {t} : pc'[u] = pc[u]
  /\ phase' = phase

\* And such a step takes away the one holder that is no longer in a handler.
LEMMA LockDropped == \A t \in Threads : Typed /\ LockOwner /\ Leaves(t) => LockOwner'
<1> SUFFICES ASSUME NEW t \in Threads, Typed, LockOwner, Leaves(t) PROVE LockOwner'
  OBVIOUS
<1>1. Target(t) \in Devs /\ lock[Target(t)] = t /\ lock \in [Devs -> Threads \cup {NoThread}]
  BY TargetFacts DEF LockOwner, Leaves, Typed
<1>2. \A u \in Threads : Target(u)' = Target(u) /\ Target(u) \in Devs
  BY TargetFacts DEF Leaves, Target
<1>3. ASSUME NEW u \in Threads, pc'[u] = "handle" PROVE lock'[Target(u)'] = u
  <2>1. u # t /\ lock[Target(u)] = u
    BY <1>3 DEF LockOwner, Leaves
  <2>2. Target(u) # Target(t)
    BY <1>1, <2>1
  <2>3. QED
    BY <1>1, <1>2, <2>1, <2>2 DEF Leaves
<1>4. ASSUME NEW d \in Devs, lock'[d] # NoThread
      PROVE  (pc[lock[d]] = "handle" /\ Target(lock[d]) = d)'
  <2>1. d # Target(t) /\ lock'[d] = lock[d] /\ lock[d] \in Threads
    BY <1>1, <1>4 DEF Leaves
  <2>2. pc[lock[d]] = "handle" /\ Target(lock[d]) = d
    BY <1>4, <2>1 DEF LockOwner
  <2>3. lock[d] # t
    BY <2>1, <2>2
  <2>4. QED
    BY <1>2, <2>1, <2>2, <2>3 DEF Leaves
<1>5. QED
  BY <1>3, <1>4 DEF LockOwner, Target

\* Only Interrupt takes a lock, which is free then, and only the two handlers drop
\* one, their own.
LEMMA LockOwnerStep == IInv /\ [Next]_vars => LockOwner'
<1> SUFFICES ASSUME IInv, [Next]_vars PROVE LockOwner'
  OBVIOUS
<1> USE DEF Set, Goto, Labels, params, queue, lists, words, skbs, locals
<1>t. Typed /\ LockOwner
  BY DEF IInv, TypeOK
<1>p. /\ pc \in [Threads -> Labels] /\ phase \in [Threads -> {"none", "RX", "TX", "timeout"}]
      /\ hand \in [Threads -> Packets \cup {NoPacket}]
  BY <1>t DEF Typed
<1>1. CASE UNCHANGED vars
  BY <1>t, <1>p, <1>1 DEF LockOwner, Target, vars
<1>2. ASSUME NEW d \in Devs, Kernel(d) PROVE LockOwner'
  <2>1. CASE Open(d)
    BY <1>t, <1>p, <2>1 DEF LockOwner, Target, Open
  <2>2. CASE Stop(d)
    BY <1>t, <1>p, <2>2 DEF LockOwner, Target, Stop
  <2>3. CASE Transmit(d)
    <3>1. Apart(<<d, "xmit">>)
      BY <1>t, <1>p, <2>3, ThreadFacts DEF Apart, Transmit
    <3>2. QED
      BY <1>t, <3>1, LockKept, ThreadFacts
  <2>4. CASE Timeout(d)
    <3>1. Apart(<<d, "xmit">>)
      BY <1>t, <1>p, <2>4, ThreadFacts DEF Apart, Timeout
    <3>2. QED
      BY <1>t, <3>1, LockKept, ThreadFacts
  <2>5. CASE Poll(d)
    <3>1. Apart(<<d, "poll">>)
      BY <1>t, <1>p, <2>5, ThreadFacts DEF Apart, Poll
    <3>2. QED
      BY <1>t, <3>1, LockKept, ThreadFacts
  <2>6. QED
    BY <1>2, <2>1, <2>2, <2>3, <2>4, <2>5 DEF Kernel
<1>3. ASSUME NEW t \in Threads, Step(t) PROVE LockOwner'
  <2>1. CASE Get(t)
    <3>1. Apart(t)
      BY <1>t, <1>p, <2>1 DEF Apart, Get
    <3>2. QED
      BY <1>t, <3>1, LockKept
  <2>2. CASE Enqueue(t)
    <3>1. Apart(t)
      BY <1>t, <1>p, <2>2 DEF Apart, Enqueue
    <3>2. QED
      BY <1>t, <3>1, LockKept
  <2>3. CASE Release(t)
    <3>1. Apart(t)
      BY <1>t, <1>p, <2>3 DEF Apart, Release
    <3>2. QED
      BY <1>t, <3>1, LockKept
  <2>4. CASE ReleaseTest(t)
    <3>1. Apart(t)
      BY <1>t, <1>p, <2>4 DEF Apart, ReleaseTest
    <3>2. QED
      BY <1>t, <3>1, LockKept
  <2>5. CASE ReleaseWake(t)
    <3>1. Apart(t)
      BY <1>t, <1>p, <2>5 DEF Apart, ReleaseWake
    <3>2. QED
      BY <1>t, <3>1, LockKept
  <2>6. CASE CheckEnabled(t)
    <3>1. Apart(t)
      BY <1>t, <1>p, <2>6 DEF Apart, CheckEnabled
    <3>2. QED
      BY <1>t, <3>1, LockKept
  <2>7. CASE StatusLoad(t)
    <3>1. Apart(t)
      BY <1>t, <1>p, <2>7 DEF Apart, StatusLoad
    <3>2. QED
      BY <1>t, <3>1, LockKept
  <2>8. CASE StatusStore(t)
    <3>1. Apart(t)
      BY <1>t, <1>p, <2>8 DEF Apart, StatusStore
    <3>2. QED
      BY <1>t, <3>1, LockKept
  <2>9. CASE RaiseOwn(t)
    <3>1. Apart(t)
      BY <1>t, <1>p, <2>9 DEF Apart, RaiseOwn
    <3>2. QED
      BY <1>t, <3>1, LockKept
  <2>10. CASE DropInterrupt(t)
    <3>1. Apart(t)
      BY <1>t, <1>p, <2>10 DEF Apart, DropInterrupt, Back
    <3>2. QED
      BY <1>t, <3>1, LockKept
  <2>11. CASE Interrupt(t)
    <3>1. /\ Target(t) \in Devs /\ lock[Target(t)] = NoThread /\ pc[t] = "intr"
          /\ lock \in [Devs -> Threads \cup {NoThread}] /\ pc \in [Threads -> Labels]
          /\ lock' = [lock EXCEPT ![Target(t)] = t] /\ pc' = [pc EXCEPT ![t] = "handle"]
      BY <1>t, <2>11, TargetFacts DEF Interrupt, Typed
    <3>2. \A u \in Threads : Target(u)' = Target(u) /\ Target(u) \in Devs
      BY <2>11, TargetFacts DEF Interrupt, Target
    <3>3. ASSUME NEW u \in Threads, pc'[u] = "handle" PROVE lock'[Target(u)'] = u
      <4>1. CASE u = t
        BY <3>1, <3>2, <4>1
      <4>2. CASE u # t
        <5>1. lock[Target(u)] = u
          BY <1>t, <3>1, <3>3, <4>2 DEF LockOwner
        <5>2. Target(u) # Target(t)
          BY <3>1, <5>1, ThreadFacts
        <5>3. QED
          BY <3>1, <3>2, <5>1, <5>2
      <4>3. QED
        BY <4>1, <4>2
    <3>4. ASSUME NEW d \in Devs, lock'[d] # NoThread
          PROVE  (pc[lock[d]] = "handle" /\ Target(lock[d]) = d)'
      <4>1. CASE d = Target(t)
        BY <3>1, <3>2, <4>1
      <4>2. CASE d # Target(t)
        <5>1. lock'[d] = lock[d] /\ lock[d] \in Threads
          BY <3>1, <3>4, <4>2
        <5>2. pc[lock[d]] = "handle" /\ Target(lock[d]) = d
          BY <1>t, <3>4, <5>1 DEF LockOwner
        <5>3. QED
          BY <3>1, <3>2, <5>1, <5>2
      <4>3. QED
        BY <4>1, <4>2
    <3>5. QED
      BY <3>3, <3>4 DEF LockOwner, Target
  <2>12. CASE RegularInterrupt(t)
    <3>1. Leaves(t)
      BY <1>t, <1>p, <2>12 DEF Leaves, RegularInterrupt
    <3>2. QED
      BY <1>t, <3>1, LockDropped
  <2>13. CASE NapiInterrupt(t)
    <3>1. Leaves(t)
      BY <1>t, <1>p, <2>13 DEF Leaves, NapiInterrupt
    <3>2. QED
      BY <1>t, <3>1, LockDropped
  <2>14. CASE AfterReceive(t)
    <3>1. Apart(t)
      BY <1>t, <1>p, <2>14 DEF Apart, AfterReceive
    <3>2. QED
      BY <1>t, <3>1, LockKept
  <2>15. CASE AfterTransmit(t)
    <3>1. Apart(t)
      BY <1>t, <1>p, <2>15 DEF Apart, AfterTransmit, Back
    <3>2. QED
      BY <1>t, <3>1, LockKept
  <2>16. CASE AfterTimeout(t)
    <3>1. Apart(t)
      BY <1>t, <1>p, <2>16 DEF Apart, AfterTimeout, Back
    <3>2. QED
      BY <1>t, <3>1, LockKept
  <2>17. CASE PollDequeue(t)
    <3>1. Apart(t)
      BY <1>t, <1>p, <2>17 DEF Apart, PollDequeue
    <3>2. QED
      BY <1>t, <3>1, LockKept
  <2>18. CASE PollNext(t)
    <3>1. Apart(t)
      BY <1>t, <1>p, <2>18 DEF Apart, PollNext
    <3>2. QED
      BY <1>t, <3>1, LockKept
  <2>19. CASE PollDone(t)
    <3>1. Apart(t)
      BY <1>t, <1>p, <2>19 DEF Apart, PollDone
    <3>2. QED
      BY <1>t, <3>1, LockKept
  <2>20. CASE PollComplete(t)
    <3>1. Apart(t)
      BY <1>t, <1>p, <2>20 DEF Apart, PollComplete
    <3>2. QED
      BY <1>t, <3>1, LockKept
  <2>21. CASE PollEnable(t)
    <3>1. Apart(t)
      BY <1>t, <1>p, <2>21 DEF Apart, PollEnable, Back
    <3>2. QED
      BY <1>t, <3>1, LockKept
  <2>22. QED
    BY <1>3, <2>1, <2>2, <2>3, <2>4, <2>5, <2>6, <2>7, <2>8, <2>9, <2>10, <2>11, <2>12, <2>13,
       <2>14, <2>15, <2>16, <2>17, <2>18, <2>19, <2>20, <2>21 DEF Step, Rest
<1>4. QED
  BY <1>1, <1>2, <1>3 DEF Next

-----------------------------------------------------------------------------
(***************************************************************************)
(* Where the buffers are.                                                  *)
(***************************************************************************)
\* What a step leaves alone that moves no buffer.
Still ==
  /\ ppool' = ppool /\ rx_queue' = rx_queue
  /\ \A u \in Threads : /\ (pc'[u] = "enqueue") <=> (pc[u] = "enqueue")
                        /\ (pc'[u] = "release") <=> (pc[u] = "release")
                        /\ pc[u] \in {"enqueue", "release"} => hand'[u] = hand[u]

\* Nothing moves, so nothing is lost.
LEMMA StillAccounted ==
  PacketsAccounted /\ HandHome /\ Still => PacketsAccounted' /\ HandHome'
<1> SUFFICES ASSUME PacketsAccounted, HandHome, Still PROVE PacketsAccounted' /\ HandHome'
  OBVIOUS
<1>1. \A u \in Threads : (Holding(u)' <=> Holding(u)) /\ (Holding(u) => hand'[u] = hand[u])
  BY DEF Still, Holding
<1>2. Held' = Held
  BY <1>1 DEF Held
<1>3. HandHome'
  BY DEF HandHome, Still
<1>4. PacketsAccounted'
  BY <1>1, <1>2 DEF PacketsAccounted, Still
<1>5. QED
  BY <1>3, <1>4

\* Thread t, with empty hands, takes buffer p.
Takes(t, p) ==
  /\ ~Holding(t) /\ Holding(t)' /\ hand'[t] = p
  /\ \A u \in Threads \ {t} : (Holding(u)' <=> Holding(u)) /\ hand'[u] = hand[u]

\* Thread t puts down the buffer it holds.
Puts(t) ==
  /\ Holding(t) /\ ~Holding(t)'
  /\ \A u \in Threads \ {t} : (Holding(u)' <=> Holding(u)) /\ hand'[u] = hand[u]

Alone == \A t, u \in Threads : Holding(t) /\ Holding(u) /\ hand[t] = hand[u] => t = u

\* Then it is held besides the others, by that thread alone.
LEMMA HeldTaken ==
  \A t \in Threads, p \in Packets :
    Takes(t, p) /\ Alone /\ p \notin Held => Held' = Held \cup {p} /\ Alone'
<1> SUFFICES ASSUME NEW t \in Threads, NEW p \in Packets, Takes(t, p), Alone, p \notin Held
             PROVE  Held' = Held \cup {p} /\ Alone'
  OBVIOUS
<1>1. \A x \in Held' : x \in Held \cup {p}
  BY DEF Held, Takes
<1>2. p \in Held'
  BY DEF Held, Takes
<1>3. \A x \in Held : x \in Held'
  <2>1. TAKE x \in Held
  <2>2. PICK u \in Threads : Holding(u) /\ x = hand[u]
    BY DEF Held
  <2>3. u # t /\ Holding(u)' /\ hand'[u] = x
    BY <2>2 DEF Takes
  <2>4. QED
    BY <2>3 DEF Held
<1>4. \A u \in Threads : Holding(u) => hand[u] # p
  BY DEF Held
<1>5. Alone'
  BY <1>4 DEF Alone, Takes
<1>6. QED
  BY <1>1, <1>2, <1>3, <1>5

\* Then that one, and no other, is no longer held.
LEMMA HeldPut ==
  \A t \in Threads : Puts(t) /\ Alone => hand[t] \in Held /\ Held' = Held \ {hand[t]} /\ Alone'
<1> SUFFICES ASSUME NEW t \in Threads, Puts(t), Alone
             PROVE  hand[t] \in Held /\ Held' = Held \ {hand[t]} /\ Alone'
  OBVIOUS
<1>1. \A x \in Held' : x \in Held /\ x # hand[t]
  <2>1. TAKE x \in Held'
  <2>2. PICK u \in Threads : Holding(u)' /\ x = hand'[u]
    BY DEF Held
  <2>3. u # t /\ Holding(u) /\ hand[u] = x
    BY <2>2 DEF Puts
  <2>4. QED
    BY <2>3 DEF Held, Alone, Puts
<1>2. \A x \in Held : x # hand[t] => x \in Held'
  <2>1. TAKE x \in Held
  <2>2. PICK u \in Threads : Holding(u) /\ x = hand[u]
    BY DEF Held
  <2>3. HAVE x # hand[t]
  <2>4. u # t /\ Holding(u)' /\ hand'[u] = x
    BY <2>2, <2>3 DEF Puts
  <2>5. QED
    BY <2>4 DEF Held
<1>3. hand[t] \in Held
  BY DEF Held, Puts
<1>4. Alone'
  BY DEF Alone, Puts
<1>5. QED
  BY <1>1, <1>2, <1>3, <1>4

\* A free buffer is taken from the pool.
LEMMA TakeFree ==
  ASSUME Typed, PacketsAccounted,
         NEW t \in Threads, NEW d \in Devs, ppool[d] # <<>>,
         ppool' = Popped(ppool, d), rx_queue' = rx_queue, Takes(t, Head(ppool[d]))
  PROVE  PacketsAccounted' /\ Home[Head(ppool[d])] = d
<1> DEFINE p == Head(ppool[d])
<1>1. /\ p \in Packets
      /\ Members(ppool, d) = {p} \cup Members(ppool', d)
      /\ \A e \in Devs \ {d} : Members(ppool', e) = Members(ppool, e)
      /\ Distinct(ppool') /\ p \notin Members(ppool', d)
  <2>1. ppool \in [Devs -> Seq(Packets)] /\ Distinct(ppool)
    BY DEF PacketsAccounted, Typed
  <2>2. QED
    BY <2>1, PopFacts
<1>2. Home[p] = d /\ Alone
  BY <1>1 DEF PacketsAccounted, Alone
<1>3. p \notin Held /\ p \notin Members(rx_queue, Peer(d))
  BY <1>1, <1>2 DEF PacketsAccounted
<1>4. Held' = Held \cup {p} /\ Alone'
  BY <1>1, <1>2, <1>3, HeldTaken
<1>5. \A e \in Devs : Members(ppool', e) \subseteq Members(ppool, e)
  BY <1>1
<1>6. \A q \in Packets : /\ Home[q] \in Devs
                         /\ q \in Members(ppool', Home[q]) <=> q \in Members(ppool, Home[q]) /\ q # p
  BY <1>1, <1>2, PacketsAssumption
<1>7. QED
  BY <1>1, <1>2, <1>3, <1>4, <1>5, <1>6 DEF PacketsAccounted, Alone

\* A buffer that came in is taken from the receive queue.
LEMMA TakeReceived ==
  ASSUME Typed, PacketsAccounted,
         NEW t \in Threads, NEW d \in Devs, rx_queue[d] # <<>>,
         rx_queue' = Popped(rx_queue, d), ppool' = ppool, Takes(t, Head(rx_queue[d]))
  PROVE  PacketsAccounted'
<1> DEFINE p == Head(rx_queue[d])
<1>1. /\ p \in Packets
      /\ Members(rx_queue, d) = {p} \cup Members(rx_queue', d)
      /\ \A e \in Devs \ {d} : Members(rx_queue', e) = Members(rx_queue, e)
      /\ Distinct(rx_queue') /\ p \notin Members(rx_queue', d)
  <2>1. rx_queue \in [Devs -> Seq(Packets)] /\ Distinct(rx_queue)
    BY DEF PacketsAccounted, Typed
  <2>2. QED
    BY <2>1, PopFacts
<1>2. Home[p] = Peer(d) /\ Peer(Peer(d)) = d /\ Alone
  BY <1>1, PeerFacts DEF PacketsAccounted, Alone
<1>3. p \notin Held /\ p \notin Members(ppool, Home[p])
  BY <1>1, <1>2 DEF PacketsAccounted
<1>4. Held' = Held \cup {p} /\ Alone'
  BY <1>1, <1>2, <1>3, HeldTaken
<1>5. \A e \in Devs : Members(rx_queue', e) \subseteq Members(rx_queue, e)
  BY <1>1
<1>6. \A q \in Packets :
        q \in Members(rx_queue', Peer(Home[q])) <=> q \in Members(rx_queue, Peer(Home[q])) /\ q # p
  BY <1>1, <1>2, PacketsAssumption, PeerFacts
<1>7. QED
  BY <1>1, <1>2, <1>3, <1>4, <1>5, <1>6 DEF PacketsAccounted, Alone

\* A buffer is given back to its pool.
LEMMA PutFree ==
  ASSUME Typed, PacketsAccounted, NEW t \in Threads, hand[t] \in Packets,
         ppool' = Push(ppool, Home[hand[t]], hand[t]), rx_queue' = rx_queue, Puts(t)
  PROVE  PacketsAccounted'
<1> DEFINE p == hand[t]
           d == Home[p]
<1>1. d \in Devs /\ Alone
  BY PacketsAssumption DEF PacketsAccounted, Alone
<1>2. p \in Held /\ Held' = Held \ {p} /\ Alone'
  BY <1>1, HeldPut
<1>3. p \notin Members(ppool, d) /\ p \notin Members(rx_queue, Peer(d))
  BY <1>2 DEF PacketsAccounted
<1>4. /\ Members(ppool', d) = {p} \cup Members(ppool, d)
      /\ \A e \in Devs \ {d} : Members(ppool', e) = Members(ppool, e)
      /\ Distinct(ppool')
  <2>1. ppool \in [Devs -> Seq(Packets)] /\ Distinct(ppool)
    BY DEF PacketsAccounted, Typed
  <2>2. QED
    BY <1>1, <1>3, <2>1, PushFacts
<1>5. \A e \in Devs : \A q \in Members(ppool', e) : Home[q] = e
  BY <1>4 DEF PacketsAccounted
<1>6. \A q \in Packets : /\ Home[q] \in Devs
                         /\ q \in Members(ppool', Home[q]) <=> q \in Members(ppool, Home[q]) \/ q = p
  BY <1>1, <1>4, PacketsAssumption
<1>7. QED
  BY <1>2, <1>3, <1>4, <1>5, <1>6 DEF PacketsAccounted, Alone

\* A buffer is queued on the peer.
LEMMA PutReceived ==
  ASSUME Typed, PacketsAccounted, NEW t \in Threads, hand[t] \in Packets,
         rx_queue' = Push(rx_queue, Peer(Home[hand[t]]), hand[t]), ppool' = ppool, Puts(t)
  PROVE  PacketsAccounted'
<1> DEFINE p == hand[t]
           d == Peer(Home[p])
<1>1. d \in Devs /\ Peer(d) = Home[p] /\ Alone
  BY PacketsAssumption, PeerFacts DEF PacketsAccounted, Alone
<1>2. p \in Held /\ Held' = Held \ {p} /\ Alone'
  BY <1>1, HeldPut
<1>3. p \notin Members(ppool, Home[p]) /\ p \notin Members(rx_queue, d)
  BY <1>2 DEF PacketsAccounted
<1>4. /\ Members(rx_queue', d) = {p} \cup Members(rx_queue, d)
      /\ \A e \in Devs \ {d} : Members(rx_queue', e) = Members(rx_queue, e)
      /\ Distinct(rx_queue')
  <2>1. rx_queue \in [Devs -> Seq(Packets)] /\ Distinct(rx_queue)
    BY DEF PacketsAccounted, Typed
  <2>2. QED
    BY <1>1, <1>3, <2>1, PushFacts
<1>5. \A e \in Devs : \A q \in Members(rx_queue', e) : Home[q] = Peer(e)
  BY <1>1, <1>4 DEF PacketsAccounted
<1>6. \A q \in Packets :
        q \in Members(rx_queue', Peer(Home[q])) <=> q \in Members(rx_queue, Peer(Home[q])) \/ q = p
  BY <1>1, <1>4, PacketsAssumption, PeerFacts
<1>7. QED
  BY <1>2, <1>3, <1>4, <1>5, <1>6 DEF PacketsAccounted, Alone

\* Five actions move a buffer, each from one place to another.
LEMMA AccountedStep == IInv /\ [Next]_vars => (PacketsAccounted /\ HandHome)'
<1> SUFFICES ASSUME IInv, [Next]_vars PROVE (PacketsAccounted /\ HandHome)'
  OBVIOUS
<1> USE DEF Set, Goto, Labels, params, queue, lists, words, skbs, locals
<1>t. Typed /\ Hands /\ PacketsAccounted /\ HandHome
  BY DEF IInv, TypeOK
<1>p. /\ pc \in [Threads -> Labels] /\ phase \in [Threads -> {"none", "RX", "TX", "timeout"}]
      /\ hand \in [Threads -> Packets \cup {NoPacket}]
  BY <1>t DEF Typed
<1>1. CASE UNCHANGED vars
  <2>1. Still
    BY <1>1 DEF Still, vars
  <2>2. QED
    BY <1>t, <2>1, StillAccounted
<1>2. ASSUME NEW d \in Devs, Kernel(d) PROVE (PacketsAccounted /\ HandHome)'
  <2>1. CASE Open(d)
    <3>1. Still
      BY <1>t, <1>p, <2>1, ThreadFacts, TargetFacts DEF Still, Open
    <3>2. QED
      BY <1>t, <3>1, StillAccounted
  <2>2. CASE Stop(d)
    <3>1. Still
      BY <1>t, <1>p, <2>2, ThreadFacts, TargetFacts DEF Still, Stop
    <3>2. QED
      BY <1>t, <3>1, StillAccounted
  <2>3. CASE Transmit(d)
    <3>1. Still
      BY <1>t, <1>p, <2>3, ThreadFacts, TargetFacts DEF Still, Transmit
    <3>2. QED
      BY <1>t, <3>1, StillAccounted
  <2>4. CASE Timeout(d)
    <3>1. Still
      BY <1>t, <1>p, <2>4, ThreadFacts, TargetFacts DEF Still, Timeout
    <3>2. QED
      BY <1>t, <3>1, StillAccounted
  <2>5. CASE Poll(d)
    <3>1. Still
      BY <1>t, <1>p, <2>5, ThreadFacts, TargetFacts DEF Still, Poll
    <3>2. QED
      BY <1>t, <3>1, StillAccounted
  <2>6. QED
    BY <1>2, <2>1, <2>2, <2>3, <2>4, <2>5 DEF Kernel
<1>3. ASSUME NEW t \in Threads, Step(t) PROVE (PacketsAccounted /\ HandHome)'
  <2>1. CASE Get(t)
    <3>1. Takes(t, Head(ppool[t[1]]))
      BY <1>t, <1>p, <2>1 DEF Takes, Holding, Get
    <3>2. /\ t[1] \in Devs /\ ppool[t[1]] # <<>>
          /\ ppool' = Popped(ppool, t[1]) /\ rx_queue' = rx_queue
      BY <2>1, ThreadFacts DEF Get, Popped
    <3>3. PacketsAccounted' /\ Home[Head(ppool[t[1]])] = t[1]
      BY <1>t, <3>1, <3>2, TakeFree
    <3>4. HandHome'
      BY <1>t, <1>p, <2>1, <3>3 DEF HandHome, Get
    <3>5. QED
      BY <3>3, <3>4
  <2>2. CASE Enqueue(t)
    <3>1. Puts(t) /\ hand[t] \in Packets /\ Home[hand[t]] = t[1]
      BY <1>t, <1>p, <2>2 DEF Hands, HandHome, Puts, Holding, Enqueue
    <3>2. rx_queue' = Push(rx_queue, Peer(Home[hand[t]]), hand[t]) /\ ppool' = ppool
      BY <2>2, <3>1 DEF Enqueue
    <3>3. PacketsAccounted'
      BY <1>t, <3>1, <3>2, PutReceived
    <3>4. HandHome'
      BY <1>t, <1>p, <2>2 DEF HandHome, Enqueue
    <3>5. QED
      BY <3>3, <3>4
  <2>3. CASE Release(t)
    <3>1. Puts(t) /\ hand[t] \in Packets
      BY <1>t, <1>p, <2>3 DEF Hands, Puts, Holding, Release
    <3>2. ppool' = Push(ppool, Home[hand[t]], hand[t]) /\ rx_queue' = rx_queue
      BY <2>3 DEF Release
    <3>3. PacketsAccounted'
      BY <1>t, <3>1, <3>2, PutFree
    <3>4. HandHome'
      BY <1>t, <1>p, <2>3 DEF HandHome, Release
    <3>5. QED
      BY <3>3, <3>4
  <2>4. CASE ReleaseTest(t)
    <3>1. pc' = [pc EXCEPT ![t] = "wake"] \/ pc' = [pc EXCEPT ![t] = "next"]
      BY <2>4 DEF ReleaseTest
    <3>2. hand' = hand \/ hand' = [hand EXCEPT ![t] = NoPacket]
      BY <2>4 DEF ReleaseTest
    <3>3. Still
      <4>1. /\ pc \in [Threads -> Labels] /\ hand \in [Threads -> Packets \cup {NoPacket}]
            /\ pc[t] = "test" /\ ppool' = ppool /\ rx_queue' = rx_queue
        BY <1>t, <1>p, <2>4 DEF ReleaseTest
      <4>2. \A u \in Threads \ {t} : pc'[u] = pc[u] /\ hand'[u] = hand[u]
        BY <3>1, <3>2, <4>1
      <4>3. pc'[t] \in {"wake", "next"}
        BY <3>1, <4>1
      <4>4. QED
        BY <4>1, <4>2, <4>3 DEF Still
    <3>4. QED
      BY <1>t, <3>3, StillAccounted
  <2>5. CASE ReleaseWake(t)
    <3>1. Still
      BY <1>t, <1>p, <2>5, TargetFacts DEF Still, ReleaseWake
    <3>2. QED
      BY <1>t, <3>1, StillAccounted
  <2>6. CASE CheckEnabled(t)
    <3>1. Still
      BY <1>t, <1>p, <2>6, TargetFacts DEF Still, CheckEnabled
    <3>2. QED
      BY <1>t, <3>1, StillAccounted
  <2>7. CASE StatusLoad(t)
    <3>1. Still
      BY <1>t, <1>p, <2>7, TargetFacts DEF Still, StatusLoad
    <3>2. QED
      BY <1>t, <3>1, StillAccounted
  <2>8. CASE StatusStore(t)
    <3>1. Still
      BY <1>t, <1>p, <2>8, TargetFacts DEF Still, StatusStore
    <3>2. QED
      BY <1>t, <3>1, StillAccounted
  <2>9. CASE RaiseOwn(t)
    <3>1. Still
      BY <1>t, <1>p, <2>9, TargetFacts DEF Still, RaiseOwn
    <3>2. QED
      BY <1>t, <3>1, StillAccounted
  <2>10. CASE DropInterrupt(t)
    <3>1. Still
      BY <1>t, <1>p, <2>10, TargetFacts DEF Still, DropInterrupt, Back
    <3>2. QED
      BY <1>t, <3>1, StillAccounted
  <2>11. CASE Interrupt(t)
    <3>1. Still
      BY <1>t, <1>p, <2>11, TargetFacts DEF Still, Interrupt
    <3>2. QED
      BY <1>t, <3>1, StillAccounted
  <2>12. CASE RegularInterrupt(t)
    <3> DEFINE d == Target(t)
    <3>1. d \in Devs /\ pc[t] = "handle" /\ ppool' = ppool
      BY <2>12, TargetFacts DEF RegularInterrupt
    <3>2. CASE "RX" \in word[t] /\ rx_queue[d] # <<>>
      <4>1. /\ hand' = [hand EXCEPT ![t] = Head(rx_queue[d])]
            /\ pc' = [pc EXCEPT ![t] = "release"]
            /\ rx_queue' = Popped(rx_queue, d)
        BY <2>12, <3>2 DEF RegularInterrupt, Popped
      <4>2. Takes(t, Head(rx_queue[d]))
        BY <1>t, <1>p, <3>1, <4>1 DEF Takes, Holding
      <4>3. PacketsAccounted'
        BY <1>t, <3>1, <3>2, <4>1, <4>2, TakeReceived
      <4>4. HandHome'
        BY <1>t, <1>p, <3>1, <4>1 DEF HandHome
      <4>5. QED
        BY <4>3, <4>4
    <3>3. CASE ~("RX" \in word[t] /\ rx_queue[d] # <<>>)
      <4>1. hand' = hand /\ rx_queue' = rx_queue /\ pc' = [pc EXCEPT ![t] = "next"]
        BY <2>12, <3>3 DEF RegularInterrupt
      <4>2. Still
        BY <1>t, <1>p, <3>1, <4>1 DEF Still
      <4>3. QED
        BY <1>t, <4>2, StillAccounted
    <3>4. QED
      BY <3>2, <3>3
  <2>13. CASE NapiInterrupt(t)
    <3>1. Still
      BY <1>t, <1>p, <2>13, TargetFacts DEF Still, NapiInterrupt
    <3>2. QED
      BY <1>t, <3>1, StillAccounted
  <2>14. CASE AfterReceive(t)
    <3>1. Still
      BY <1>t, <1>p, <2>14, TargetFacts DEF Still, AfterReceive
    <3>2. QED
      BY <1>t, <3>1, StillAccounted
  <2>15. CASE AfterTransmit(t)
    <3>1. Still
      BY <1>t, <1>p, <2>15, TargetFacts DEF Still, AfterTransmit, Back
    <3>2. QED
      BY <1>t, <3>1, StillAccounted
  <2>16. CASE AfterTimeout(t)
    <3>1. Still
      BY <1>t, <1>p, <2>16, TargetFacts DEF Still, AfterTimeout, Back
    <3>2. QED
      BY <1>t, <3>1, StillAccounted
  <2>17. CASE PollDequeue(t)
    <3>1. Takes(t, Head(rx_queue[t[1]]))
      BY <1>t, <1>p, <2>17 DEF Takes, Holding, PollDequeue
    <3>2. /\ t[1] \in Devs /\ rx_queue[t[1]] # <<>>
          /\ rx_queue' = Popped(rx_queue, t[1]) /\ ppool' = ppool
      BY <2>17, ThreadFacts DEF PollDequeue, Popped
    <3>3. PacketsAccounted'
      BY <1>t, <3>1, <3>2, TakeReceived
    <3>4. HandHome'
      BY <1>t, <1>p, <2>17 DEF HandHome, PollDequeue
    <3>5. QED
      BY <3>3, <3>4
  <2>18. CASE PollNext(t)
    <3>1. Still
      BY <1>t, <1>p, <2>18, TargetFacts DEF Still, PollNext
    <3>2. QED
      BY <1>t, <3>1, StillAccounted
  <2>19. CASE PollDone(t)
    <3>1. Still
      BY <1>t, <1>p, <2>19, TargetFacts DEF Still, PollDone
    <3>2. QED
      BY <1>t, <3>1, StillAccounted
  <2>20. CASE PollComplete(t)
    <3>1. Still
      BY <1>t, <1>p, <2>20, TargetFacts DEF Still, PollComplete
    <3>2. QED
      BY <1>t, <3>1, StillAccounted
  <2>21. CASE PollEnable(t)
    <3>1. Still
      BY <1>t, <1>p, <2>21, TargetFacts DEF Still, PollEnable, Back
    <3>2. QED
      BY <1>t, <3>1, StillAccounted
  <2>22. QED
    BY <1>3, <2>1, <2>2, <2>3, <2>4, <2>5, <2>6, <2>7, <2>8, <2>9, <2>10, <2>11, <2>12, <2>13,
       <2>14, <2>15, <2>16, <2>17, <2>18, <2>19, <2>20, <2>21 DEF Step, Rest
<1>4. QED
  BY <1>1, <1>2, <1>3 DEF Next

-----------------------------------------------------------------------------
\* At first every buffer is in its pool.
LEMMA Initially == Init => IInv
<1> SUFFICES ASSUME Init PROVE IInv
  OBVIOUS
<1>1. \A t \in Threads : pc[t] = "idle"
  BY DEF Init
<1>2. ASSUME NEW d \in Devs
      PROVE  Pool[d] \in Seq(Packets) /\ Pool[d][Len(Pool[d])] \in Packets
  <2>1. Pool[d] \in Seq(Packets) \ {<<>>}
    BY PoolAssumption
  <2>2. Pool[d] \in Seq(Packets) /\ Len(Pool[d]) \in Nat \ {0}
    BY <2>1
  <2>3. QED
    BY <2>2
<1>3. bottom \subseteq Packets
  BY <1>2 DEF Init
<1>4. Typed
  <2>1. Pool \in [Devs -> Seq(Packets)]
    BY <1>2, PoolAssumption
  <2>2. rx_queue \in [Devs -> Seq(Packets)]
    BY DEF Init
  <2>3. QED
    BY <1>3, <2>1, <2>2 DEF Init, Typed, Labels
<1>5. Hands /\ LockOwner /\ HandHome /\ Raises
  BY <1>1 DEF Init, Hands, LockOwner, HandHome, Raises
<1>6. \A t \in Threads : ~Holding(t)
  BY <1>1 DEF Holding
<1>7. Held = {}
  BY <1>6 DEF Held
<1>8. \A d \in Devs : Members(rx_queue, d) = {} /\ Members(ppool, d) = {p \in Packets : Home[p] = d}
  <2>1. TAKE d \in Devs
  <2>2. {Pool[d][i] : i \in DOMAIN Pool[d]} = {p \in Packets : Home[p] = d}
    BY PoolAssumption
  <2>3. rx_queue[d] = <<>> /\ ppool = Pool
    BY DEF Init
  <2>4. DOMAIN rx_queue[d] = {}
    BY <2>3
  <2>5. QED
    BY <2>2, <2>3, <2>4 DEF Members
<1>9. Distinct(ppool) /\ Distinct(rx_queue)
  BY PoolAssumption DEF Init, Distinct
<1>10. PacketsAccounted
  BY <1>6, <1>7, <1>8, <1>9, PacketsAssumption, PeerFacts DEF PacketsAccounted
<1>11. QED
  BY <1>4, <1>5, <1>10 DEF IInv, TypeOK

\* No step leaves the invariant.
LEMMA Inductive == IInv /\ [Next]_vars => IInv'
BY TypedStep, HandsStep, RaisesStep, LockOwnerStep, AccountedStep DEF IInv, TypeOK

\* The invariant holds throughout, with no restriction on the usage.
THEOREM Invariance == Spec => []IInv
BY Initially, Inductive, PTL DEF Spec

\* Every variable has its type, and the lock of a device is held by the thread in
\* its handler (snull.c:352-373).
THEOREM TypeCorrect == Spec => []TypeOK
<1>1. IInv => TypeOK
  BY DEF IInv
<1>2. QED
  BY <1>1, Invariance, PTL

\* No buffer is lost and none has two users, on any path and for any pools
\* (snull.c:132-186).
THEOREM PacketsSafe == Spec => []PacketsAccounted
<1>1. IInv => PacketsAccounted
  BY DEF IInv
<1>2. QED
  BY <1>1, Invariance, PTL
-----------------------------------------------------------------------------
(***************************************************************************)
(* The usage of QuietSpec.  Own(d) transmits for d, Poller(d) polls it.    *)
(***************************************************************************)
Own(d) == <<d, "xmit">>
Poller(d) == <<d, "poll">>

\* They are two threads, and there are no others.
LEMMA OwnFacts ==
  /\ \A d \in Devs : /\ Own(d) \in Threads /\ Own(d)[1] = d /\ Own(d)[2] = "xmit"
                     /\ Poller(d) \in Threads /\ Poller(d)[1] = d /\ Poller(d)[2] = "poll"
  /\ \A d, e \in Devs : Own(d) # Poller(e) /\ (Own(d) = Own(e) => d = e)
  /\ \A t \in Threads : t[1] \in Devs /\ (t = Own(t[1]) \/ t = Poller(t[1]))
BY DEF Own, Poller, Threads

\* Where each of the two can stand.
Places ==
  \A d \in Devs :
    /\ pc[Poller(d)] \in {"idle", "loop", "release", "test", "wake", "next", "complete", "enable"}
    /\ phase[Poller(d)] = "none"
    /\ pc[Own(d)] \notin {"loop", "complete", "enable"}

\* When it has been decided for what to raise an interrupt.
Phases ==
  \A t \in Threads : /\ pc[t] \in {"idle", "get", "enqueue", "check"} => phase[t] = "none"
                     /\ pc[t] = "drop" => phase[t] = "TX"

\* Without NAPI nothing is polled and receive interrupts stay enabled.
NoPoll ==
  ~use_napi => \A d \in Devs : rx_int_enabled[d] /\ ~scheduled[d] /\ pc[Poller(d)] = "idle"

Control == Places /\ Phases /\ NoPoll

\* The transmitter and the poll keep to their paths, whatever the usage.
LEMMA ControlStep == IInv /\ Control /\ [Next]_vars => Control'
<1> SUFFICES ASSUME IInv, Control, [Next]_vars PROVE Control'
  OBVIOUS
<1> USE DEF Set, Goto, params, queue, lists, words, skbs, locals
<1>t. Typed /\ Control
  BY DEF IInv, TypeOK
<1>p. /\ pc \in [Threads -> Labels] /\ phase \in [Threads -> {"none", "RX", "TX", "timeout"}]
      /\ scheduled \in [Devs -> BOOLEAN] /\ rx_int_enabled \in [Devs -> BOOLEAN]
  BY <1>t DEF Typed
<1>1. CASE UNCHANGED vars
  BY <1>t, <1>p, OwnFacts, <1>1 DEF Control, Places, Phases, NoPoll, vars
<1>2. ASSUME NEW d \in Devs, Kernel(d) PROVE Control'
  <2>1. CASE Open(d)
    BY <1>t, <1>p, OwnFacts, <2>1 DEF Control, Places, Phases, NoPoll, Own, Poller, Open
  <2>2. CASE Stop(d)
    BY <1>t, <1>p, OwnFacts, <2>2 DEF Control, Places, Phases, NoPoll, Own, Poller, Stop
  <2>3. CASE Transmit(d)
    BY <1>t, <1>p, OwnFacts, <2>3 DEF Control, Places, Phases, NoPoll, Own, Poller, Transmit
  <2>4. CASE Timeout(d)
    BY <1>t, <1>p, OwnFacts, <2>4 DEF Control, Places, Phases, NoPoll, Own, Poller, Timeout
  <2>5. CASE Poll(d)
    BY <1>t, <1>p, OwnFacts, <2>5 DEF Control, Places, Phases, NoPoll, Own, Poller, Poll
  <2>6. QED
    BY <1>2, <2>1, <2>2, <2>3, <2>4, <2>5 DEF Kernel
<1>3. ASSUME NEW t \in Threads, Step(t) PROVE Control'
  <2>1. CASE Get(t)
    BY <1>t, <1>p, OwnFacts, <2>1 DEF Control, Places, Phases, NoPoll, Get
  <2>2. CASE Enqueue(t)
    BY <1>t, <1>p, OwnFacts, <2>2 DEF Control, Places, Phases, NoPoll, Enqueue
  <2>3. CASE Release(t)
    BY <1>t, <1>p, OwnFacts, <2>3 DEF Control, Places, Phases, NoPoll, Release
  <2>4. CASE ReleaseTest(t)
    <3>1. /\ pc[t] = "test" /\ phase' = phase /\ use_napi' = use_napi
          /\ rx_int_enabled' = rx_int_enabled /\ scheduled' = scheduled
          /\ \/ pc' = [pc EXCEPT ![t] = "wake"]
             \/ pc' = [pc EXCEPT ![t] = "next"]
      BY <2>4 DEF ReleaseTest
    <3>2. QED
      BY <1>t, <1>p, <3>1, OwnFacts DEF Control, Places, Phases, NoPoll
  <2>5. CASE ReleaseWake(t)
    BY <1>t, <1>p, OwnFacts, <2>5 DEF Control, Places, Phases, NoPoll, ReleaseWake, WakeQueue
  <2>6. CASE CheckEnabled(t)
    BY <1>t, <1>p, OwnFacts, <2>6 DEF Control, Places, Phases, NoPoll, CheckEnabled
  <2>7. CASE StatusLoad(t)
    BY <1>t, <1>p, OwnFacts, <2>7 DEF Control, Places, Phases, NoPoll, StatusLoad
  <2>8. CASE StatusStore(t)
    BY <1>t, <1>p, OwnFacts, <2>8 DEF Control, Places, Phases, NoPoll, StatusStore
  <2>9. CASE RaiseOwn(t)
    BY <1>t, <1>p, OwnFacts, <2>9 DEF Control, Places, Phases, NoPoll, RaiseOwn
  <2>10. CASE DropInterrupt(t)
    BY <1>t, <1>p, OwnFacts, <2>10 DEF Control, Places, Phases, NoPoll, DropInterrupt, Back
  <2>11. CASE Interrupt(t)
    BY <1>t, <1>p, OwnFacts, <2>11 DEF Control, Places, Phases, NoPoll, Interrupt
  <2>12. CASE RegularInterrupt(t)
    BY <1>t, <1>p, OwnFacts, <2>12 DEF Control, Places, Phases, NoPoll, RegularInterrupt
  <2>13. CASE NapiInterrupt(t)
    <3>1. /\ pc[t] = "handle" /\ use_napi /\ phase' = phase /\ use_napi' = use_napi
          /\ pc' = [pc EXCEPT ![t] = "next"]
      BY <2>13 DEF NapiInterrupt
    <3>2. QED
      BY <1>t, <1>p, <3>1, OwnFacts DEF Control, Places, Phases, NoPoll
  <2>14. CASE AfterReceive(t)
    BY <1>t, <1>p, OwnFacts, <2>14 DEF Control, Places, Phases, NoPoll, AfterReceive
  <2>15. CASE AfterTransmit(t)
    BY <1>t, <1>p, OwnFacts, <2>15 DEF Control, Places, Phases, NoPoll, AfterTransmit, Back
  <2>16. CASE AfterTimeout(t)
    BY <1>t, <1>p, OwnFacts, <2>16 DEF Control, Places, Phases, NoPoll, AfterTimeout, Back, WakeQueue
  <2>17. CASE PollDequeue(t)
    BY <1>t, <1>p, OwnFacts, <2>17 DEF Control, Places, Phases, NoPoll, PollDequeue
  <2>18. CASE PollNext(t)
    BY <1>t, <1>p, OwnFacts, <2>18 DEF Control, Places, Phases, NoPoll, PollNext
  <2>19. CASE PollDone(t)
    BY <1>t, <1>p, OwnFacts, <2>19 DEF Control, Places, Phases, NoPoll, PollDone
  <2>20. CASE PollComplete(t)
    BY <1>t, <1>p, OwnFacts, <2>20 DEF Control, Places, Phases, NoPoll, PollComplete
  <2>21. CASE PollEnable(t)
    BY <1>t, <1>p, OwnFacts, <2>21 DEF Control, Places, Phases, NoPoll, PollEnable, Back
  <2>22. QED
    BY <1>3, <2>1, <2>2, <2>3, <2>4, <2>5, <2>6, <2>7, <2>8, <2>9, <2>10, <2>11, <2>12, <2>13,
       <2>14, <2>15, <2>16, <2>17, <2>18, <2>19, <2>20, <2>21 DEF Step, Rest
<1>4. QED
  BY <1>1, <1>2, <1>3 DEF Next

\* The quiet usage is a usage.
LEMMA QuietIsNext == [QuietNext]_vars => [Next]_vars
BY DEF QuietNext, QuietStep, QuietTimeout, Next, Kernel, Step, Rest

\* Where the unlocked updates of a status word do not run into one another, one
\* thread at a time is at it, and what it read is still there.
OneUpdate ==
  \A t, u \in Threads :
    /\ pc[t] \in {"store", "handle"} => word[t] = status[Target(t)]
    /\ /\ pc[t] \in {"store", "handle"} /\ pc[u] \in {"store", "handle"}
       /\ Target(t) = Target(u)
       => t = u

\* StatusLoad and Interrupt wait for one another, and so does the timeout.
LEMMA OneUpdateStep == IInv /\ Control /\ OneUpdate /\ [QuietNext]_vars => OneUpdate'
<1> SUFFICES ASSUME IInv, Control, OneUpdate, [QuietNext]_vars PROVE OneUpdate'
  OBVIOUS
<1> USE DEF Set, Goto, params, queue, lists, words, skbs, locals
<1>t. Typed /\ Phases /\ OneUpdate
  BY DEF IInv, TypeOK, Control
<1>p. /\ pc \in [Threads -> Labels] /\ phase \in [Threads -> {"none", "RX", "TX", "timeout"}]
      /\ status \in [Devs -> SUBSET {"RX", "TX"}] /\ word \in [Threads -> SUBSET {"RX", "TX"}]
      /\ \A t \in Threads : Target(t) \in Devs
  BY <1>t, TargetFacts DEF Typed
<1>1. CASE UNCHANGED vars
  BY <1>t, <1>p, <1>1 DEF OneUpdate, Updating, Target, vars
<1>2. ASSUME NEW d \in Devs,
             \/ ppool[d] # <<>> /\ ~Waking(d) /\ Open(d)
             \/ rx_queue[d] = <<>> /\ pc[<<Peer(d), "xmit">>] = "idle" /\ Stop(d)
             \/ (use_napi => up[Peer(d)]) /\ (lockup # 0 => d = Sender) /\ Transmit(d)
             \/ QuietTimeout(d) \/ Poll(d)
      PROVE  OneUpdate'
  <2>1. CASE ppool[d] # <<>> /\ ~Waking(d) /\ Open(d)
    BY <1>t, <1>p, ThreadFacts, <2>1 DEF OneUpdate, Updating, Target, Open
  <2>2. CASE rx_queue[d] = <<>> /\ pc[<<Peer(d), "xmit">>] = "idle" /\ Stop(d)
    BY <1>t, <1>p, ThreadFacts, <2>2 DEF OneUpdate, Updating, Target, Stop
  <2>3. CASE (use_napi => up[Peer(d)]) /\ (lockup # 0 => d = Sender) /\ Transmit(d)
    BY <1>t, <1>p, ThreadFacts, <2>3 DEF OneUpdate, Updating, Target, Transmit
  <2>4. CASE QuietTimeout(d)
    BY <1>t, <1>p, ThreadFacts, <2>4 DEF OneUpdate, Updating, Target, Timeout, QuietTimeout
  <2>5. CASE Poll(d)
    BY <1>t, <1>p, ThreadFacts, <2>5 DEF OneUpdate, Updating, Target, Poll
  <2>6. QED
    BY <1>2, <2>1, <2>2, <2>3, <2>4, <2>5
<1>3. ASSUME NEW t \in Threads, QuietStep(t) PROVE OneUpdate'
  <2>1. CASE Get(t) /\ ~Watched(hand'[t])
    BY <1>t, <1>p, <2>1 DEF OneUpdate, Updating, Target, Get
  <2>2. CASE Enqueue(t)
    BY <1>t, <1>p, <2>2 DEF OneUpdate, Updating, Target, Enqueue
  <2>3. CASE Release(t)
    BY <1>t, <1>p, <2>3 DEF OneUpdate, Updating, Target, Release
  <2>4. CASE ReleaseTest(t)
    <3>1. /\ pc[t] = "test" /\ phase' = phase /\ status' = status /\ word' = word
          /\ \/ pc' = [pc EXCEPT ![t] = "wake"]
             \/ pc' = [pc EXCEPT ![t] = "next"]
      BY <2>4 DEF ReleaseTest
    <3>2. QED
      BY <1>t, <1>p, <3>1 DEF OneUpdate, Target
  <2>5. CASE ReleaseWake(t)
    BY <1>t, <1>p, <2>5 DEF OneUpdate, Updating, Target, ReleaseWake, WakeQueue
  <2>6. CASE CheckEnabled(t)
    BY <1>t, <1>p, <2>6 DEF OneUpdate, Updating, Target, CheckEnabled
  <2>7. CASE Updating(Target(t)) = {} /\ StatusLoad(t)
    BY <1>t, <1>p, <2>7 DEF OneUpdate, Updating, Target, StatusLoad
  <2>8. CASE StatusStore(t)
    BY <1>t, <1>p, <2>8 DEF OneUpdate, Updating, Target, StatusStore
  <2>9. CASE RaiseOwn(t)
    BY <1>t, <1>p, <2>9 DEF OneUpdate, Updating, Target, RaiseOwn
  <2>10. CASE DropInterrupt(t)
    BY <1>t, <1>p, <2>10 DEF OneUpdate, Updating, Target, DropInterrupt, Back
  <2>11. CASE Updating(Target(t)) = {} /\ Interrupt(t)
    BY <1>t, <1>p, <2>11 DEF OneUpdate, Updating, Target, Interrupt
  <2>12. CASE RegularInterrupt(t)
    <3> DEFINE d == Target(t)
    <3>1. /\ pc[t] = "handle" /\ phase' = phase /\ status' = [status EXCEPT ![d] = {}]
          /\ word' = [word EXCEPT ![t] = {}]
          /\ \/ pc' = [pc EXCEPT ![t] = "next"]
             \/ pc' = [pc EXCEPT ![t] = "release"]
      BY <2>12 DEF RegularInterrupt
    <3>2. QED
      BY <1>t, <1>p, <3>1 DEF OneUpdate, Target
  <2>13. CASE NapiInterrupt(t)
    <3> DEFINE d == Target(t)
    <3>1. /\ pc[t] = "handle" /\ phase' = phase /\ status' = [status EXCEPT ![d] = {}]
          /\ word' = [word EXCEPT ![t] = {}]
          /\ \/ pc' = [pc EXCEPT ![t] = "next"]
             \/ pc' = [pc EXCEPT ![t] = "release"]
      BY <2>13 DEF NapiInterrupt
    <3>2. QED
      BY <1>t, <1>p, <3>1 DEF OneUpdate, Target
  <2>14. CASE AfterReceive(t)
    BY <1>t, <1>p, <2>14 DEF OneUpdate, Updating, Target, AfterReceive
  <2>15. CASE AfterTransmit(t)
    BY <1>t, <1>p, <2>15 DEF OneUpdate, Updating, Target, AfterTransmit, Back
  <2>16. CASE AfterTimeout(t)
    BY <1>t, <1>p, <2>16 DEF OneUpdate, Updating, Target, AfterTimeout, Back, WakeQueue
  <2>17. CASE PollDequeue(t)
    BY <1>t, <1>p, <2>17 DEF OneUpdate, Updating, Target, PollDequeue
  <2>18. CASE PollNext(t)
    BY <1>t, <1>p, <2>18 DEF OneUpdate, Updating, Target, PollNext
  <2>19. CASE PollDone(t)
    BY <1>t, <1>p, <2>19 DEF OneUpdate, Updating, Target, PollDone
  <2>20. CASE PollComplete(t)
    BY <1>t, <1>p, <2>20 DEF OneUpdate, Updating, Target, PollComplete
  <2>21. CASE PollEnable(t)
    BY <1>t, <1>p, <2>21 DEF OneUpdate, Updating, Target, PollEnable, Back
  <2>22. QED
    BY <1>3, <2>1, <2>2, <2>3, <2>4, <2>5, <2>6, <2>7, <2>8, <2>9, <2>10, <2>11, <2>12, <2>13,
       <2>14, <2>15, <2>16, <2>17, <2>18, <2>19, <2>20, <2>21 DEF QuietStep, Rest
<1>4. QED
  BY <1>1, <1>2, <1>3 DEF QuietNext

\* While lockups are simulated one interface sends nothing and waits for no interrupt.
OneWay ==
  lockup # 0 => \A d \in Devs \ {Sender} : pc[Own(d)] = "idle" /\ "TX" \notin status[d]

\* Without lockups a transmission is reported at once; with them it is reported
\* by its own interrupt or not at all.
TxRaised ==
  \A d \in Devs :
    /\ lockup = 0 /\ "TX" \in status[d]
         => phase[Own(d)] = "TX" /\ pc[Own(d)] \in {"drop", "intr", "handle"}
    /\ lockup # 0 /\ pc[Own(d)] = "drop" => "TX" \in status[d]

\* A transmission that has not been reported yet.
Unraising(t) ==
  \/ pc[t] \in {"get", "enqueue", "check"}
  \/ phase[t] = "RX"
  \/ phase[t] = "TX" /\ pc[t] \in {"load", "store"}
Unraised(d) == Unraising(Own(d))

\* Until the end of a transmission is handled its skb is there.
SkbSent == \A d \in Devs : Unraised(d) \/ "TX" \in status[d] => skb[d] = "sent"

Skbs == OneWay /\ TxRaised /\ SkbSent /\ SkbFreedOnce

\* A thread that handles an interrupt for d finds no transmission of d that is still
\* to be reported.
LEMMA HandledRaised ==
  ASSUME Typed, Control, Skbs, NEW t \in Threads, pc[t] = "handle", "TX" \in status[Target(t)]
  PROVE  ~Unraised(Target(t))
<1> DEFINE d == Target(t)
<1>1. d \in Devs /\ t[1] \in Devs /\ t = Own(t[1]) /\ phase[t] = "RX" => d # t[1]
  BY OwnFacts, TargetFacts, PeerFacts DEF Control, Places, Target
<1>2. d \in Devs /\ t = Own(t[1])
  BY OwnFacts, TargetFacts DEF Control, Places
<1>3. CASE phase[t] = "RX"
  <2>1. d # t[1] /\ t[1] \in Devs
    BY <1>1, <1>2, <1>3, OwnFacts
  <2>2. CASE lockup = 0
    BY <1>2, <2>2 DEF Skbs, TxRaised, Unraised, Unraising
  <2>3. CASE lockup # 0
    BY <1>2, <2>1, <2>3 DEF Skbs, OneWay
  <2>4. QED
    BY <2>2, <2>3
<1>4. CASE phase[t] # "RX"
  <2>1. d = t[1]
    BY <1>4 DEF Target
  <2>2. QED
    BY <1>2, <1>4, <2>1 DEF Unraised, Unraising
<1>5. QED
  BY <1>3, <1>4

\* What the two handlers do to a status word and an skb.
Handles(t) ==
  /\ pc[t] = "handle"
  /\ status' = [status EXCEPT ![Target(t)] = {}]
  /\ FreeSkb(t, Target(t))
  /\ pc' = [pc EXCEPT ![t] = "next"] \/ pc' = [pc EXCEPT ![t] = "release"]
  /\ phase' = phase /\ lockup' = lockup

\* So the skb they free is there.
LEMMA HandlesSkbs ==
  \A t \in Threads : Typed /\ Control /\ OneUpdate /\ Skbs /\ Handles(t) => Skbs'
<1> SUFFICES ASSUME NEW t \in Threads, Typed, Control, OneUpdate, Skbs, Handles(t) PROVE Skbs'
  OBVIOUS
<1> DEFINE d == Target(t)
<1>1. /\ d \in Devs /\ word[t] = status[d] /\ pc[t] = "handle"
      /\ status' = [status EXCEPT ![d] = {}] /\ lockup' = lockup /\ phase' = phase
      /\ pc' = [pc EXCEPT ![t] = "next"] \/ pc' = [pc EXCEPT ![t] = "release"]
      /\ pc \in [Threads -> Labels] /\ status \in [Devs -> SUBSET {"RX", "TX"}]
  BY TargetFacts DEF Handles, OneUpdate, Typed
<1>2. \A e \in Devs \ {d} : skb'[e] = skb[e]
  BY <1>1 DEF Handles, FreeSkb, Set, skbs, Typed
<1>3. skb'[d] # "freed twice" /\ (Unraised(d) => skb'[d] = skb[d])
  <2>1. skb \in [Devs -> {"none", "sent", "freed", "freed twice"}]
    BY DEF Typed
  <2>2. CASE "TX" \in word[t]
    <3>1. ~Unraised(d) /\ skb[d] = "sent"
      BY <1>1, <2>2, HandledRaised DEF Skbs, SkbSent
    <3>2. QED
      BY <1>1, <2>1, <2>2, <3>1 DEF Handles, FreeSkb, Set
  <2>3. CASE "TX" \notin word[t]
    BY <1>1, <2>3 DEF Handles, FreeSkb, skbs, Skbs, SkbFreedOnce
  <2>4. QED
    BY <2>2, <2>3
<1>4. \A e \in Devs : Unraised(e)' <=> Unraised(e)
  BY <1>1, OwnFacts DEF Unraised, Unraising
<1>5. OneWay'
  BY <1>1, OwnFacts DEF Skbs, OneWay
<1>6. TxRaised'
  <2>1. ASSUME NEW e \in Devs, lockup = 0, "TX" \in status'[e]
        PROVE  phase[Own(e)] = "TX" /\ pc'[Own(e)] \in {"drop", "intr", "handle"}
    <3>1. e # d /\ "TX" \in status[e]
      BY <1>1, <2>1
    <3>2. phase[Own(e)] = "TX" /\ pc[Own(e)] \in {"drop", "intr", "handle"}
      BY <2>1, <3>1 DEF Skbs, TxRaised
    <3>3. t # Own(e)
      BY <2>1, <3>1, <3>2, OwnFacts DEF Target
    <3>4. QED
      BY <1>1, <3>2, <3>3, OwnFacts
  <2>2. ASSUME NEW e \in Devs, lockup # 0, pc'[Own(e)] = "drop" PROVE "TX" \in status'[e]
    <3>1. pc[Own(e)] = "drop" /\ "TX" \in status[e]
      BY <1>1, <2>2, OwnFacts DEF Skbs, TxRaised
    <3>2. e # d
      <4>1. t = Own(t[1]) /\ t[1] \in Devs /\ t[1] # e
        BY <1>1, <3>1, OwnFacts DEF Control, Places
      <4>2. e = Sender /\ t[1] = Sender
        BY <1>1, <2>2, <3>1, <4>1 DEF Skbs, OneWay
      <4>3. QED
        BY <4>1, <4>2
    <3>3. QED
      BY <1>1, <3>1, <3>2
  <2>3. QED
    BY <1>1, <2>1, <2>2 DEF TxRaised
<1>7. SkbSent'
  BY <1>1, <1>2, <1>3, <1>4 DEF Skbs, SkbSent
<1>8. SkbFreedOnce'
  BY <1>2, <1>3 DEF Skbs, SkbFreedOnce
<1>9. QED
  BY <1>5, <1>6, <1>7, <1>8 DEF Skbs

\* What a step leaves alone that reports no transmission and starts none.
Raised(t) == phase[t] = "TX" /\ pc[t] \in {"drop", "intr", "handle"}
SkbStill ==
  /\ status' = status /\ skb' = skb /\ lockup' = lockup
  /\ \A t \in Threads : /\ Unraising(t)' => Unraising(t)
                        /\ pc[t] = "idle" => pc'[t] \in {"idle", "loop"}
                        /\ pc'[t] = "drop" => pc[t] = "drop"
                        /\ lockup = 0 /\ Raised(t) => Raised(t)'

\* Then no skb is freed.
LEMMA StillSkbs == Skbs /\ SkbStill /\ Places' => Skbs'
<1> SUFFICES ASSUME Skbs, SkbStill, Places' PROVE Skbs'
  OBVIOUS
<1>1. /\ status' = status /\ skb' = skb /\ lockup' = lockup
      /\ \A d \in Devs : /\ Unraised(d)' => Unraised(d)
                         /\ pc[Own(d)] = "idle" => pc'[Own(d)] = "idle"
                         /\ pc'[Own(d)] = "drop" => pc[Own(d)] = "drop"
                         /\ lockup = 0 /\ Raised(Own(d)) => Raised(Own(d))'
  BY OwnFacts DEF SkbStill, Unraised, Places
<1>2. OneWay' /\ TxRaised'
  BY <1>1 DEF Skbs, OneWay, TxRaised, Raised
<1>3. SkbSent' /\ SkbFreedOnce'
  BY <1>1 DEF Skbs, SkbSent, SkbFreedOnce
<1>4. QED
  BY <1>2, <1>3 DEF Skbs

\* An skb is freed when the end of its transmission is handled, before the next.
LEMMA SkbsStep == IInv /\ Control /\ OneUpdate /\ Skbs /\ [QuietNext]_vars => Skbs'
<1> SUFFICES ASSUME IInv, Control, OneUpdate, Skbs, [QuietNext]_vars PROVE Skbs'
  OBVIOUS
<1> USE DEF Set, Goto, params, queue, lists, words, skbs, locals
<1>t. Typed /\ Control /\ OneUpdate /\ Skbs /\ Raises
  BY DEF IInv, TypeOK
<1>n. Places' /\ Phases'
  BY QuietIsNext, ControlStep DEF Control
<1>p. /\ pc \in [Threads -> Labels] /\ phase \in [Threads -> {"none", "RX", "TX", "timeout"}]
      /\ Places /\ Phases
  BY <1>t DEF Typed, Control
<1>o. ASSUME NEW d \in Devs,
             \A u \in Threads \ {Own(d)} : pc'[u] = pc[u] /\ phase'[u] = phase[u]
      PROVE  \A e \in Devs \ {d} : pc'[Own(e)] = pc[Own(e)] /\ phase'[Own(e)] = phase[Own(e)]
  BY <1>o, OwnFacts
<1>1. CASE UNCHANGED vars
  <2>1. SkbStill
    BY <1>1 DEF SkbStill, Unraising, Raised, vars
  <2>2. QED
    BY <1>t, <1>n, <2>1, StillSkbs
<1>2. ASSUME NEW d \in Devs,
             \/ ppool[d] # <<>> /\ ~Waking(d) /\ Open(d)
             \/ rx_queue[d] = <<>> /\ pc[<<Peer(d), "xmit">>] = "idle" /\ Stop(d)
             \/ (use_napi => up[Peer(d)]) /\ (lockup # 0 => d = Sender) /\ Transmit(d)
             \/ QuietTimeout(d) \/ Poll(d)
      PROVE  Skbs'
  <2>1. CASE ppool[d] # <<>> /\ ~Waking(d) /\ Open(d)
    <3>1. SkbStill
      BY <1>p, <2>1 DEF SkbStill, Unraising, Raised, Phases, Open
    <3>2. QED
      BY <1>t, <1>n, <3>1, StillSkbs
  <2>2. CASE rx_queue[d] = <<>> /\ pc[<<Peer(d), "xmit">>] = "idle" /\ Stop(d)
    <3>1. SkbStill
      BY <1>p, <2>2 DEF SkbStill, Unraising, Raised, Phases, Stop
    <3>2. QED
      BY <1>t, <1>n, <3>1, StillSkbs
  <2>3. CASE (use_napi => up[Peer(d)]) /\ (lockup # 0 => d = Sender) /\ Transmit(d)
    <3>1. /\ pc[Own(d)] = "idle" /\ phase[Own(d)] = "none" /\ (lockup # 0 => d = Sender)
          /\ pc' = [pc EXCEPT ![Own(d)] = "get"] /\ skb' = [skb EXCEPT ![d] = "sent"]
          /\ status' = status /\ lockup' = lockup /\ phase' = phase
      BY <1>p, <2>3, OwnFacts DEF Transmit, Own, Phases
    <3>2. /\ pc'[Own(d)] = "get" /\ \A u \in Threads \ {Own(d)} : pc'[u] = pc[u] /\ phase'[u] = phase[u]
          /\ skb'[d] = "sent" /\ \A e \in Devs \ {d} : skb'[e] = skb[e]
      <4>1. Own(d) \in Threads /\ skb \in [Devs -> {"none", "sent", "freed", "freed twice"}]
        BY <1>t, OwnFacts DEF Typed
      <4>2. QED
        BY <1>p, <3>1, <4>1
    <3>3. \A e \in Devs \ {d} : pc'[Own(e)] = pc[Own(e)] /\ phase'[Own(e)] = phase[Own(e)]
      BY <1>o, <3>2
    <3>4. OneWay'
      BY <1>t, <3>1, <3>3 DEF Skbs, OneWay
    <3>5. TxRaised'
      BY <1>t, <3>1, <3>2, <3>3 DEF Skbs, TxRaised
    <3>6. SkbSent' /\ SkbFreedOnce'
      BY <1>t, <3>1, <3>2, <3>3 DEF Skbs, SkbSent, SkbFreedOnce, Unraised, Unraising
    <3>7. QED
      BY <3>4, <3>5, <3>6 DEF Skbs
  <2>4. CASE QuietTimeout(d)
    <3>1. /\ pc[Own(d)] = "idle" /\ status[d] = {"TX"}
          /\ pc' = [pc EXCEPT ![Own(d)] = "intr"] /\ phase' = [phase EXCEPT ![Own(d)] = "timeout"]
          /\ status' = [status EXCEPT ![d] = {"TX"}] /\ lockup' = lockup /\ skb' = skb
      BY <1>p, <2>4, OwnFacts DEF QuietTimeout, Timeout, Own
    <3>2. /\ pc'[Own(d)] = "intr" /\ \A u \in Threads \ {Own(d)} : pc'[u] = pc[u] /\ phase'[u] = phase[u]
          /\ phase'[Own(d)] = "timeout"
      BY <1>p, <3>1, OwnFacts
    <3>3. \A e \in Devs \ {d} : pc'[Own(e)] = pc[Own(e)] /\ phase'[Own(e)] = phase[Own(e)]
      BY <1>o, <3>2
    <3>4. lockup # 0 /\ d = Sender /\ status' = status
      <4>1. lockup # 0 /\ d = Sender
        BY <1>t, <3>1 DEF Skbs, OneWay, TxRaised
      <4>2. status \in [Devs -> SUBSET {"RX", "TX"}]
        BY <1>t DEF Typed
      <4>3. QED
        BY <3>1, <4>1, <4>2
    <3>5. OneWay'
      BY <1>t, <3>1, <3>3, <3>4 DEF Skbs, OneWay
    <3>6. TxRaised'
      BY <1>t, <3>1, <3>2, <3>3, <3>4 DEF Skbs, TxRaised
    <3>7. SkbSent' /\ SkbFreedOnce'
      <4>1. skb[d] = "sent"
        BY <1>t, <3>1 DEF Skbs, SkbSent
      <4>2. \A e \in Devs \ {d} : Unraised(e)' <=> Unraised(e)
        BY <3>3 DEF Unraised, Unraising
      <4>3. QED
        BY <1>t, <3>1, <3>4, <4>1, <4>2 DEF Skbs, SkbSent, SkbFreedOnce
    <3>8. QED
      BY <3>5, <3>6, <3>7 DEF Skbs
  <2>5. CASE Poll(d)
    <3>1. SkbStill
      BY <1>p, <2>5, ThreadFacts DEF SkbStill, Unraising, Raised, Phases, Poll
    <3>2. QED
      BY <1>t, <1>n, <3>1, StillSkbs
  <2>6. QED
    BY <1>2, <2>1, <2>2, <2>3, <2>4, <2>5
<1>3. ASSUME NEW t \in Threads, QuietStep(t) PROVE Skbs'
  <2>1. CASE Get(t) /\ ~Watched(hand'[t])
    <3>1. SkbStill
      BY <1>p, <2>1 DEF SkbStill, Unraising, Raised, Phases, Get
    <3>2. QED
      BY <1>t, <1>n, <3>1, StillSkbs
  <2>2. CASE Enqueue(t)
    <3>1. SkbStill
      BY <1>p, <2>2 DEF SkbStill, Unraising, Raised, Phases, Enqueue
    <3>2. QED
      BY <1>t, <1>n, <3>1, StillSkbs
  <2>3. CASE Release(t)
    <3>1. SkbStill
      BY <1>p, <2>3 DEF SkbStill, Unraising, Raised, Phases, Release
    <3>2. QED
      BY <1>t, <1>n, <3>1, StillSkbs
  <2>4. CASE ReleaseTest(t)
    <3>1. /\ pc[t] = "test" /\ phase' = phase /\ status' = status /\ skb' = skb /\ lockup' = lockup
          /\ \/ pc' = [pc EXCEPT ![t] = "wake"]
             \/ pc' = [pc EXCEPT ![t] = "next"]
      BY <2>4 DEF ReleaseTest
    <3>2. SkbStill
      BY <1>p, <3>1 DEF SkbStill, Unraising, Raised
    <3>3. QED
      BY <1>t, <1>n, <3>2, StillSkbs
  <2>5. CASE ReleaseWake(t)
    <3>1. SkbStill
      BY <1>p, <2>5 DEF SkbStill, Unraising, Raised, Phases, ReleaseWake, WakeQueue
    <3>2. QED
      BY <1>t, <1>n, <3>1, StillSkbs
  <2>6. CASE CheckEnabled(t)
    <3>1. SkbStill
      BY <1>p, <2>6 DEF SkbStill, Unraising, Raised, Phases, CheckEnabled
    <3>2. QED
      BY <1>t, <1>n, <3>1, StillSkbs
  <2>7. CASE Updating(Target(t)) = {} /\ StatusLoad(t)
    <3>1. SkbStill
      BY <1>p, <2>7 DEF SkbStill, Unraising, Raised, Phases, StatusLoad
    <3>2. QED
      BY <1>t, <1>n, <3>1, StillSkbs
  <2>8. CASE StatusStore(t)
    <3> DEFINE d == t[1]
    <3>1. t = Own(d) /\ d \in Devs
      <4>1. pc[t] = "store"
        BY <2>8 DEF StatusStore
      <4>2. QED
        BY <1>p, <4>1, OwnFacts DEF Places
    <3>2. /\ Target(t) \in Devs /\ pc[t] = "store" /\ phase[t] \in {"RX", "TX"}
          /\ pc' = [pc EXCEPT ![t] = IF phase[t] = "TX" THEN "drop" ELSE "intr"]
          /\ status' = [status EXCEPT ![Target(t)] = status[Target(t)] \cup {phase[t]}]
          /\ lockup' = lockup /\ phase' = phase /\ skb' = skb /\ (phase[t] = "TX" => Target(t) = d)
      BY <1>t, <1>p, <2>8, TargetFacts DEF StatusStore, OneUpdate, Raises, Target
    <3>3. \A f \in Devs : "TX" \in status'[f] <=> "TX" \in status[f] \/ (f = d /\ phase[t] = "TX")
      <4>1. status \in [Devs -> SUBSET {"RX", "TX"}]
        BY <1>t DEF Typed
      <4>2. QED
        BY <3>2, <4>1
    <3>4. /\ pc'[Own(d)] = (IF phase[t] = "TX" THEN "drop" ELSE "intr")
          /\ pc[Own(d)] = "store" /\ phase[Own(d)] = phase[t]
          /\ \A u \in Threads \ {Own(d)} : pc'[u] = pc[u] /\ phase'[u] = phase[u]
      BY <1>p, <3>1, <3>2
    <3>5. \A e \in Devs \ {d} : pc'[Own(e)] = pc[Own(e)] /\ phase'[Own(e)] = phase[Own(e)]
      BY <1>o, <3>1, <3>4
    <3>6. OneWay'
      BY <1>t, <3>1, <3>2, <3>3, <3>4, <3>5 DEF Skbs, OneWay
    <3>7. TxRaised'
      BY <1>t, <3>1, <3>2, <3>3, <3>4, <3>5 DEF Skbs, TxRaised
    <3>8. SkbSent' /\ SkbFreedOnce'
      BY <1>t, <3>1, <3>2, <3>3, <3>4, <3>5 DEF Skbs, SkbSent, SkbFreedOnce, Unraised, Unraising
    <3>9. QED
      BY <3>6, <3>7, <3>8 DEF Skbs
  <2>9. CASE RaiseOwn(t)
    <3>1. SkbStill
      BY <1>p, <2>9 DEF SkbStill, Unraising, Raised, Phases, RaiseOwn
    <3>2. QED
      BY <1>t, <1>n, <3>1, StillSkbs
  <2>10. CASE DropInterrupt(t)
    <3>1. /\ pc[t] = "drop" /\ phase[t] = "TX" /\ lockup # 0
          /\ pc' = [pc EXCEPT ![t] = "idle"] /\ phase' = [phase EXCEPT ![t] = "none"]
          /\ status' = status /\ skb' = skb /\ lockup' = lockup
      BY <1>p, <2>10 DEF DropInterrupt, Back, Drops, Phases
    <3>2. SkbStill
      BY <1>p, <3>1 DEF SkbStill, Unraising, Raised
    <3>3. QED
      BY <1>t, <1>n, <3>2, StillSkbs
  <2>11. CASE Updating(Target(t)) = {} /\ Interrupt(t)
    <3>1. SkbStill
      BY <1>p, <2>11 DEF SkbStill, Unraising, Raised, Phases, Interrupt
    <3>2. QED
      BY <1>t, <1>n, <3>1, StillSkbs
  <2>12. CASE RegularInterrupt(t)
    <3>1. Handles(t)
      BY <2>12 DEF Handles, RegularInterrupt
    <3>2. QED
      BY <1>t, <3>1, HandlesSkbs
  <2>13. CASE NapiInterrupt(t)
    <3>1. Handles(t)
      BY <2>13 DEF Handles, NapiInterrupt
    <3>2. QED
      BY <1>t, <3>1, HandlesSkbs
  <2>14. CASE AfterReceive(t)
    <3>1. SkbStill
      BY <1>p, <2>14 DEF SkbStill, Unraising, Raised, Phases, AfterReceive
    <3>2. QED
      BY <1>t, <1>n, <3>1, StillSkbs
  <2>15. CASE AfterTransmit(t)
    <3>1. SkbStill
      BY <1>p, <2>15 DEF SkbStill, Unraising, Raised, Phases, AfterTransmit, Back
    <3>2. QED
      BY <1>t, <1>n, <3>1, StillSkbs
  <2>16. CASE AfterTimeout(t)
    <3>1. SkbStill
      BY <1>p, <2>16 DEF SkbStill, Unraising, Raised, Phases, AfterTimeout, Back, WakeQueue
    <3>2. QED
      BY <1>t, <1>n, <3>1, StillSkbs
  <2>17. CASE PollDequeue(t)
    <3>1. SkbStill
      BY <1>p, <2>17 DEF SkbStill, Unraising, Raised, Phases, PollDequeue
    <3>2. QED
      BY <1>t, <1>n, <3>1, StillSkbs
  <2>18. CASE PollNext(t)
    <3>1. SkbStill
      BY <1>p, <2>18 DEF SkbStill, Unraising, Raised, Phases, PollNext
    <3>2. QED
      BY <1>t, <1>n, <3>1, StillSkbs
  <2>19. CASE PollDone(t)
    <3>1. SkbStill
      BY <1>p, <2>19 DEF SkbStill, Unraising, Raised, Phases, PollDone
    <3>2. QED
      BY <1>t, <1>n, <3>1, StillSkbs
  <2>20. CASE PollComplete(t)
    <3>1. SkbStill
      BY <1>p, <2>20 DEF SkbStill, Unraising, Raised, Phases, PollComplete
    <3>2. QED
      BY <1>t, <1>n, <3>1, StillSkbs
  <2>21. CASE PollEnable(t)
    <3>1. /\ pc[t] = "enable"
          /\ pc' = [pc EXCEPT ![t] = "idle"] /\ phase' = [phase EXCEPT ![t] = "none"]
          /\ status' = status /\ skb' = skb /\ lockup' = lockup
      BY <1>p, <2>21 DEF PollEnable, Back
    <3>2. SkbStill
      BY <1>p, <3>1 DEF SkbStill, Unraising, Raised
    <3>3. QED
      BY <1>t, <1>n, <3>2, StillSkbs
  <2>22. QED
    BY <1>3, <2>1, <2>2, <2>3, <2>4, <2>5, <2>6, <2>7, <2>8, <2>9, <2>10, <2>11, <2>12, <2>13,
       <2>14, <2>15, <2>16, <2>17, <2>18, <2>19, <2>20, <2>21 DEF QuietStep, Rest
<1>4. QED
  BY <1>1, <1>2, <1>3 DEF QuietNext

\* A thread that gave a buffer back to an empty pool and has to wake the queue of d.
Waker(t, d) == pc[t] \in {"test", "wake"} /\ Home[hand[t]] = d /\ hand[t] \in bottom

\* What a thread gave back stays in the pool until it has looked whether to wake
\* the queue.
GivenBack ==
  \A t \in Threads : /\ pc[t] \in {"test", "wake"} => hand[t] \in Members(ppool, Home[hand[t]])
                     /\ pc[t] = "wake" => hand[t] \in bottom

\* The queue of d runs only over a pool that is not empty; the pool that ran empty
\* has one waker; and a stopped queue has one or waits for its interrupt.
QueueOf(d) ==
  /\ ~stopped[d] => ppool[d] # <<>>
  /\ pc[Own(d)] = "get" => ~stopped[d]
  /\ phase[Own(d)] = "timeout" => ppool[d] # <<>>
  /\ \A t, u \in Threads : Waker(t, d) /\ Waker(u, d) => t = u
  /\ \A t \in Threads : Waker(t, d) => stopped[d] /\ phase[Own(d)] # "timeout"
  /\ up[d] /\ stopped[d] /\ ppool[d] # <<>>
       => \/ \E t \in Threads : Waker(t, d)
          \/ pc[Own(d)] = "idle" /\ "TX" \in status[d]
          \/ phase[Own(d)] = "timeout"

Queues == GivenBack /\ \A d \in Devs : QueueOf(d)

\* What a step leaves alone that has nothing to do with the queue of d.
SameQueue(d) ==
  /\ stopped'[d] = stopped[d] /\ ppool'[d] = ppool[d] /\ up'[d] = up[d]
  /\ pc'[Own(d)] = "get" => pc[Own(d)] = "get"
  /\ phase'[Own(d)] = "timeout" <=> phase[Own(d)] = "timeout"
  /\ pc[Own(d)] = "idle" /\ "TX" \in status[d] => pc'[Own(d)] = "idle" /\ "TX" \in status'[d]
  /\ \A t \in Threads : Waker(t, d)' <=> Waker(t, d)

\* And so leaves the queue as it was.
LEMMA SameQueueOf == \A d \in Devs : QueueOf(d) /\ SameQueue(d) => QueueOf(d)'
BY DEF QueueOf, SameQueue

\* What a step leaves alone that has nothing to do with the queues, and moves the
\* threads only where they neither get a buffer nor give one back.
QueueStill ==
  /\ stopped' = stopped /\ ppool' = ppool /\ up' = up
  /\ \A t \in Threads :
       /\ pc'[t] \in {"get", "test", "wake"} \/ pc[t] \in {"get", "test", "wake"}
            => pc'[t] = pc[t] /\ hand'[t] = hand[t]
       /\ pc[t] \in {"test", "wake"} => (hand[t] \in bottom' <=> hand[t] \in bottom)
       /\ phase'[t] = "timeout" <=> phase[t] = "timeout"
       /\ pc[t] = "idle" => pc'[t] \in {"idle", "loop"}
  /\ \A d \in Devs : pc[Own(d)] = "idle" /\ "TX" \in status[d] => "TX" \in status'[d]

\* Then nothing changes for any queue.
LEMMA StillQueues == Queues /\ QueueStill /\ Places' => Queues'
<1> SUFFICES ASSUME Queues, QueueStill, Places' PROVE Queues'
  OBVIOUS
<1>1. GivenBack'
  BY DEF Queues, QueueStill, GivenBack, Members
<1>2. ASSUME NEW d \in Devs PROVE QueueOf(d)'
  <2>1. \A t \in Threads : Waker(t, d)' <=> Waker(t, d)
    BY DEF QueueStill, Waker
  <2>2. SameQueue(d)
    BY <2>1, OwnFacts DEF QueueStill, SameQueue, Places
  <2>3. QED
    BY <2>2, SameQueueOf DEF Queues
<1>3. QED
  BY <1>1, <1>2 DEF Queues

\* A thread that handles an interrupt for d clears no transmission d waits for.
LEMMA HandledIdle ==
  ASSUME Typed, Control, Skbs, NEW t \in Threads, pc[t] = "handle", "TX" \in status[Target(t)]
  PROVE  pc[Own(Target(t))] # "idle"
<1> DEFINE d == Target(t)
<1>1. d \in Devs /\ t[1] \in Devs /\ t = Own(t[1])
  BY OwnFacts, TargetFacts DEF Control, Places
<1>2. CASE lockup = 0
  BY <1>1, <1>2 DEF Skbs, TxRaised
<1>3. CASE lockup # 0
  <2>1. t[1] = Sender /\ d = Sender
    BY <1>1, <1>3 DEF Skbs, OneWay
  <2>2. QED
    BY <1>1, <2>1
<1>4. QED
  BY <1>2, <1>3

\* The buffers of a list that is not empty.
LEMMA EmptyFacts ==
  ASSUME NEW list \in [Devs -> Seq(Packets)], NEW d \in Devs
  PROVE  /\ list[d] = <<>> <=> Members(list, d) = {}
         /\ \A p \in Packets : Push(list, d, p)[d] # <<>>
         /\ list[d] # <<>> => (Len(list[d]) = 1 <=> Popped(list, d)[d] = <<>>)
<1> DEFINE s == list[d]
<1>1. s \in Seq(Packets) /\ DOMAIN s = 1..Len(s) /\ Len(s) \in Nat
  OBVIOUS
<1>2. s = <<>> <=> Members(list, d) = {}
  <2>1. CASE s = <<>>
    BY <2>1 DEF Members
  <2>2. CASE s # <<>>
    <3>1. 1 \in DOMAIN s
      BY <1>1, <2>2
    <3>2. s[1] \in Members(list, d)
      BY <3>1 DEF Members
    <3>3. QED
      BY <2>2, <3>2
  <2>3. QED
    BY <2>1, <2>2
<1>3. ASSUME NEW p \in Packets PROVE Push(list, d, p)[d] # <<>>
  <2>1. Push(list, d, p)[d] = <<p>> \o s /\ Len(<<p>> \o s) = Len(s) + 1
    BY <1>1 DEF Push, Set
  <2>2. Len(<<p>> \o s) # 0
    BY <1>1, <2>1
  <2>3. QED
    BY <2>1, <2>2
<1>4. ASSUME s # <<>> PROVE Len(s) = 1 <=> Popped(list, d)[d] = <<>>
  <2>1. Popped(list, d)[d] = Tail(s)
    BY DEF Popped, Set
  <2>2. Tail(s) \in Seq(Packets) /\ Len(Tail(s)) = Len(s) - 1
    BY <1>1, <1>4
  <2>3. \A r \in Seq(Packets) : r = <<>> <=> Len(r) = 0
    OBVIOUS
  <2>4. Tail(s) = <<>> <=> Len(Tail(s)) = 0
    BY <2>2, <2>3
  <2>5. Len(Tail(s)) = 0 <=> Len(s) = 1
    BY <1>1, <2>2
  <2>6. QED
    BY <2>1, <2>4, <2>5
<1>5. QED
  BY <1>2, <1>3, <1>4

\* A queue is woken over the pool a buffer came back to, by the one thread that brought it.
LEMMA QueuesStep == IInv /\ Control /\ OneUpdate /\ Skbs /\ Queues /\ [QuietNext]_vars => Queues'
<1> SUFFICES ASSUME IInv, Control, OneUpdate, Skbs, Queues, [QuietNext]_vars PROVE Queues'
  OBVIOUS
<1> USE DEF Set, Goto, params, queue, lists, words, skbs, locals
<1>t. Typed /\ Hands /\ Control /\ Skbs /\ Queues /\ PacketsAccounted
  BY DEF IInv, TypeOK
<1>n. Places' /\ Phases'
  BY QuietIsNext, ControlStep DEF Control
<1>p. /\ pc \in [Threads -> Labels] /\ phase \in [Threads -> {"none", "RX", "TX", "timeout"}]
      /\ hand \in [Threads -> Packets \cup {NoPacket}]
      /\ Places /\ Phases
  BY <1>t DEF Typed, Control
<1>b. stopped \in [Devs -> BOOLEAN] /\ up \in [Devs -> BOOLEAN] /\ ppool \in [Devs -> Seq(Packets)]
  BY <1>t DEF Typed
<1>w. \A t \in Threads : pc[t] \in {"test", "wake"}
        => hand[t] \in Packets /\ Home[hand[t]] \in Devs /\ hand[t] \in Members(ppool, Home[hand[t]])
  BY <1>t, PacketsAssumption DEF Hands, Queues, GivenBack
<1>1. CASE UNCHANGED vars
  <2>1. QueueStill
    BY <1>1 DEF QueueStill, vars
  <2>2. QED
    BY <1>t, <1>n, <2>1, StillQueues
<1>2. ASSUME NEW d \in Devs,
             \/ ppool[d] # <<>> /\ ~Waking(d) /\ Open(d)
             \/ rx_queue[d] = <<>> /\ pc[<<Peer(d), "xmit">>] = "idle" /\ Stop(d)
             \/ (use_napi => up[Peer(d)]) /\ (lockup # 0 => d = Sender) /\ Transmit(d)
             \/ QuietTimeout(d) \/ Poll(d)
      PROVE  Queues'
  <2>1. CASE ppool[d] # <<>> /\ ~Waking(d) /\ Open(d)
    <3>1. /\ ppool[d] # <<>> /\ \A t \in Threads : ~Waker(t, d)
          /\ stopped'[d] = FALSE /\ \A e \in Devs \ {d} : stopped'[e] = stopped[e] /\ up'[e] = up[e]
          /\ ppool' = ppool /\ pc' = pc /\ phase' = phase /\ hand' = hand
          /\ bottom' = bottom /\ status' = status
      BY <1>b, <2>1 DEF Open, Waking, Waker
    <3>2. GivenBack' /\ \A e \in Devs, t \in Threads : Waker(t, e)' <=> Waker(t, e)
      BY <1>t, <3>1 DEF Queues, GivenBack, Members, Waker
    <3>3. QueueOf(d)'
      BY <1>t, <3>1, <3>2 DEF Queues, QueueOf
    <3>4. \A e \in Devs \ {d} : SameQueue(e)
      BY <3>1, <3>2 DEF SameQueue
    <3>5. QED
      BY <1>t, <3>2, <3>3, <3>4, SameQueueOf DEF Queues
  <2>2. CASE rx_queue[d] = <<>> /\ pc[<<Peer(d), "xmit">>] = "idle" /\ Stop(d)
    <3>1. /\ pc[Own(d)] = "idle" /\ up'[d] = FALSE /\ phase[Own(d)] = "none"
          /\ stopped'[d] = TRUE /\ \A e \in Devs \ {d} : stopped'[e] = stopped[e] /\ up'[e] = up[e]
          /\ ppool' = ppool /\ pc' = pc /\ phase' = phase /\ hand' = hand
          /\ bottom' = bottom /\ status' = status
      BY <1>p, <1>b, <2>2, OwnFacts DEF Stop, Own, Phases
    <3>2. GivenBack' /\ \A e \in Devs, t \in Threads : Waker(t, e)' <=> Waker(t, e)
      BY <1>t, <3>1 DEF Queues, GivenBack, Members, Waker
    <3>3. QueueOf(d)'
      BY <1>t, <3>1, <3>2 DEF Queues, QueueOf
    <3>4. \A e \in Devs \ {d} : SameQueue(e)
      BY <3>1, <3>2 DEF SameQueue
    <3>5. QED
      BY <1>t, <3>2, <3>3, <3>4, SameQueueOf DEF Queues
  <2>3. CASE (use_napi => up[Peer(d)]) /\ (lockup # 0 => d = Sender) /\ Transmit(d)
    <3>1. /\ pc[Own(d)] = "idle" /\ phase[Own(d)] = "none" /\ ~stopped[d]
          /\ pc' = [pc EXCEPT ![Own(d)] = "get"]
          /\ stopped' = stopped /\ up' = up /\ ppool' = ppool /\ phase' = phase /\ hand' = hand
          /\ bottom' = bottom /\ status' = status
      BY <1>p, <2>3, OwnFacts DEF Transmit, Own, Phases
    <3>2. /\ pc'[Own(d)] = "get" /\ \A u \in Threads \ {Own(d)} : pc'[u] = pc[u]
          /\ \A e \in Devs \ {d} : pc'[Own(e)] = pc[Own(e)]
      <4>1. Own(d) \in Threads /\ \A e \in Devs \ {d} : Own(e) \in Threads \ {Own(d)}
        BY OwnFacts
      <4>2. QED
        BY <1>p, <3>1, <4>1
    <3>3. GivenBack' /\ \A e \in Devs, t \in Threads : Waker(t, e)' <=> Waker(t, e)
      <4>1. \A t \in Threads : pc'[t] \in {"test", "wake"} <=> pc[t] \in {"test", "wake"}
        BY <3>1, <3>2
      <4>2. \A t \in Threads : pc'[t] = "wake" => pc[t] = "wake"
        BY <3>2
      <4>3. QED
        BY <1>t, <3>1, <4>1, <4>2 DEF Queues, GivenBack, Members, Waker
    <3>4. QueueOf(d)'
      BY <1>t, <3>1, <3>2, <3>3 DEF Queues, QueueOf
    <3>5. \A e \in Devs \ {d} : SameQueue(e)
      BY <3>1, <3>2, <3>3 DEF SameQueue
    <3>6. QED
      BY <1>t, <3>3, <3>4, <3>5, SameQueueOf DEF Queues
  <2>4. CASE QuietTimeout(d)
    <3>1. /\ pc[Own(d)] = "idle" /\ ppool[d] # <<>> /\ \A t \in Threads : ~Waker(t, d)
          /\ status[d] = {"TX"} /\ stopped[d]
          /\ pc' = [pc EXCEPT ![Own(d)] = "intr"] /\ phase' = [phase EXCEPT ![Own(d)] = "timeout"]
          /\ stopped' = stopped /\ up' = up /\ ppool' = ppool /\ hand' = hand
          /\ bottom' = bottom /\ status' = [status EXCEPT ![d] = {"TX"}]
      BY <1>p, <2>4, OwnFacts DEF QuietTimeout, Timeout, Own, Waking, Waker
    <3>2. /\ pc'[Own(d)] = "intr" /\ \A u \in Threads \ {Own(d)} : pc'[u] = pc[u]
          /\ phase'[Own(d)] = "timeout"
          /\ \A e \in Devs \ {d} : pc'[Own(e)] = pc[Own(e)] /\ phase'[Own(e)] = phase[Own(e)]
          /\ \A e \in Devs \ {d} : status'[e] = status[e]
      <4>1. Own(d) \in Threads /\ \A e \in Devs \ {d} : Own(e) \in Threads \ {Own(d)}
        BY OwnFacts
      <4>2. status \in [Devs -> SUBSET {"RX", "TX"}]
        BY <1>t DEF Typed
      <4>3. QED
        BY <1>p, <3>1, <4>1, <4>2
    <3>3. GivenBack' /\ \A e \in Devs, t \in Threads : Waker(t, e)' <=> Waker(t, e)
      <4>1. \A t \in Threads : pc'[t] \in {"test", "wake"} <=> pc[t] \in {"test", "wake"}
        BY <3>1, <3>2
      <4>2. \A t \in Threads : pc'[t] = "wake" => pc[t] = "wake"
        BY <3>2
      <4>3. QED
        BY <1>t, <3>1, <4>1, <4>2 DEF Queues, GivenBack, Members, Waker
    <3>4. QueueOf(d)'
      BY <1>t, <3>1, <3>2, <3>3 DEF Queues, QueueOf
    <3>5. \A e \in Devs \ {d} : SameQueue(e)
      BY <3>1, <3>2, <3>3 DEF SameQueue
    <3>6. QED
      BY <1>t, <3>3, <3>4, <3>5, SameQueueOf DEF Queues
  <2>5. CASE Poll(d)
    <3>1. QueueStill
      BY <1>p, <2>5, ThreadFacts DEF QueueStill, Phases, Poll
    <3>2. QED
      BY <1>t, <1>n, <3>1, StillQueues
  <2>6. QED
    BY <1>2, <2>1, <2>2, <2>3, <2>4, <2>5
<1>3. ASSUME NEW t \in Threads, QuietStep(t) PROVE Queues'
  <2>1. CASE Get(t) /\ ~Watched(hand'[t])
    <3> DEFINE d == t[1]
               p == Head(ppool[d])
    <3>1. /\ pc[t] = "get" /\ ppool[d] # <<>> /\ phase[t] = "none"
          /\ pc' = [pc EXCEPT ![t] = "enqueue"] /\ hand' = [hand EXCEPT ![t] = p]
          /\ ppool' = Popped(ppool, d) /\ up' = up /\ phase' = phase
          /\ stopped' = [stopped EXCEPT ![d] = stopped[d] \/ Len(ppool[d]) = 1]
          /\ bottom' = bottom /\ status' = status
      BY <1>p, <2>1 DEF Get, Phases, Popped
    <3>2. t = Own(d) /\ d \in Devs /\ \A e \in Devs \ {d} : Own(e) \in Threads \ {t}
      BY <1>p, <3>1, OwnFacts DEF Places
    <3>3. ~stopped[d] /\ \A u \in Threads : ~Waker(u, d)
      BY <1>t, <3>1, <3>2 DEF Queues, QueueOf
    <3>4. /\ pc'[t] = "enqueue" /\ hand'[t] = p
          /\ \A u \in Threads \ {t} : pc'[u] = pc[u] /\ hand'[u] = hand[u]
          /\ stopped'[d] <=> ppool'[d] = <<>>
          /\ \A e \in Devs \ {d} : stopped'[e] = stopped[e] /\ ppool'[e] = ppool[e]
      <4>1. Len(ppool[d]) = 1 <=> ppool'[d] = <<>>
        BY <1>b, <3>1, <3>2, EmptyFacts
      <4>2. \A e \in Devs \ {d} : ppool'[e] = ppool[e]
        BY <1>b, <3>1 DEF Popped
      <4>3. stopped'[d] <=> Len(ppool[d]) = 1
        BY <1>b, <3>1, <3>2, <3>3
      <4>4. QED
        BY <1>p, <1>b, <3>1, <4>1, <4>2, <4>3
    <3>5. /\ Members(ppool, d) = {p} \cup Members(ppool', d)
          /\ \A e \in Devs \ {d} : Members(ppool', e) = Members(ppool, e)
      BY <1>b, <3>1, <3>2, PopFacts
    <3>6. \A u \in Threads : pc[u] = "test" => hand[u] # p
      BY <2>1, <3>4 DEF Watched
    <3>7. GivenBack'
      <4>1. SUFFICES ASSUME NEW u \in Threads, pc'[u] \in {"test", "wake"}
                     PROVE  /\ hand'[u] \in Members(ppool', Home[hand'[u]])
                            /\ pc'[u] = "wake" => hand'[u] \in bottom'
        BY DEF GivenBack, Members
      <4>2. u # t /\ pc[u] = pc'[u] /\ hand'[u] = hand[u]
        BY <3>4, <4>1
      <4>3. hand[u] \in Members(ppool, Home[hand[u]]) /\ (pc[u] = "wake" => hand[u] \in bottom)
        BY <1>t, <4>1, <4>2 DEF Queues, GivenBack
      <4>4. pc[u] = "wake" => Home[hand[u]] # d
        BY <3>3, <4>3 DEF Waker
      <4>5. hand[u] \in Members(ppool', Home[hand[u]])
        BY <1>w, <3>5, <3>6, <4>1, <4>2, <4>3, <4>4
      <4>6. QED
        BY <3>1, <4>2, <4>3, <4>5
    <3>8. \A e \in Devs, u \in Threads : Waker(u, e)' <=> Waker(u, e)
      <4>1. ~Waker(t, d)' /\ \A e \in Devs : ~Waker(t, e)' /\ ~Waker(t, e)
        BY <3>1, <3>4 DEF Waker
      <4>2. QED
        BY <3>1, <3>4, <4>1 DEF Waker
    <3>9. QueueOf(d)'
      BY <1>t, <3>1, <3>2, <3>3, <3>4, <3>8 DEF QueueOf
    <3>10. \A e \in Devs \ {d} : SameQueue(e)
      BY <3>1, <3>2, <3>4, <3>8 DEF SameQueue
    <3>11. QED
      BY <1>t, <3>7, <3>9, <3>10, SameQueueOf DEF Queues
  <2>2. CASE Enqueue(t)
    <3>1. /\ pc[t] = "enqueue" /\ pc' = [pc EXCEPT ![t] = "check"]
          /\ hand' = [hand EXCEPT ![t] = NoPacket] /\ bottom' \in {bottom \cup {hand[t]}, bottom \ {hand[t]}}
          /\ stopped' = stopped /\ ppool' = ppool /\ up' = up /\ phase' = phase /\ status' = status
      BY <2>2 DEF Enqueue, NextOf
    <3>2. \A u \in Threads : pc[u] \in {"test", "wake"} => hand[u] # hand[t]
      <4>1. hand[t] \in Held /\ hand[t] \in Packets
        BY <1>t, <3>1 DEF Held, Holding, Hands
      <4>2. QED
        BY <1>t, <1>w, <4>1 DEF PacketsAccounted
    <3>3. QueueStill
      BY <1>p, <3>1, <3>2 DEF QueueStill
    <3>4. QED
      BY <1>t, <1>n, <3>3, StillQueues
  <2>3. CASE Release(t)
    <3>p. PICK p \in Packets : p = hand[t]
      BY <1>t, <2>3 DEF Hands, Release
    <3>d. PICK d \in Devs : d = Home[p]
      BY PacketsAssumption
    <3>1. /\ pc[t] = "release" /\ pc' = [pc EXCEPT ![t] = "test"] /\ hand' = hand
          /\ ppool' = Push(ppool, d, p) /\ up' = up /\ phase' = phase /\ stopped' = stopped
          /\ bottom' = NextOf(ppool, d, p) /\ status' = status
      BY <2>3, <3>p, <3>d DEF Release
    <3>2. p \in Held
      BY <3>p, <3>1 DEF Held, Holding
    <3>3. p \notin Members(ppool, d)
      BY <1>t, <3>d, <3>2 DEF PacketsAccounted
    <3>4. \A u \in Threads : pc[u] \in {"test", "wake"} => hand[u] # p
      BY <1>w, <3>d, <3>3
    <3>5. /\ pc'[t] = "test" /\ \A u \in Threads \ {t} : pc'[u] = pc[u]
          /\ \A e \in Devs \ {d} : ppool'[e] = ppool[e]
      BY <1>p, <1>b, <3>1, <3>2 DEF Push
    <3>6. /\ Members(ppool', d) = {p} \cup Members(ppool, d)
          /\ \A e \in Devs \ {d} : Members(ppool', e) = Members(ppool, e)
      BY <1>b, <3>1, <3>2, PushFacts
    <3>7. ppool'[d] # <<>> /\ (ppool[d] = <<>> <=> Members(ppool, d) = {})
      BY <1>b, <3>1, <3>2, EmptyFacts
    <3>8. /\ p \in bottom' <=> ppool[d] = <<>>
          /\ \A q : q # p => (q \in bottom' <=> q \in bottom)
      BY <3>1 DEF NextOf
    <3>9. GivenBack'
      <4>1. SUFFICES ASSUME NEW u \in Threads, pc'[u] \in {"test", "wake"}
                     PROVE  /\ hand[u] \in Members(ppool', Home[hand[u]])
                            /\ pc'[u] = "wake" => hand[u] \in bottom'
        BY <3>1 DEF GivenBack, Members
      <4>2. CASE u = t
        BY <3>p, <3>d, <3>5, <3>6, <4>2
      <4>3. CASE u # t
        <5>1. pc[u] = pc'[u] /\ hand[u] # p
          BY <3>4, <3>5, <4>1, <4>3
        <5>2. hand[u] \in Members(ppool, Home[hand[u]]) /\ (pc[u] = "wake" => hand[u] \in bottom)
          BY <1>t, <4>1, <5>1 DEF Queues, GivenBack
        <5>3. hand[u] \in Members(ppool', Home[hand[u]])
          BY <1>w, <3>6, <4>1, <5>1, <5>2
        <5>4. QED
          BY <3>8, <5>1, <5>2, <5>3
      <4>4. QED
        BY <4>2, <4>3
    <3>10. /\ \A e \in Devs, u \in Threads \ {t} : Waker(u, e)' <=> Waker(u, e)
           /\ \A e \in Devs : ~Waker(t, e) /\ (Waker(t, e)' <=> e = d /\ ppool[d] = <<>>)
      BY <3>p, <3>d, <3>1, <3>4, <3>5, <3>8 DEF Waker
    <3>11. ppool[d] = <<>> => \A u \in Threads : ~Waker(u, d)
      BY <1>w, <3>7 DEF Waker
    <3>12. pc'[Own(d)] = "get" => pc[Own(d)] = "get"
      BY <3>2, <3>5, OwnFacts
    <3>13. pc[Own(d)] = "idle" => pc'[Own(d)] = "idle"
      BY <3>1, <3>2, <3>5, OwnFacts
    <3>14. QueueOf(d)'
      <4>1. QueueOf(d)
        BY <1>t, <3>2 DEF Queues
      <4>2. CASE ppool[d] = <<>>
        BY <3>1, <3>7, <3>10, <3>11, <3>12, <4>1, <4>2 DEF QueueOf
      <4>3. CASE ppool[d] # <<>>
        <5>1. \A u \in Threads : Waker(u, d)' <=> Waker(u, d)
          BY <3>2, <3>10, <4>3
        <5>2. QED
          BY <3>1, <3>7, <3>12, <3>13, <4>1, <4>3, <5>1 DEF QueueOf
      <4>4. QED
        BY <4>2, <4>3
    <3>15. ASSUME NEW e \in Devs \ {d} PROVE SameQueue(e)
      <4>1. pc'[Own(e)] = pc[Own(e)] \/ (pc[Own(e)] = "release" /\ pc'[Own(e)] = "test")
        BY <3>1, <3>5, OwnFacts
      <4>2. \A u \in Threads : Waker(u, e)' <=> Waker(u, e)
        BY <3>10
      <4>3. QED
        BY <3>1, <3>5, <4>1, <4>2 DEF SameQueue
    <3>16. QED
      BY <1>t, <3>9, <3>14, <3>15, SameQueueOf DEF Queues
  <2>4. CASE ReleaseTest(t)
    <3>1. /\ pc[t] = "test" /\ phase' = phase /\ status' = status /\ stopped' = stopped
          /\ ppool' = ppool /\ up' = up /\ bottom' = bottom
          /\ \A u \in Threads \ {t} : pc'[u] = pc[u] /\ hand'[u] = hand[u]
      <4>1. pc' = [pc EXCEPT ![t] = "wake"] \/ pc' = [pc EXCEPT ![t] = "next"]
        BY <2>4 DEF ReleaseTest
      <4>2. hand' = hand \/ hand' = [hand EXCEPT ![t] = NoPacket]
        BY <2>4 DEF ReleaseTest
      <4>3. QED
        BY <1>p, <2>4, <4>1, <4>2 DEF ReleaseTest
    <3>2. hand[t] \in bottom => Waker(t, Home[hand[t]]) /\ stopped[Home[hand[t]]]
      BY <1>t, <1>w, <3>1 DEF Queues, QueueOf, Waker
    <3>3. /\ hand[t] \in bottom => pc'[t] = "wake" /\ hand'[t] = hand[t]
          /\ hand[t] \notin bottom => pc'[t] = "next"
      <4>1. CASE hand[t] \in bottom
        BY <1>p, <2>4, <3>2, <4>1 DEF ReleaseTest
      <4>2. CASE hand[t] \notin bottom
        BY <1>p, <2>4, <4>2 DEF ReleaseTest
      <4>3. QED
        BY <4>1, <4>2
    <3>4. GivenBack'
      <4>1. SUFFICES ASSUME NEW u \in Threads, pc'[u] \in {"test", "wake"}
                     PROVE  /\ hand'[u] \in Members(ppool, Home[hand'[u]])
                            /\ pc'[u] = "wake" => hand'[u] \in bottom
        BY <3>1 DEF GivenBack, Members
      <4>2. hand'[u] = hand[u] /\ pc[u] \in {"test", "wake"}
        BY <3>1, <3>3, <4>1
      <4>3. QED
        BY <1>t, <3>1, <3>3, <4>1, <4>2 DEF Queues, GivenBack
    <3>5. \A e \in Devs, u \in Threads : Waker(u, e)' <=> Waker(u, e)
      BY <3>1, <3>3 DEF Waker
    <3>6. ASSUME NEW e \in Devs PROVE SameQueue(e)
      <4>1. pc'[Own(e)] = pc[Own(e)] \/ (pc[Own(e)] = "test" /\ pc'[Own(e)] \in {"wake", "next"})
        BY <3>1, <3>3, OwnFacts
      <4>2. QED
        BY <3>1, <3>5, <4>1 DEF SameQueue
    <3>7. QED
      BY <1>t, <3>4, <3>6, SameQueueOf DEF Queues
  <2>5. CASE ReleaseWake(t)
    <3>d. PICK d \in Devs : d = Home[hand[t]]
      BY <1>w, <2>5 DEF ReleaseWake
    <3>1. /\ pc[t] = "wake" /\ phase' = phase /\ status' = status
          /\ ppool' = ppool /\ up' = up /\ bottom' = bottom
          /\ pc' = [pc EXCEPT ![t] = "next"] /\ hand' = [hand EXCEPT ![t] = NoPacket]
          /\ stopped' = [stopped EXCEPT ![d] = FALSE]
      BY <2>5, <3>d DEF ReleaseWake, WakeQueue
    <3>2. hand[t] \in Members(ppool, d) /\ Waker(t, d)
      BY <1>t, <1>w, <3>d, <3>1 DEF Queues, GivenBack, Waker
    <3>3. ppool[d] # <<>>
      BY <1>b, <3>2, EmptyFacts
    <3>4. /\ pc'[t] = "next" /\ \A u \in Threads \ {t} : pc'[u] = pc[u] /\ hand'[u] = hand[u]
          /\ stopped'[d] = FALSE /\ \A e \in Devs \ {d} : stopped'[e] = stopped[e]
      BY <1>p, <1>b, <3>1, <3>2
    <3>5. GivenBack'
      <4>1. SUFFICES ASSUME NEW u \in Threads, pc'[u] \in {"test", "wake"}
                     PROVE  /\ hand'[u] \in Members(ppool, Home[hand'[u]])
                            /\ pc'[u] = "wake" => hand'[u] \in bottom
        BY <3>1 DEF GivenBack, Members
      <4>2. hand'[u] = hand[u] /\ pc[u] = pc'[u]
        BY <3>4, <4>1
      <4>3. QED
        BY <1>t, <4>1, <4>2 DEF Queues, GivenBack
    <3>6. /\ \A e \in Devs, u \in Threads \ {t} : Waker(u, e)' <=> Waker(u, e)
          /\ \A e \in Devs : ~Waker(t, e)' /\ (Waker(t, e) <=> e = d)
      BY <3>d, <3>1, <3>2, <3>4 DEF Waker
    <3>7. QueueOf(d)'
      <4>1. \A u \in Threads : ~Waker(u, d)'
        BY <1>t, <3>2, <3>6 DEF Queues, QueueOf
      <4>2. QED
        BY <3>1, <3>3, <3>4, <4>1 DEF QueueOf
    <3>8. ASSUME NEW e \in Devs \ {d} PROVE SameQueue(e)
      <4>1. pc'[Own(e)] = pc[Own(e)] \/ (pc[Own(e)] = "wake" /\ pc'[Own(e)] = "next")
        BY <3>1, <3>4, OwnFacts
      <4>2. \A u \in Threads : Waker(u, e)' <=> Waker(u, e)
        BY <3>6
      <4>3. QED
        BY <3>1, <3>4, <4>1, <4>2 DEF SameQueue
    <3>9. QED
      BY <1>t, <3>5, <3>7, <3>8, SameQueueOf DEF Queues
  <2>6. CASE CheckEnabled(t)
    <3>1. QueueStill
      BY <1>p, <2>6 DEF QueueStill, Phases, CheckEnabled
    <3>2. QED
      BY <1>t, <1>n, <3>1, StillQueues
  <2>7. CASE Updating(Target(t)) = {} /\ StatusLoad(t)
    <3>1. QueueStill
      BY <1>p, <2>7 DEF QueueStill, Phases, StatusLoad
    <3>2. QED
      BY <1>t, <1>n, <3>1, StillQueues
  <2>8. CASE StatusStore(t)
    <3>1. /\ pc[t] = "store" /\ pc'[t] \in {"drop", "intr"} /\ hand' = hand /\ bottom' = bottom
          /\ \A u \in Threads \ {t} : pc'[u] = pc[u]
          /\ stopped' = stopped /\ ppool' = ppool /\ up' = up /\ phase' = phase
          /\ status' = [status EXCEPT ![Target(t)] = word[t] \cup {phase[t]}]
      BY <1>p, <2>8 DEF StatusStore
    <3>2. \A d \in Devs : "TX" \in status[d] => "TX" \in status'[d]
      <4>1. word[t] = status[Target(t)] /\ status \in [Devs -> SUBSET {"RX", "TX"}]
        BY <1>t, <3>1 DEF OneUpdate, Typed
      <4>2. QED
        BY <3>1, <4>1
    <3>3. QueueStill
      BY <3>1, <3>2 DEF QueueStill
    <3>4. QED
      BY <1>t, <1>n, <3>3, StillQueues
  <2>9. CASE RaiseOwn(t)
    <3>1. QueueStill
      BY <1>p, <2>9 DEF QueueStill, Phases, RaiseOwn
    <3>2. QED
      BY <1>t, <1>n, <3>1, StillQueues
  <2>10. CASE DropInterrupt(t)
    <3> DEFINE d == t[1]
    <3>1. /\ pc[t] = "drop" /\ phase[t] = "TX" /\ lockup # 0
          /\ ppool' = ppool /\ up' = up /\ bottom' = bottom /\ status' = status
          /\ pc' = [pc EXCEPT ![t] = "idle"] /\ hand' = [hand EXCEPT ![t] = NoPacket]
          /\ phase' = [phase EXCEPT ![t] = "none"] /\ stopped' = [stopped EXCEPT ![d] = TRUE]
      BY <1>p, <2>10 DEF DropInterrupt, Back, Drops, Phases
    <3>2. t = Own(d) /\ d \in Devs /\ \A e \in Devs \ {d} : Own(e) \in Threads \ {t}
      BY <1>p, <3>1, OwnFacts DEF Places
    <3>3. /\ pc'[t] = "idle" /\ \A u \in Threads \ {t} : pc'[u] = pc[u] /\ hand'[u] = hand[u]
          /\ phase'[t] = "none" /\ \A u \in Threads \ {t} : phase'[u] = phase[u]
          /\ stopped'[d] = TRUE /\ \A e \in Devs \ {d} : stopped'[e] = stopped[e]
      BY <1>p, <1>b, <3>1, <3>2
    <3>4. GivenBack' /\ \A e \in Devs, u \in Threads : Waker(u, e)' <=> Waker(u, e)
      <4>1. \A u \in Threads : /\ pc'[u] \in {"test", "wake"} <=> pc[u] \in {"test", "wake"}
                               /\ pc[u] \in {"test", "wake"} => pc'[u] = pc[u] /\ hand'[u] = hand[u]
        BY <3>1, <3>3
      <4>2. QED
        BY <1>t, <3>1, <4>1 DEF Queues, GivenBack, Members, Waker
    <3>5. QueueOf(d)'
      BY <1>t, <3>1, <3>2, <3>3, <3>4 DEF Queues, QueueOf, Skbs, TxRaised
    <3>6. \A e \in Devs \ {d} : SameQueue(e)
      BY <3>1, <3>2, <3>3, <3>4 DEF SameQueue
    <3>7. QED
      BY <1>t, <3>4, <3>5, <3>6, SameQueueOf DEF Queues
  <2>11. CASE Updating(Target(t)) = {} /\ Interrupt(t)
    <3>1. QueueStill
      BY <1>p, <2>11 DEF QueueStill, Phases, Interrupt
    <3>2. QED
      BY <1>t, <1>n, <3>1, StillQueues
  <2>12. CASE RegularInterrupt(t)
    <3>1. /\ pc[t] = "handle" /\ pc'[t] \in {"release", "next"} /\ bottom' = bottom
          /\ \A u \in Threads \ {t} : pc'[u] = pc[u] /\ hand'[u] = hand[u]
          /\ stopped' = stopped /\ ppool' = ppool /\ up' = up /\ phase' = phase
          /\ status' = [status EXCEPT ![Target(t)] = {}]
      BY <1>p, <2>12 DEF RegularInterrupt
    <3>2. \A d \in Devs : pc[Own(d)] = "idle" /\ "TX" \in status[d] => "TX" \in status'[d]
      <4>1. status \in [Devs -> SUBSET {"RX", "TX"}]
        BY <1>t DEF Typed
      <4>2. QED
        BY <1>t, <3>1, <4>1, HandledIdle
    <3>3. QueueStill
      BY <3>1, <3>2 DEF QueueStill
    <3>4. QED
      BY <1>t, <1>n, <3>3, StillQueues
  <2>13. CASE NapiInterrupt(t)
    <3>1. /\ pc[t] = "handle" /\ pc'[t] \in {"next"} /\ bottom' = bottom
          /\ \A u \in Threads \ {t} : pc'[u] = pc[u] /\ hand'[u] = hand[u]
          /\ stopped' = stopped /\ ppool' = ppool /\ up' = up /\ phase' = phase
          /\ status' = [status EXCEPT ![Target(t)] = {}]
      BY <1>p, <2>13 DEF NapiInterrupt
    <3>2. \A d \in Devs : pc[Own(d)] = "idle" /\ "TX" \in status[d] => "TX" \in status'[d]
      <4>1. status \in [Devs -> SUBSET {"RX", "TX"}]
        BY <1>t DEF Typed
      <4>2. QED
        BY <1>t, <3>1, <4>1, HandledIdle
    <3>3. QueueStill
      BY <3>1, <3>2 DEF QueueStill
    <3>4. QED
      BY <1>t, <1>n, <3>3, StillQueues
  <2>14. CASE AfterReceive(t)
    <3>1. QueueStill
      BY <1>p, <2>14 DEF QueueStill, Phases, AfterReceive
    <3>2. QED
      BY <1>t, <1>n, <3>1, StillQueues
  <2>15. CASE AfterTransmit(t)
    <3>1. QueueStill
      BY <1>p, <2>15 DEF QueueStill, Phases, AfterTransmit, Back
    <3>2. QED
      BY <1>t, <1>n, <3>1, StillQueues
  <2>16. CASE AfterTimeout(t)
    <3> DEFINE d == t[1]
    <3>1. /\ pc[t] = "next" /\ phase[t] = "timeout"
          /\ ppool' = ppool /\ up' = up /\ bottom' = bottom /\ status' = status
          /\ pc' = [pc EXCEPT ![t] = "idle"] /\ hand' = [hand EXCEPT ![t] = NoPacket]
          /\ phase' = [phase EXCEPT ![t] = "none"] /\ stopped' = [stopped EXCEPT ![d] = FALSE]
      BY <1>p, <2>16 DEF AfterTimeout, Back, WakeQueue
    <3>2. t = Own(d) /\ d \in Devs /\ \A e \in Devs \ {d} : Own(e) \in Threads \ {t}
      <4>1. \A e \in Devs : phase[Poller(e)] # phase[t]
        BY <1>p, <3>1 DEF Places
      <4>2. QED
        BY <4>1, OwnFacts
    <3>3. /\ pc'[t] = "idle" /\ \A u \in Threads \ {t} : pc'[u] = pc[u] /\ hand'[u] = hand[u]
          /\ phase'[t] = "none" /\ \A u \in Threads \ {t} : phase'[u] = phase[u]
          /\ stopped'[d] = FALSE /\ \A e \in Devs \ {d} : stopped'[e] = stopped[e]
      BY <1>p, <1>b, <3>1, <3>2
    <3>4. GivenBack' /\ \A e \in Devs, u \in Threads : Waker(u, e)' <=> Waker(u, e)
      <4>1. \A u \in Threads : /\ pc'[u] \in {"test", "wake"} <=> pc[u] \in {"test", "wake"}
                               /\ pc[u] \in {"test", "wake"} => pc'[u] = pc[u] /\ hand'[u] = hand[u]
        BY <3>1, <3>3
      <4>2. QED
        BY <1>t, <3>1, <4>1 DEF Queues, GivenBack, Members, Waker
    <3>5. QueueOf(d)'
      BY <1>t, <3>1, <3>2, <3>3, <3>4 DEF Queues, QueueOf
    <3>6. \A e \in Devs \ {d} : SameQueue(e)
      BY <3>1, <3>2, <3>3, <3>4 DEF SameQueue
    <3>7. QED
      BY <1>t, <3>4, <3>5, <3>6, SameQueueOf DEF Queues
  <2>17. CASE PollDequeue(t)
    <3>1. QueueStill
      BY <1>p, <2>17 DEF QueueStill, Phases, PollDequeue
    <3>2. QED
      BY <1>t, <1>n, <3>1, StillQueues
  <2>18. CASE PollNext(t)
    <3>1. QueueStill
      BY <1>p, <2>18 DEF QueueStill, Phases, PollNext
    <3>2. QED
      BY <1>t, <1>n, <3>1, StillQueues
  <2>19. CASE PollDone(t)
    <3>1. QueueStill
      BY <1>p, <2>19 DEF QueueStill, Phases, PollDone
    <3>2. QED
      BY <1>t, <1>n, <3>1, StillQueues
  <2>20. CASE PollComplete(t)
    <3>1. QueueStill
      BY <1>p, <2>20 DEF QueueStill, Phases, PollComplete
    <3>2. QED
      BY <1>t, <1>n, <3>1, StillQueues
  <2>21. CASE PollEnable(t)
    <3>1. /\ pc[t] = "enable" /\ phase[t] # "timeout" /\ hand' = [hand EXCEPT ![t] = NoPacket]
          /\ pc' = [pc EXCEPT ![t] = "idle"] /\ phase' = [phase EXCEPT ![t] = "none"]
          /\ stopped' = stopped /\ ppool' = ppool /\ up' = up /\ status' = status /\ bottom' = bottom
      <4>1. pc[t] = "enable" /\ t = Poller(t[1]) /\ t[1] \in Devs
        BY <1>p, <2>21, OwnFacts DEF Places, PollEnable
      <4>2. phase[t] = "none"
        BY <1>p, <4>1 DEF Places
      <4>3. QED
        BY <2>21, <4>1, <4>2 DEF PollEnable, Back
    <3>2. QueueStill
      BY <1>p, <3>1 DEF QueueStill
    <3>3. QED
      BY <1>t, <1>n, <3>2, StillQueues
  <2>22. QED
    BY <1>3, <2>1, <2>2, <2>3, <2>4, <2>5, <2>6, <2>7, <2>8, <2>9, <2>10, <2>11, <2>12, <2>13,
       <2>14, <2>15, <2>16, <2>17, <2>18, <2>19, <2>20, <2>21 DEF QuietStep, Rest
<1>4. QED
  BY <1>1, <1>2, <1>3 DEF QuietNext

\* Without NAPI what is queued on the peer of d is the one packet that d announces,
\* from Enqueue until the peer's handler has run.
Announced(d) ==
  \/ pc[Own(d)] = "check"
  \/ phase[Own(d)] = "RX" /\ pc[Own(d)] \in {"load", "store"}
  \/ phase[Own(d)] = "RX" /\ pc[Own(d)] \in {"intr", "handle"} /\ "RX" \in status[Peer(d)]
QueuedOf(d) ==
  /\ Len(rx_queue[Peer(d)]) <= 1
  /\ rx_queue[Peer(d)] # <<>> => Announced(d)
OneQueued == ~use_napi => \A d \in Devs : QueuedOf(d)

\* What a step leaves alone that neither queues, announces nor fetches a packet.
RxStill ==
  /\ use_napi' = use_napi /\ rx_queue' = rx_queue
  /\ \A d \in Devs : "RX" \in status[d] => "RX" \in status'[d]
  /\ \A t \in Threads :
       /\ pc[t] = "check" => pc'[t] = "check"
       /\ phase[t] = "RX" /\ pc[t] \in {"load", "store"}
            => phase'[t] = "RX" /\ pc'[t] \in {"load", "store"}
       /\ phase[t] = "RX" /\ pc[t] \in {"intr", "handle"}
            => phase'[t] = "RX" /\ pc'[t] \in {"intr", "handle"}

\* Then the packet stays announced.
LEMMA StillQueued == OneQueued /\ RxStill => OneQueued'
<1> SUFFICES ASSUME OneQueued, RxStill, ~use_napi, NEW d \in Devs PROVE QueuedOf(d)'
  BY DEF OneQueued, RxStill
<1>1. QueuedOf(d) /\ Own(d) \in Threads /\ Peer(d) \in Devs
  BY OwnFacts, PeerFacts DEF OneQueued
<1>2. Announced(d) => Announced(d)'
  BY <1>1 DEF RxStill, Announced
<1>3. QED
  BY <1>1, <1>2 DEF QueuedOf, RxStill

\* The lengths of a list that holds at most one buffer.
LEMMA ShortFacts ==
  /\ \A r \in Seq(Packets) : r = <<>> <=> Len(r) = 0
  /\ \A r \in Seq(Packets) : Len(r) <= 1 /\ r # <<>> => Tail(r) = <<>>
  /\ \A p \in Packets : Len(<<p>> \o <<>>) = 1
<1>1. \A r \in Seq(Packets) : r = <<>> <=> Len(r) = 0
  OBVIOUS
<1>2. ASSUME NEW r \in Seq(Packets), Len(r) <= 1, r # <<>> PROVE Tail(r) = <<>>
  <2>1. Tail(r) \in Seq(Packets) /\ Len(Tail(r)) = Len(r) - 1 /\ Len(r) \in Nat /\ Len(r) # 0
    BY <1>1, <1>2
  <2>2. Len(Tail(r)) = 0
    BY <1>2, <2>1
  <2>3. QED
    BY <1>1, <2>1, <2>2
<1>3. QED
  BY <1>1, <1>2

\* A packet is fetched by the handler of its own interrupt, before the next is queued.
LEMMA OneQueuedStep == IInv /\ Control /\ OneUpdate /\ OneQueued /\ [QuietNext]_vars => OneQueued'
<1> SUFFICES ASSUME IInv, Control, OneUpdate, OneQueued, [QuietNext]_vars PROVE OneQueued'
  OBVIOUS
<1> USE DEF Set, Goto, params, queue, lists, words, skbs, locals
<1>t. Typed /\ Hands /\ Raises /\ Control /\ OneUpdate /\ OneQueued
  BY DEF IInv, TypeOK
<1>p. /\ pc \in [Threads -> Labels] /\ phase \in [Threads -> {"none", "RX", "TX", "timeout"}]
      /\ Places /\ Phases
  BY <1>t DEF Typed, Control
<1>b. /\ status \in [Devs -> SUBSET {"RX", "TX"}] /\ rx_queue \in [Devs -> Seq(Packets)]
  BY <1>t DEF Typed
<1>a. ASSUME ~use_napi => FALSE, use_napi' = use_napi PROVE OneQueued'
  BY <1>a DEF OneQueued
<1>1. CASE UNCHANGED vars
  <2>1. RxStill
    BY <1>1 DEF RxStill, vars
  <2>2. QED
    BY <1>t, <2>1, StillQueued
<1>2. ASSUME NEW d \in Devs,
             \/ ppool[d] # <<>> /\ ~Waking(d) /\ Open(d)
             \/ rx_queue[d] = <<>> /\ pc[<<Peer(d), "xmit">>] = "idle" /\ Stop(d)
             \/ (use_napi => up[Peer(d)]) /\ (lockup # 0 => d = Sender) /\ Transmit(d)
             \/ QuietTimeout(d) \/ Poll(d)
      PROVE  OneQueued'
  <2>1. CASE ppool[d] # <<>> /\ ~Waking(d) /\ Open(d)
    <3>1. RxStill
      BY <1>p, <2>1, ThreadFacts DEF RxStill, Phases, Open
    <3>2. QED
      BY <1>t, <3>1, StillQueued
  <2>2. CASE rx_queue[d] = <<>> /\ pc[<<Peer(d), "xmit">>] = "idle" /\ Stop(d)
    <3>1. RxStill
      BY <1>p, <2>2, ThreadFacts DEF RxStill, Phases, Stop
    <3>2. QED
      BY <1>t, <3>1, StillQueued
  <2>3. CASE (use_napi => up[Peer(d)]) /\ (lockup # 0 => d = Sender) /\ Transmit(d)
    <3>1. RxStill
      BY <1>p, <2>3, ThreadFacts DEF RxStill, Phases, Transmit
    <3>2. QED
      BY <1>t, <3>1, StillQueued
  <2>4. CASE QuietTimeout(d)
    <3>1. /\ pc[Own(d)] = "idle" /\ status[d] = {"TX"} /\ phase[Own(d)] = "none"
          /\ pc' = [pc EXCEPT ![Own(d)] = "intr"] /\ phase' = [phase EXCEPT ![Own(d)] = "timeout"]
          /\ status' = [status EXCEPT ![d] = {"TX"}] /\ rx_queue' = rx_queue /\ use_napi' = use_napi
      BY <1>p, <2>4, OwnFacts DEF QuietTimeout, Timeout, Own, Phases
    <3>2. RxStill
      BY <1>p, <1>b, <3>1 DEF RxStill
    <3>3. QED
      BY <1>t, <3>2, StillQueued
  <2>5. CASE Poll(d)
    <3>1. RxStill
      BY <1>p, <2>5, ThreadFacts DEF RxStill, Phases, Poll
    <3>2. QED
      BY <1>t, <3>1, StillQueued
  <2>6. QED
    BY <1>2, <2>1, <2>2, <2>3, <2>4, <2>5
<1>3. ASSUME NEW t \in Threads, QuietStep(t) PROVE OneQueued'
  <2>1. CASE Get(t) /\ ~Watched(hand'[t])
    <3>1. RxStill
      BY <1>p, <2>1 DEF RxStill, Phases, Get
    <3>2. QED
      BY <1>t, <3>1, StillQueued
  <2>2. CASE Enqueue(t)
    <3> DEFINE d == t[1]
    <3>1. /\ pc[t] = "enqueue" /\ hand[t] \in Packets /\ phase[t] = "none"
          /\ pc' = [pc EXCEPT ![t] = "check"] /\ phase' = phase /\ status' = status
          /\ rx_queue' = Push(rx_queue, Peer(d), hand[t]) /\ use_napi' = use_napi
      BY <1>t, <1>p, <2>2 DEF Enqueue, Hands, Phases
    <3>2. t = Own(d) /\ d \in Devs /\ Peer(d) \in Devs
      BY <1>p, <3>1, OwnFacts, PeerFacts DEF Places
    <3>3. \A e \in Devs \ {d} : Own(e) \in Threads \ {t} /\ Peer(e) \in Devs \ {Peer(d)}
      BY <3>2, OwnFacts, PeerFacts
    <3>4. ASSUME ~use_napi, NEW e \in Devs PROVE QueuedOf(e)'
      <4>1. QueuedOf(e)
        BY <1>t, <3>4 DEF OneQueued
      <4>2. CASE e = d
        <5>1. ~Announced(d)
          BY <3>1, <3>2 DEF Announced
        <5>2. rx_queue[Peer(d)] = <<>>
          BY <4>1, <4>2, <5>1 DEF QueuedOf
        <5>3. rx_queue'[Peer(d)] = <<hand[t]>> \o <<>>
          BY <1>b, <3>1, <3>2, <5>2 DEF Push
        <5>4. Len(rx_queue'[Peer(d)]) = 1
          BY <3>1, <5>3, ShortFacts
        <5>5. pc'[Own(d)] = "check"
          BY <1>p, <3>1, <3>2
        <5>6. QED
          BY <4>2, <5>4, <5>5 DEF QueuedOf, Announced
      <4>3. CASE e # d
        <5>1. rx_queue'[Peer(e)] = rx_queue[Peer(e)] /\ pc'[Own(e)] = pc[Own(e)]
          BY <1>p, <1>b, <3>1, <3>2, <3>3, <4>3 DEF Push
        <5>2. QED
          BY <3>1, <4>1, <5>1 DEF QueuedOf, Announced
      <4>4. QED
        BY <4>2, <4>3
    <3>5. QED
      BY <3>1, <3>4 DEF OneQueued
  <2>3. CASE Release(t)
    <3>1. RxStill
      BY <1>p, <2>3 DEF RxStill, Phases, Release
    <3>2. QED
      BY <1>t, <3>1, StillQueued
  <2>4. CASE ReleaseTest(t)
    <3>1. /\ pc[t] = "test" /\ phase' = phase /\ status' = status
          /\ rx_queue' = rx_queue /\ use_napi' = use_napi
          /\ \/ pc' = [pc EXCEPT ![t] = "wake"]
             \/ pc' = [pc EXCEPT ![t] = "next"]
      BY <2>4 DEF ReleaseTest
    <3>2. RxStill
      BY <1>p, <3>1 DEF RxStill
    <3>3. QED
      BY <1>t, <3>2, StillQueued
  <2>5. CASE ReleaseWake(t)
    <3>1. RxStill
      BY <1>p, <2>5 DEF RxStill, Phases, ReleaseWake, WakeQueue
    <3>2. QED
      BY <1>t, <3>1, StillQueued
  <2>6. CASE CheckEnabled(t)
    <3> DEFINE d == t[1]
    <3>1. /\ pc[t] = "check" /\ pc' = [pc EXCEPT ![t] = "load"] /\ status' = status
          /\ phase' = [phase EXCEPT ![t] = IF rx_int_enabled[Peer(d)] THEN "RX" ELSE "TX"]
          /\ rx_queue' = rx_queue /\ use_napi' = use_napi
      BY <2>6 DEF CheckEnabled
    <3>2. t = Own(d) /\ d \in Devs /\ Peer(d) \in Devs /\ \A e \in Devs \ {d} : Own(e) \in Threads \ {t}
      BY <1>p, <3>1, OwnFacts, PeerFacts DEF Places
    <3>3. ASSUME ~use_napi, NEW e \in Devs PROVE QueuedOf(e)'
      <4>1. QueuedOf(e)
        BY <1>t, <3>3 DEF OneQueued
      <4>2. CASE e = d
        <5>1. rx_int_enabled[Peer(d)]
          BY <1>t, <3>2, <3>3 DEF Control, NoPoll
        <5>2. phase'[Own(d)] = "RX" /\ pc'[Own(d)] = "load"
          BY <1>p, <3>1, <3>2, <5>1
        <5>3. QED
          BY <3>1, <4>1, <4>2, <5>2 DEF QueuedOf, Announced
      <4>3. CASE e # d
        <5>1. phase'[Own(e)] = phase[Own(e)] /\ pc'[Own(e)] = pc[Own(e)]
          BY <1>p, <3>1, <3>2, <4>3
        <5>2. QED
          BY <3>1, <4>1, <5>1 DEF QueuedOf, Announced
      <4>4. QED
        BY <4>2, <4>3
    <3>4. QED
      BY <3>1, <3>3 DEF OneQueued
  <2>7. CASE Updating(Target(t)) = {} /\ StatusLoad(t)
    <3>1. RxStill
      BY <1>p, <2>7 DEF RxStill, Phases, StatusLoad
    <3>2. QED
      BY <1>t, <3>1, StillQueued
  <2>8. CASE StatusStore(t)
    <3> DEFINE d == t[1]
    <3>1. /\ pc[t] = "store" /\ phase[t] \in {"RX", "TX"} /\ phase' = phase
          /\ pc' = [pc EXCEPT ![t] = IF phase[t] = "TX" THEN "drop" ELSE "intr"]
          /\ status' = [status EXCEPT ![Target(t)] = status[Target(t)] \cup {phase[t]}]
          /\ rx_queue' = rx_queue /\ use_napi' = use_napi /\ Target(t) \in Devs
          /\ phase[t] = "RX" => Target(t) = Peer(d)
      BY <1>t, <1>p, <2>8, TargetFacts DEF StatusStore, OneUpdate, Raises, Target
    <3>2. t = Own(d) /\ d \in Devs /\ Peer(d) \in Devs
          /\ \A e \in Devs \ {d} : Own(e) \in Threads \ {t} /\ Peer(e) \in Devs
      BY <1>p, <3>1, OwnFacts, PeerFacts DEF Places
    <3>3. \A e \in Devs : "RX" \in status[e] => "RX" \in status'[e]
      BY <1>b, <3>1
    <3>4. ASSUME ~use_napi, NEW e \in Devs PROVE QueuedOf(e)'
      <4>1. QueuedOf(e)
        BY <1>t, <3>4 DEF OneQueued
      <4>2. CASE e = d
        <5>1. CASE phase[t] = "RX"
          <6>1. phase'[Own(d)] = "RX" /\ pc'[Own(d)] = "intr" /\ "RX" \in status'[Peer(d)]
            BY <1>p, <1>b, <3>1, <3>2, <5>1
          <6>2. QED
            BY <3>1, <4>1, <4>2, <6>1 DEF QueuedOf, Announced
        <5>2. CASE phase[t] = "TX"
          <6>1. ~Announced(d)
            BY <3>1, <3>2, <5>2 DEF Announced
          <6>2. QED
            BY <3>1, <4>1, <4>2, <6>1 DEF QueuedOf
        <5>3. QED
          BY <3>1, <5>1, <5>2
      <4>3. CASE e # d
        <5>1. phase'[Own(e)] = phase[Own(e)] /\ pc'[Own(e)] = pc[Own(e)] /\ Peer(e) \in Devs
          BY <1>p, <3>1, <3>2, <4>3
        <5>2. QED
          BY <3>1, <3>3, <4>1, <5>1 DEF QueuedOf, Announced
      <4>4. QED
        BY <4>2, <4>3
    <3>5. QED
      BY <3>1, <3>4 DEF OneQueued
  <2>9. CASE RaiseOwn(t)
    <3>1. RxStill
      BY <1>p, <2>9 DEF RxStill, Phases, RaiseOwn
    <3>2. QED
      BY <1>t, <3>1, StillQueued
  <2>10. CASE DropInterrupt(t)
    <3>1. RxStill
      BY <1>p, <2>10 DEF RxStill, Phases, DropInterrupt, Back
    <3>2. QED
      BY <1>t, <3>1, StillQueued
  <2>11. CASE Updating(Target(t)) = {} /\ Interrupt(t)
    <3>1. RxStill
      BY <1>p, <2>11 DEF RxStill, Phases, Interrupt
    <3>2. QED
      BY <1>t, <3>1, StillQueued
  <2>12. CASE RegularInterrupt(t)
    <3>d. PICK d \in Devs : d = Target(t)
      BY TargetFacts
    <3>s. PICK s \in Devs : s = Peer(d) /\ Peer(s) = d
      BY PeerFacts
    <3>1. /\ pc[t] = "handle" /\ phase' = phase /\ ~use_napi /\ use_napi' = use_napi
          /\ \A u \in Threads \ {t} : pc'[u] = pc[u]
          /\ status' = [status EXCEPT ![d] = {}] /\ word[t] = status[d]
          /\ IF "RX" \in status[d] /\ rx_queue[d] # <<>>
               THEN rx_queue' = Popped(rx_queue, d)
               ELSE rx_queue' = rx_queue
      BY <1>t, <1>p, <2>12, <3>d DEF RegularInterrupt, OneUpdate, Popped
    <3>2. \A e \in Devs \ {s} : Peer(e) \in Devs \ {d}
      BY <3>s, PeerFacts
    <3>3. \A e \in Devs : QueuedOf(e)
      BY <1>t, <3>1 DEF OneQueued
    <3>4. CASE "RX" \in status[d] /\ rx_queue[d] # <<>>
      <4>1. rx_queue'[d] = Tail(rx_queue[d]) /\ \A e \in Devs \ {d} : rx_queue'[e] = rx_queue[e]
        BY <1>b, <3>1, <3>4 DEF Popped
      <4>2. rx_queue'[d] = <<>> /\ Len(rx_queue'[d]) <= 1
        BY <1>b, <3>s, <3>3, <3>4, <4>1, ShortFacts DEF QueuedOf
      <4>3. QueuedOf(s)'
        BY <3>s, <4>2 DEF QueuedOf
      <4>4. ASSUME NEW e \in Devs \ {s} PROVE QueuedOf(e)'
        <5>1. rx_queue'[Peer(e)] = rx_queue[Peer(e)] /\ status'[Peer(e)] = status[Peer(e)]
          BY <1>b, <3>1, <3>2, <4>1
        <5>2. Own(e) # t \/ phase[Own(e)] # "RX"
          BY <3>d, <3>2 DEF Target, Own
        <5>3. Announced(e) => Announced(e)'
          BY <3>1, <5>1, <5>2, OwnFacts DEF Announced
        <5>4. QED
          BY <3>3, <5>1, <5>3 DEF QueuedOf
      <4>5. QED
        BY <4>3, <4>4 DEF OneQueued
    <3>5. CASE ~("RX" \in status[d] /\ rx_queue[d] # <<>>)
      <4>1. rx_queue' = rx_queue
        BY <3>1, <3>5
      <4>2. ASSUME NEW e \in Devs, rx_queue[Peer(e)] # <<>> PROVE Announced(e)'
        <5>1. Announced(e) /\ Peer(e) \in Devs
          BY <3>3, <4>2, PeerFacts DEF QueuedOf
        <5>2. CASE Peer(e) = d
          <6>1. "RX" \notin status[Peer(e)]
            BY <3>5, <4>2, <5>2
          <6>2. Own(e) # t
            BY <3>1, <5>1, <6>1 DEF Announced
          <6>3. QED
            BY <3>1, <5>1, <6>1, <6>2, OwnFacts DEF Announced
        <5>3. CASE Peer(e) # d
          <6>1. status'[Peer(e)] = status[Peer(e)]
            BY <1>b, <3>1, <5>1, <5>3
          <6>2. Own(e) # t \/ phase[Own(e)] # "RX"
            BY <3>d, <5>3 DEF Target, Own
          <6>3. QED
            BY <3>1, <5>1, <6>1, <6>2, OwnFacts DEF Announced
        <5>4. QED
          BY <5>2, <5>3
      <4>3. QED
        BY <3>3, <4>1, <4>2 DEF OneQueued, QueuedOf
    <3>6. QED
      BY <3>4, <3>5
  <2>13. CASE NapiInterrupt(t)
    <3>1. use_napi /\ use_napi' = use_napi
      BY <2>13 DEF NapiInterrupt
    <3>2. QED
      BY <1>a, <3>1
  <2>14. CASE AfterReceive(t)
    <3>1. RxStill
      BY <1>p, <2>14 DEF RxStill, Phases, AfterReceive
    <3>2. QED
      BY <1>t, <3>1, StillQueued
  <2>15. CASE AfterTransmit(t)
    <3>1. RxStill
      BY <1>p, <2>15 DEF RxStill, Phases, AfterTransmit, Back
    <3>2. QED
      BY <1>t, <3>1, StillQueued
  <2>16. CASE AfterTimeout(t)
    <3>1. RxStill
      BY <1>p, <2>16 DEF RxStill, Phases, AfterTimeout, Back, WakeQueue
    <3>2. QED
      BY <1>t, <3>1, StillQueued
  <2>17. CASE PollDequeue(t)
    <3>1. pc[t] = "loop" /\ use_napi' = use_napi
      BY <2>17 DEF PollDequeue
    <3>2. t = Poller(t[1]) /\ t[1] \in Devs
      BY <1>p, <3>1, OwnFacts DEF Places
    <3>3. use_napi
      BY <1>t, <3>1, <3>2 DEF Control, NoPoll
    <3>4. QED
      BY <1>a, <3>1, <3>3
  <2>18. CASE PollNext(t)
    <3>1. RxStill
      BY <1>p, <2>18 DEF RxStill, Phases, PollNext
    <3>2. QED
      BY <1>t, <3>1, StillQueued
  <2>19. CASE PollDone(t)
    <3>1. RxStill
      BY <1>p, <2>19 DEF RxStill, Phases, PollDone
    <3>2. QED
      BY <1>t, <3>1, StillQueued
  <2>20. CASE PollComplete(t)
    <3>1. RxStill
      BY <1>p, <2>20 DEF RxStill, Phases, PollComplete
    <3>2. QED
      BY <1>t, <3>1, StillQueued
  <2>21. CASE PollEnable(t)
    <3>1. RxStill
      BY <1>p, <2>21 DEF RxStill, Phases, PollEnable, Back
    <3>2. QED
      BY <1>t, <3>1, StillQueued
  <2>22. QED
    BY <1>3, <2>1, <2>2, <2>3, <2>4, <2>5, <2>6, <2>7, <2>8, <2>9, <2>10, <2>11, <2>12, <2>13,
       <2>14, <2>15, <2>16, <2>17, <2>18, <2>19, <2>20, <2>21 DEF QuietStep, Rest
<1>4. QED
  BY <1>1, <1>2, <1>3 DEF QuietNext

-----------------------------------------------------------------------------
\* All of it.
QuietInv == IInv /\ Control /\ OneUpdate /\ Skbs /\ Queues /\ OneQueued

\* At first nothing is sent and every pool is full.
LEMMA QuietInitially == Init => QuietInv
<1> SUFFICES ASSUME Init PROVE QuietInv
  OBVIOUS
<1>1. IInv
  BY Initially
<1>2. /\ \A t \in Threads : pc[t] = "idle" /\ phase[t] = "none"
      /\ \A d \in Devs : /\ status[d] = {} /\ skb[d] = "none" /\ rx_queue[d] = <<>>
                         /\ stopped[d] = FALSE /\ ppool[d] = Pool[d]
                         /\ rx_int_enabled[d] = TRUE /\ scheduled[d] = FALSE
  BY DEF Init
<1>3. Control /\ OneUpdate
  BY <1>2, OwnFacts DEF Control, Places, Phases, NoPoll, OneUpdate
<1>4. Skbs
  BY <1>2, OwnFacts DEF Skbs, OneWay, TxRaised, SkbSent, Unraised, Unraising, SkbFreedOnce
<1>5. Queues
  <2>1. GivenBack /\ \A t \in Threads, d \in Devs : ~Waker(t, d)
    BY <1>2 DEF GivenBack, Waker
  <2>2. \A d \in Devs : ppool[d] # <<>>
    BY <1>2, PoolAssumption
  <2>3. \A d \in Devs : QueueOf(d)
    BY <1>2, <2>1, <2>2, OwnFacts DEF QueueOf
  <2>4. QED
    BY <2>1, <2>3 DEF Queues
<1>6. OneQueued
  <2>1. \A d \in Devs : rx_queue[Peer(d)] = <<>>
    BY <1>2, PeerFacts
  <2>2. Len(<<>>) <= 1
    OBVIOUS
  <2>3. QED
    BY <2>1, <2>2 DEF OneQueued, QueuedOf
<1>7. QED
  BY <1>1, <1>3, <1>4, <1>5, <1>6 DEF QuietInv

\* No step of the quiet usage leaves the invariant.
LEMMA QuietInductive == QuietInv /\ [QuietNext]_vars => QuietInv'
BY QuietIsNext, Inductive, ControlStep, OneUpdateStep, SkbsStep, QueuesStep, OneQueuedStep DEF QuietInv

\* The invariant holds throughout the quiet usage.
THEOREM QuietInvariance == QuietSpec => []QuietInv
BY QuietInitially, QuietInductive, PTL DEF QuietSpec

\* snull_get_tx_buffer never follows a NULL pointer: the queue is stopped with the
\* last buffer and started over one (snull.c:132-161).
THEOREM PoolsNotEmpty == QuietSpec => []PoolNotEmpty
<1>1. QuietInv => PoolNotEmpty
  <2> SUFFICES ASSUME QuietInv, NEW t \in Threads, pc[t] = "get" PROVE ppool[t[1]] # <<>>
    BY DEF PoolNotEmpty
  <2>1. t = Own(t[1]) /\ t[1] \in Devs
    BY OwnFacts DEF QuietInv, Control, Places
  <2>2. QED
    BY <2>1 DEF QuietInv, Queues, QueueOf
<1>2. QED
  BY <1>1, QuietInvariance, PTL

\* No queue is left stopped over a pool with a free buffer (snull.c:141, 159, 498).
THEOREM QueuesWoken == QuietSpec => []QueueWoken
<1>1. QuietInv => QueueWoken
  <2> SUFFICES ASSUME QuietInv, NEW d \in Devs, up[d], stopped[d], ppool[d] # <<>>
               PROVE  Waking(d) \/ "TX" \in status[d] \/ pc[<<d, "xmit">>] # "idle"
    BY DEF QueueWoken
  <2>1. \/ \E t \in Threads : Waker(t, d)
        \/ pc[Own(d)] = "idle" /\ "TX" \in status[d]
        \/ phase[Own(d)] = "timeout"
    BY DEF QuietInv, Queues, QueueOf
  <2>2. phase[Own(d)] = "timeout" => pc[Own(d)] # "idle"
    BY OwnFacts DEF QuietInv, Control, Phases
  <2>3. QED
    BY <2>1, <2>2 DEF Waker, Waking, Own
<1>2. QED
  BY <1>1, QuietInvariance, PTL

\* No skb is freed twice (snull.c:369, 412).
THEOREM SkbsFreedOnce == QuietSpec => []SkbFreedOnce
<1>1. QuietInv => SkbFreedOnce
  BY DEF QuietInv, Skbs
<1>2. QED
  BY <1>1, QuietInvariance, PTL

\* Without NAPI a queue holds at most one packet, and somebody is about to fetch it
\* (snull.c:169, 357-364).
THEOREM AllFetched == QuietSpec => []PacketsFetched
<1>1. QuietInv => PacketsFetched
  <2> SUFFICES ASSUME QuietInv, ~use_napi, NEW d \in Devs
               PROVE  Len(rx_queue[d]) <= 1 /\ (rx_queue[d] # <<>> => Coming(d))
    BY DEF PacketsFetched
  <2>s. PICK s \in Devs : s = Peer(d) /\ Peer(s) = d
    BY PeerFacts
  <2>1. QueuedOf(s) /\ rx_int_enabled[d] /\ Own(s) \in Threads /\ Own(s)[1] = s
    BY OwnFacts DEF QuietInv, OneQueued, Control, NoPoll
  <2>2. Announced(s) => Coming(d)
    BY <2>s, <2>1 DEF Announced, Coming, Raising
  <2>3. QED
    BY <2>s, <2>1, <2>2 DEF QueuedOf
<1>2. QED
  BY <1>1, QuietInvariance, PTL
=============================================================================

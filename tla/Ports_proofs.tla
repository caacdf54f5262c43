---------------------------- MODULE Ports_proofs ----------------------------
(***************************************************************************)
(* Proofs about the drivers and modules that MCPorts runs, for any readers *)
(* and writers, any sizes of the rings and any number of interrupts.       *)
(***************************************************************************)
EXTENDS MCPorts, SequenceTheorems, TLAPS

USE SizesAssumption, NamesAssumption

-----------------------------------------------------------------------------
(***************************************************************************)
(* short: what is installed and held.                                      *)
(***************************************************************************)
ShortTypes ==
  /\ irq \in Int /\ opt \in Options
  /\ phase \in {"unloaded", "probe", "install", "swap", "live"}
  /\ handler \in {"none", "probing", "plain", "shared", "wq", "tasklet"}
  /\ held \subseteq {"mem", "ports", "major", "page"}

\* A handler that stays is on a line that cleanup will free.
ShortLoaded ==
  /\ phase = "unloaded" => handler = "none" /\ held \subseteq {"mem"}
                           /\ (pending => opt.bh = "tasklet")
  /\ phase \in {"probe", "install"} => handler \in {"none", "probing"}
  /\ handler = "probing" => phase = "probe" /\ opt.probe = 2
  /\ phase = "swap" \/ (phase = "live" /\ handler # "none") => irq >= 0
  /\ handler \in {"wq", "tasklet"} => phase = "live"
  /\ bh # "idle" => phase = "live"

\* What the loads that are tried ask for.
LEMMA OptionsType ==
  \A o \in Options : /\ o.bh \in {"none", "wq", "tasklet"}
                     /\ S!Region(o) \in {"mem", "ports"}
BY DEF Options, Load, S!Region

\* Nothing is installed before the first load.
LEMMA ShortLoadedInit == S!LinesInit /\ S!HalvesInit /\ phase = "unloaded" => ShortTypes /\ ShortLoaded
<1> SUFFICES ASSUME S!LinesInit, S!HalvesInit, phase = "unloaded"
             PROVE  ShortTypes /\ ShortLoaded
  OBVIOUS
<1>1. Options # {}  BY DEF Options
<1>2. opt \in Options  BY <1>1 DEF S!LinesInit
<1> QED BY <1>2 DEF S!LinesInit, S!HalvesInit, ShortTypes, ShortLoaded

\* Every step of short, the failures of its load included.
LEMMA ShortLoadedStep == ShortTypes /\ ShortLoaded /\ S!Next => ShortTypes' /\ ShortLoaded'
<1> SUFFICES ASSUME ShortTypes, ShortLoaded, S!Next PROVE ShortTypes' /\ ShortLoaded'
  OBVIOUS
<1> USE DEF ShortTypes, ShortLoaded
<1>1. CASE S!Register
  <2>1. PICK o \in Options :
          /\ opt' = o
          /\ \/ held' = (held \cup {S!Region(o)}) \ {"ports"} /\ UNCHANGED phase
             \/ held' = held \cup {S!Region(o), "major", "page"} /\ phase' = "probe"
    BY <1>1 DEF S!Register
  <2>2. /\ phase = "unloaded" /\ ~pending /\ irq' = -1
        /\ UNCHANGED <<handler, bh, pending>>
    BY <1>1 DEF S!Register, S!halves
  <2>3. S!Region(o) \in {"mem", "ports"} /\ o \in Options  BY OptionsType
  <2>4. /\ held' \subseteq {"mem", "ports", "major", "page"}
        /\ phase' = "unloaded" => held' \subseteq {"mem"}
    BY <2>1, <2>2, <2>3
  <2>5. phase' \in {"unloaded", "probe"}  BY <2>1, <2>2
  <2>6. irq' \in Int /\ opt' \in Options  BY <2>1, <2>2
  <2>7. handler' = "none" /\ bh' = "idle" /\ ~pending'  BY <2>2
  <2> QED BY <2>4, <2>5, <2>6, <2>7
<1>2. CASE S!short_kernelprobe
  BY <1>2 DEF S!short_kernelprobe, S!halves, S!Line
<1>3. CASE S!short_selfprobe
  BY <1>3 DEF S!short_selfprobe, S!halves
<1>4. CASE S!short_probing
  <2>1. PICK line \in {5, 7} : irq' = IF irq \in {0, line} THEN line ELSE -line
    BY <1>4 DEF S!short_probing, S!Line
  <2>2. line \in Int /\ -line \in Int  OBVIOUS
  <2>3. irq' \in Int  BY <2>1, <2>2, Zenon
  <2> QED BY <1>4, <2>3 DEF S!short_probing, S!halves
<1>5. CASE S!SelfprobeEnd
  BY <1>5 DEF S!SelfprobeEnd, S!halves
<1>6. CASE S!Install
  <2>1. S!DefaultLine \in Nat  BY DEF S!DefaultLine, S!Line
  <2> QED BY <1>6, <2>1 DEF S!Install, S!halves
<1>7. CASE S!Swap
  BY <1>7, OptionsType DEF S!Swap, S!halves
<1>8. CASE S!short_cleanup
  BY <1>8 DEF S!short_cleanup
<1>9. CASE S!short_interrupt \/ S!short_sh_interrupt
  BY <1>9 DEF S!short_interrupt, S!short_sh_interrupt, S!Taken, S!loading, S!lines
<1>10. CASE S!short_wq_interrupt \/ S!short_tl_interrupt
  BY <1>10 DEF S!short_wq_interrupt, S!short_tl_interrupt, S!TopHalf, S!Taken, S!loading,
               S!lines
<1>11. CASE S!short_do_tasklet
  BY <1>11 DEF S!short_do_tasklet, S!BhStart, S!BhCount, S!BhTime, S!BhWake, S!loading,
               S!lines
<1>12. CASE \E r \in Readers : S!Read(r)
  BY <1>12 DEF S!Read, S!loading, S!lines, S!halves
<1> QED BY <1>1, <1>2, <1>3, <1>4, <1>5, <1>6, <1>7, <1>8, <1>9, <1>10, <1>11, <1>12
    DEF S!Next, S!short_init

-----------------------------------------------------------------------------
(***************************************************************************)
(* short: stamps between the top and the bottom half.                      *)
(***************************************************************************)
TvTypes ==
  /\ irqs \in Nat /\ tv_head \in 0..(T - 1) /\ tv_tail \in 0..(T - 1)
  /\ tv \in [0..(T - 1) -> Int]

\* The entries that a bottom half that is running, or the next one, will take: all of
\* them when the tail is at the head.
Ahead == IF tv_head > tv_tail THEN tv_head - tv_tail ELSE tv_head - tv_tail + T

\* The entry of the i-th last interrupt.
Entry(i) == IF i <= tv_head THEN tv_head - i ELSE tv_head - i + T

\* The first k interrupts have their stamp written; those of the others are in the last
\* entries, all of them ahead of the tail, and the other entries are old.
Stamped(k) ==
  /\ stamped = 1..k /\ irqs - k <= Ahead
  /\ \A i \in 1..T : IF i <= irqs - k THEN tv[Entry(i)] = irqs + 1 - i
                                     ELSE tv[Entry(i)] \in 0..k
  /\ k < irqs => /\ pending \/ bh \in {"count", "times"}
                 /\ handler \in {"wq", "tasklet"}

StampsKept == TvTypes /\ (~over => \E k \in 0..irqs : Stamped(k))

\* One step round the array.
LEMMA NextEntry ==
  ASSUME NEW x \in 0..(T - 1)
  PROVE  S!short_incr_tv(x) = IF x = T - 1 THEN 0 ELSE x + 1
BY DEF S!short_incr_tv

\* No interrupt has come.
LEMMA StampsInit == S!HalvesInit => StampsKept
<1> SUFFICES ASSUME S!HalvesInit PROVE StampsKept
  OBVIOUS
<1>1. TvTypes  BY DEF S!HalvesInit, TvTypes
<1>2. \A i \in 1..T : Entry(i) \in 0..(T - 1)  BY DEF S!HalvesInit, Entry
<1>3. Stamped(0)  BY <1>2 DEF S!HalvesInit, Stamped, Ahead
<1> QED BY <1>1, <1>3 DEF StampsKept, TvTypes

\* An interrupt of a top half.
LEMMA TopHalfStamps ==
  ASSUME TvTypes, NEW k \in 0..irqs, Stamped(k), NEW kind \in {"wq", "tasklet"},
         S!TopHalf(kind), ~over'
  PROVE  Stamped(k)'
<1>1. /\ handler = kind /\ handler' = handler
      /\ irqs' = irqs + 1 /\ tv' = [tv EXCEPT ![tv_head] = irqs + 1]
      /\ tv_head' = (IF tv_head = T - 1 THEN 0 ELSE tv_head + 1) /\ tv_tail' = tv_tail
      /\ pending' = TRUE /\ stamped' = stamped
  BY NextEntry DEF S!TopHalf, S!Taken, S!loading, S!lines, TvTypes
<1>2. tv_head # tv_tail \/ k = irqs
  <2>1. tv_head # tv_tail \/ stamped = 1..irqs  BY DEF S!TopHalf
  <2>2. stamped = 1..irqs => k = irqs
    <3>1. k < irqs => irqs \in 1..irqs /\ irqs \notin 1..k  BY DEF TvTypes
    <3>2. stamped = 1..k  BY DEF Stamped
    <3>3. k < irqs \/ k = irqs  BY DEF TvTypes
    <3> QED BY <3>1, <3>2, <3>3, Zenon
  <2> QED BY <2>1, <2>2
<1>3. irqs' - k <= Ahead'
  BY <1>1, <1>2 DEF Stamped, Ahead, TvTypes
<1>4. ASSUME NEW i \in 1..T
      PROVE  IF i <= irqs' - k THEN tv'[Entry(i)'] = irqs' + 1 - i ELSE tv'[Entry(i)'] \in 0..k
  <2>1. CASE i = 1
    <3>1. Entry(1)' = tv_head  BY <1>1 DEF Entry, TvTypes
    <3> QED BY <1>1, <2>1, <3>1 DEF TvTypes
  <2>2. CASE i > 1
    <3>1. i - 1 \in 1..T /\ i - 1 < T  BY <2>2
    <3>2. /\ Entry(i)' = Entry(i - 1) /\ Entry(i - 1) \in 0..(T - 1)
          /\ Entry(i - 1) # tv_head
      BY <1>1, <2>2 DEF Entry, TvTypes
    <3>3. tv'[Entry(i)'] = tv[Entry(i - 1)]  BY <1>1, <3>2 DEF TvTypes
    <3>4. IF i - 1 <= irqs - k THEN tv[Entry(i - 1)] = irqs + 1 - (i - 1)
          ELSE tv[Entry(i - 1)] \in 0..k
      BY <3>1 DEF Stamped
    <3> QED BY <1>1, <2>2, <3>3, <3>4 DEF TvTypes
  <2> QED BY <2>1, <2>2
<1> QED BY <1>1, <1>3, <1>4 DEF Stamped

\* A stamp is written, or an old one again.
LEMMA TimeStamps ==
  ASSUME TvTypes, NEW k \in 0..irqs, Stamped(k), S!BhTime
  PROVE  \E n \in 0..irqs : Stamped(n)'
<1>1. /\ bh = "times" /\ irqs' = irqs /\ tv' = tv /\ tv_head' = tv_head /\ handler' = handler
      /\ tv_tail' = (IF tv_tail = T - 1 THEN 0 ELSE tv_tail + 1)
      /\ bh' = IF tv_tail' = tv_head THEN "wake" ELSE "times"
      /\ stamped' = (stamped \cup {tv[tv_tail]}) \ {0}
  BY NextEntry DEF S!BhTime, S!loading, S!lines, TvTypes
<1>2. Ahead \in 1..T /\ Entry(Ahead) = tv_tail  BY DEF Ahead, Entry, TvTypes
<1>3. bh' = "times" => Ahead' = Ahead - 1  BY <1>1 DEF Ahead, TvTypes
<1>4. bh' # "times" => Ahead = 1  BY <1>1 DEF Ahead, TvTypes
<1>5. bh' # "times" => Ahead' = T  BY <1>1 DEF Ahead, TvTypes
<1>6. \A i \in 1..T : Entry(i)' = Entry(i)  BY <1>1 DEF Entry
<1>7. CASE irqs - k = Ahead
  <2>1. tv[tv_tail] = k + 1
    <3>1. tv[Entry(Ahead)] = irqs + 1 - Ahead  BY <1>2, <1>7 DEF Stamped
    <3>2. irqs + 1 - Ahead = k + 1  BY <1>2, <1>7 DEF TvTypes
    <3> QED BY <1>2, <3>1, <3>2
  <2>2. stamped' = 1..(k + 1)
    <3>1. (1..k \cup {k + 1}) \ {0} = 1..(k + 1)  OBVIOUS
    <3>2. stamped = 1..k  BY DEF Stamped
    <3> QED BY <1>1, <2>1, <3>1, <3>2
  <2>3. irqs' - (k + 1) <= Ahead'  BY <1>1, <1>2, <1>3, <1>4, <1>5, <1>7 DEF TvTypes
  <2>4. \A i \in 1..T : IF i <= irqs' - (k + 1) THEN tv'[Entry(i)'] = irqs' + 1 - i
                                              ELSE tv'[Entry(i)'] \in 0..(k + 1)
    <3> SUFFICES ASSUME NEW i \in 1..T
                 PROVE IF i <= irqs - (k + 1) THEN tv[Entry(i)] = irqs + 1 - i
                                              ELSE tv[Entry(i)] \in 0..(k + 1)
      BY <1>1, <1>6
    <3>1. CASE i = irqs - k
      BY <3>1, <1>2, <1>7, <2>1 DEF TvTypes
    <3>2. CASE i # irqs - k
      BY <3>2 DEF Stamped, TvTypes
    <3> QED BY <3>1, <3>2
  <2>5. k + 1 < irqs' => bh' = "times" /\ handler' \in {"wq", "tasklet"}
    BY <1>1, <1>4, <1>7 DEF Stamped, TvTypes
  <2>6. k + 1 \in 0..irqs  BY <1>2, <1>7 DEF TvTypes
  <2> QED BY <2>2, <2>3, <2>4, <2>5, <2>6 DEF Stamped
<1>8. CASE irqs - k < Ahead
  <2>1. tv[tv_tail] \in 0..k  BY <1>2, <1>8 DEF Stamped, TvTypes
  <2>2. stamped' = 1..k  BY <1>1, <2>1 DEF Stamped
  <2>3. irqs' - k <= Ahead'  BY <1>1, <1>2, <1>3, <1>4, <1>5, <1>8 DEF TvTypes
  <2>4. k < irqs' => bh' = "times" /\ handler' \in {"wq", "tasklet"}
    BY <1>1, <1>4, <1>8 DEF Stamped, TvTypes
  <2> QED BY <1>1, <1>6, <2>2, <2>3, <2>4 DEF Stamped
<1> QED BY <1>2, <1>7, <1>8 DEF Stamped, TvTypes

\* Every step of short.
LEMMA StampsStep == ShortTypes /\ ShortLoaded /\ StampsKept /\ S!Next => StampsKept'
<1> SUFFICES ASSUME ShortTypes, ShortLoaded, StampsKept, S!Next PROVE StampsKept'
  OBVIOUS
<1>a. TvTypes  BY DEF StampsKept
<1>1. ASSUME UNCHANGED <<irqs, tv, tv_head, tv_tail, stamped, over>>,
             handler \in {"wq", "tasklet"} => handler' = handler,
             pending \/ bh \in {"count", "times"} => pending' \/ bh' \in {"count", "times"}
      PROVE  StampsKept'
  <2>1. TvTypes'  BY <1>1, <1>a DEF TvTypes
  <2>2. \A k : Stamped(k) => Stamped(k)'  BY <1>1 DEF Stamped, Entry, Ahead
  <2> QED BY <1>1, <2>1, <2>2 DEF StampsKept
<1>2. CASE S!short_init
  <2>1. UNCHANGED S!halves
    BY <1>2 DEF S!short_init, S!Register, S!short_kernelprobe, S!short_selfprobe,
                S!short_probing, S!SelfprobeEnd, S!Install, S!Swap
  <2>2. handler \in {"wq", "tasklet"} => handler' = handler
    BY <1>2 DEF S!short_init, S!Register, S!short_kernelprobe, S!short_selfprobe,
                S!short_probing, S!SelfprobeEnd, S!Install, S!Swap, ShortLoaded
  <2> QED BY <1>1, <2>1, <2>2 DEF S!halves
<1>3. CASE S!short_cleanup
  <2>1. /\ irqs' = 0 /\ tv' = [i \in 0..(T - 1) |-> 0] /\ tv_head' = 0 /\ tv_tail' = 0
        /\ stamped' = {}
    BY <1>3 DEF S!short_cleanup
  <2>2. \A i \in 1..T : Entry(i)' \in 0..(T - 1)  BY <2>1 DEF Entry
  <2>3. Stamped(0)'  BY <2>1, <2>2 DEF Stamped, Ahead
  <2> QED BY <2>1, <2>3 DEF StampsKept, TvTypes
<1>4. CASE S!short_interrupt \/ S!short_sh_interrupt
  <2>1. /\ handler \in {"plain", "shared"} /\ irqs' = irqs + 1
        /\ stamped' = stamped \cup {irqs + 1}
        /\ UNCHANGED <<tv, tv_head, tv_tail, over, handler>>
    BY <1>4 DEF S!short_interrupt, S!short_sh_interrupt, S!Taken, S!loading, S!lines
  <2>2. TvTypes'  BY <1>a, <2>1 DEF TvTypes
  <2>3. ASSUME NEW k \in 0..irqs, Stamped(k), NEW n, n = irqs + 1
        PROVE  n \in 0..irqs' /\ Stamped(n)'
    <3>1. k = irqs /\ n = irqs'  BY <2>1, <2>3, <1>a DEF Stamped, TvTypes
    <3>2. stamped' = 1..n
      <4>1. 1..irqs \cup {irqs + 1} = 1..(irqs + 1)  BY <1>a DEF TvTypes
      <4> QED BY <2>1, <2>3, <3>1, <4>1 DEF Stamped
    <3>3. irqs' - n = 0 /\ ~(n < irqs') /\ Ahead' \in 1..T
      BY <1>a, <2>1, <3>1 DEF TvTypes, Ahead
    <3>4. ASSUME NEW i \in 1..T PROVE ~(i <= irqs' - n) /\ tv'[Entry(i)'] \in 0..n
      <4>1. ~(i <= irqs' - n)  BY <3>3
      <4>2. tv[Entry(i)] \in 0..irqs  BY <2>3, <3>1, <1>a DEF Stamped, TvTypes
      <4>3. tv'[Entry(i)'] = tv[Entry(i)]  BY <2>1 DEF Entry
      <4> QED BY <1>a, <2>3, <4>1, <4>2, <4>3 DEF TvTypes
    <3> QED BY <1>a, <2>1, <2>3, <3>2, <3>3, <3>4 DEF Stamped, TvTypes
  <2> QED BY <2>1, <2>2, <2>3 DEF StampsKept, TvTypes
<1>5. ASSUME NEW kind \in {"wq", "tasklet"}, S!TopHalf(kind) PROVE StampsKept'
  <2>1. TvTypes'
    BY <1>5, <1>a, NextEntry DEF TvTypes, S!TopHalf, S!Taken
  <2>2. (over' \/ ~over) /\ irqs' = irqs + 1  BY <1>5 DEF S!TopHalf, S!Taken
  <2>3. ASSUME NEW k \in 0..irqs, Stamped(k), ~over' PROVE Stamped(k)' /\ k \in 0..irqs'
    BY <1>5, <1>a, <2>2, <2>3, TopHalfStamps DEF TvTypes
  <2> QED BY <2>1, <2>2, <2>3 DEF StampsKept
<1>6. CASE S!BhTime
  <2>1. TvTypes' /\ over' = over /\ irqs' = irqs
    BY <1>6, <1>a, NextEntry DEF TvTypes, S!BhTime
  <2> QED BY <1>6, <1>a, <2>1, TimeStamps DEF StampsKept
<1>7. CASE S!BhStart \/ S!BhCount \/ S!BhWake
  BY <1>1, <1>7 DEF S!BhStart, S!BhCount, S!BhWake, S!loading, S!lines
<1>8. CASE \E r \in Readers : S!Read(r)
  BY <1>1, <1>8 DEF S!Read, S!loading, S!lines, S!halves
<1> QED BY <1>2, <1>3, <1>4, <1>5, <1>6, <1>7, <1>8
    DEF S!Next, S!short_wq_interrupt, S!short_tl_interrupt, S!short_do_tasklet

\* While no stamp was left behind the tail, one that waits has a bottom half to come.
LEMMA StampsComing == StampsKept => S!StampsServed
<1> SUFFICES ASSUME TvTypes, NEW k \in 0..irqs, Stamped(k), stamped # 1..irqs
             PROVE  pending \/ bh \in {"count", "times"}
  BY DEF StampsKept, S!StampsServed
<1>1. k # irqs  BY DEF Stamped
<1> QED BY <1>1 DEF Stamped, TvTypes

-----------------------------------------------------------------------------
(***************************************************************************)
(* short: the page of stamps and its readers.                              *)
(***************************************************************************)
Unit == {<<>>} \cup (Int \X Nat)
Page == 0..(S!PageSize - 1)

\* The head stands at the start of a record.
PageTypes ==
  /\ tail \in Page /\ \E h \in 0..(N - 1) : head = h * U
  /\ ring \in [Page -> Unit] /\ want \in Seq(Unit) /\ torn \in BOOLEAN

ReaderTypes ==
  /\ pc \in [Readers -> {"idle", "prepare", "retest", "asleep", "finish", "copy", "incr"}]
  /\ count \in [Readers -> Nat]
  /\ DOMAIN got = Readers /\ queued \subseteq Readers

\* How many units the page holds, and where the i-th is.
Held == IF head >= tail THEN head - tail ELSE head - tail + S!PageSize
At(i) ==
  IF tail + i <= S!PageSize THEN tail + i - 1 ELSE tail + i - 1 - S!PageSize

\* The page holds what the reads have yet to return.
PageHolds == Len(want) = Held /\ \A i \in 1..Held : ring[At(i)] = want[i]

\* One process copies, no more than there is, and what it copied is what was oldest.
CopiesOldest ==
  \A r \in S!Copying :
    /\ count[r] \in 0..S!Readable /\ head # tail
    /\ \A q \in S!Copying : q = r
    /\ pc[r] = "incr" => got[r] = [i \in 1..count[r] |-> want[i]]

PageKept ==
  /\ PageTypes /\ ReaderTypes
  /\ ~torn => PageHolds /\ CopiesOldest
  /\ S!SleepersWoken

\* The page is a whole number of records.
LEMMA Aligned ==
  ASSUME NEW h \in 0..(N - 1)
  PROVE  /\ S!PageSize \in Nat /\ S!PageSize > 0
         /\ h * U \in Nat /\ h * U + U <= S!PageSize
         /\ h * U + U = S!PageSize \/ (h + 1 \in 0..(N - 1) /\ h * U + U = (h + 1) * U)
<1>1. h \in Nat /\ N \in Nat /\ U \in Nat /\ U > 0 /\ N > 0 /\ h + 1 <= N  OBVIOUS
<1>2. PICK d \in Nat : N = h + 1 + d
  <2>1. N - h - 1 \in Nat /\ N = h + 1 + (N - h - 1)  BY <1>1
  <2> QED BY <2>1
<1>3. d * U \in Nat /\ h * U \in Nat  BY <1>1, <1>2
<1>4. N * U = h * U + U + d * U  BY <1>1, <1>2
<1>5. (h + 1) * U = h * U + U  BY <1>1
<1>6. CASE d = 0
  <2>1. N = h + 1  BY <1>1, <1>2, <1>6
  <2>2. N * U = h * U + U  BY <1>5, <2>1
  <2> QED BY <1>1, <1>3, <2>2 DEF S!PageSize
<1>7. CASE d # 0
  <2>1. h + 1 \in 0..(N - 1)  BY <1>1, <1>2, <1>7
  <2> QED BY <1>1, <1>3, <1>4, <1>5, <2>1 DEF S!PageSize
<1> QED BY <1>6, <1>7

\* Where head and tail can be.
LEMMA Offsets ==
  ASSUME PageTypes
  PROVE  /\ S!PageSize \in Nat /\ S!PageSize > 0 /\ 0 \in Page
         /\ head \in Nat /\ head + U <= S!PageSize
         /\ tail \in Nat /\ tail < S!PageSize
<1>1. PICK h \in 0..(N - 1) : head = h * U  BY DEF PageTypes
<1> QED BY <1>1, Aligned DEF PageTypes, Page

\* The page is empty and nobody reads.
LEMMA PageEmpty ==
  ASSUME head = 0, tail = 0, want = <<>>, torn = FALSE, ring = [i \in Page |-> <<>>]
  PROVE  PageTypes /\ PageHolds
<1>1. 0 \in 0..(N - 1) /\ 0 * U = 0  OBVIOUS
<1>2. S!PageSize \in Nat /\ S!PageSize > 0  BY <1>1, Aligned
<1>3. 0 \in Page  BY <1>2 DEF Page
<1>4. <<>> \in Seq(Unit) /\ Len(<<>>) = 0  BY EmptySeq
<1>5. ring \in [Page -> Unit]  BY DEF Unit
<1>6. Held = 0  BY <1>2 DEF Held
<1> QED BY <1>1, <1>3, <1>4, <1>5, <1>6 DEF PageTypes, PageHolds

LEMMA PageInit == S!RingInit => PageKept
<1> SUFFICES ASSUME S!RingInit PROVE PageKept
  OBVIOUS
<1>1. PageTypes /\ PageHolds
  BY PageEmpty DEF S!RingInit, S!RingsInit, S!Junk, Page
<1>2. ReaderTypes  BY DEF S!RingInit, S!RingsInit, ReaderTypes
<1>3. S!Copying = {}  BY DEF S!RingInit, S!Copying
<1>4. S!SleepersWoken  BY DEF S!RingInit, S!SleepersWoken, S!ReadersWoken
<1> QED BY <1>1, <1>2, <1>3, <1>4 DEF PageKept, CopiesOldest

\* The units of a record, and the last of them.
LEMMA UnitsOf ==
  ASSUME NEW record \in Int, NEW m \in 1..(U + 1)
  PROVE  /\ S!Units(record) \in Seq(Unit) /\ Len(S!Units(record)) = U
         /\ \A k \in 1..U : S!Units(record)[k] \in Unit
         /\ SubSeq(S!Units(record), m, U) \in Seq(Unit)
         /\ Len(SubSeq(S!Units(record), m, U)) = U - m + 1
         /\ \A i \in 1..(U - m + 1) :
              SubSeq(S!Units(record), m, U)[i] = S!Units(record)[m + i - 1]
<1> DEFINE s == S!Units(record)
<1>1. s = [k \in 1..U |-> <<record, k>>]  BY DEF S!Units
<1>2. \A k \in 1..U : <<record, k>> \in Unit  BY DEF Unit
<1>3. s \in Seq(Unit) /\ Len(s) = U  BY <1>1, <1>2
<1>4. \A k \in 1..U : s[k] \in Unit  BY <1>1, <1>2
<1> HIDE DEF s
<1>5. m \in Int /\ U \in Int /\ \A i \in m..U : s[i] \in Unit  BY <1>4
<1>6. /\ SubSeq(s, m, U) \in Seq(Unit)
      /\ Len(SubSeq(s, m, U)) = (IF m <= U THEN U - m + 1 ELSE 0)
      /\ \A i \in 1..(U - m + 1) : SubSeq(s, m, U)[i] = s[m + i - 1]
  BY <1>5, SubSeqProperties
<1> QED BY <1>3, <1>4, <1>6 DEF s

\* A record is written.
LEMMA PutKeeps ==
  ASSUME PageTypes, ReaderTypes, ~torn => PageHolds /\ CopiesOldest,
         NEW record \in Int, S!Put(record), UNCHANGED <<pc, count, got>>
  PROVE  PageTypes' /\ (~torn' => PageHolds' /\ CopiesOldest')
<1> DEFINE text == S!Units(record)
<1>0. /\ S!PageSize \in Nat /\ S!PageSize > 0 /\ 0 \in Page
      /\ head \in Nat /\ head + U <= S!PageSize
      /\ tail \in Nat /\ tail < S!PageSize
  BY Offsets
<1>a. /\ ring \in [Page -> Unit] /\ want \in Seq(Unit) /\ Len(want) \in Nat
  BY LenProperties DEF PageTypes
<1>1. /\ ring' = [i \in Page |-> IF i \in head..(head + U - 1)
                                 THEN text[i - head + 1] ELSE ring[i]]
      /\ tail' = tail
      /\ head' = IF head + U >= S!PageSize THEN 0 ELSE head + U
      /\ torn' = (torn \/ (Len(want) + U >= S!PageSize /\ S!Copying # {}))
      /\ want' = IF torn' THEN <<>>
                 ELSE IF Len(want) + U >= S!PageSize
                      THEN SubSeq(text, S!PageSize - Len(want) + 1, U)
                 ELSE want \o text
  BY <1>a DEF S!Put, S!short_incr_bp, S!Overruns
<1>2. S!Copying' = S!Copying  BY DEF S!Copying
<1>3. text \in Seq(Unit) /\ Len(text) = U /\ \A k \in 1..U : text[k] \in Unit
  <2>1. 1 \in 1..(U + 1)  OBVIOUS
  <2> QED BY <2>1, UnitsOf
<1> HIDE DEF text
<1>h. \E h \in 0..(N - 1) : head' = h * U
  <2>1. PICK h \in 0..(N - 1) : head = h * U  BY DEF PageTypes
  <2>2. CASE head + U = S!PageSize
    <3>1. head' = 0 * U /\ 0 \in 0..(N - 1)  BY <1>0, <1>1, <2>2
    <3> QED BY <3>1
  <2>3. CASE head + U # S!PageSize
    <3>1. h + 1 \in 0..(N - 1) /\ head + U = (h + 1) * U  BY <2>1, <2>3, Aligned
    <3>2. head' = head + U  BY <1>0, <1>1, <2>3
    <3> QED BY <3>1, <3>2
  <2> QED BY <2>2, <2>3
<1>r. ring' \in [Page -> Unit]
  <2>1. ASSUME NEW i \in Page, i \in head..(head + U - 1) PROVE text[i - head + 1] \in Unit
    <3>1. i - head + 1 \in 1..U  BY <1>0, <2>1
    <3> QED BY <1>3, <3>1
  <2> QED BY <1>1, <1>a, <2>1
<1>t. tail' \in Page /\ torn' \in BOOLEAN  BY <1>0, <1>1 DEF Page, PageTypes
<1>5. CASE torn'
  <2>1. want' \in Seq(Unit)  BY <1>1, <1>5, EmptySeq
  <2> QED BY <1>5, <1>h, <1>r, <1>t, <2>1 DEF PageTypes
<1>6. CASE ~torn' /\ Len(want) + U >= S!PageSize
  <2> DEFINE m == S!PageSize - Len(want) + 1
             j == Len(want) + U - S!PageSize
  <2>1. ~torn /\ S!Copying = {} /\ want' = SubSeq(text, m, U)  BY <1>1, <1>6
  <2>2. Len(want) = Held  BY <2>1 DEF PageHolds
  <2>3. Held < S!PageSize /\ Held \in Nat  BY <1>0 DEF Held
  <2>4. m \in 1..(U + 1) /\ U - m + 1 = j /\ j \in Nat /\ j < U
    BY <1>0, <1>6, <2>2, <2>3
  <2>5. /\ want' \in Seq(Unit) /\ Len(want') = j
        /\ \A i \in 1..j : want'[i] = text[m + i - 1]
    BY <2>1, <2>4, UnitsOf DEF text
  <2>6. PageTypes'  BY <1>h, <1>r, <1>t, <2>5 DEF PageTypes
  <2>7. Held' = j /\ (j > 0 => tail - head \in 0..U /\ j = U - (tail - head))
    BY <1>0, <1>1, <1>6, <2>2 DEF Held
  <2>8. ASSUME NEW i \in 1..j PROVE ring'[At(i)'] = want'[i]
    <3>1. At(i)' = tail + i - 1 /\ tail + i - 1 \in head..(head + U - 1)
      BY <1>0, <1>1, <2>4, <2>7 DEF At
    <3>2. tail + i - 1 \in Page /\ (tail + i - 1) - head + 1 = m + i - 1
      BY <1>0, <2>4, <2>7, <3>1 DEF Page
    <3> QED BY <1>1, <2>5, <3>1, <3>2
  <2>9. PageHolds'  BY <2>5, <2>7, <2>8 DEF PageHolds
  <2> QED BY <1>2, <2>1, <2>6, <2>9 DEF CopiesOldest
<1>7. CASE ~torn' /\ ~(Len(want) + U >= S!PageSize)
  <2>1. ~torn /\ want' = want \o text  BY <1>1, <1>7
  <2>2. /\ Len(want) = Held /\ Held \in Nat /\ Held + U < S!PageSize
        /\ \A i \in 1..Held : ring[At(i)] = want[i]
    BY <1>0, <1>7, <1>a, <2>1 DEF PageHolds
  <2>3. /\ want' \in Seq(Unit) /\ Len(want') = Held + U
        /\ \A i \in 1..Held : want'[i] = want[i]
        /\ \A i \in 1..U : want'[Held + i] = text[i]
    <3>1. /\ want \o text \in Seq(Unit) /\ Len(want \o text) = Len(want) + Len(text)
          /\ \A i \in 1..(Len(want) + Len(text)) :
               (want \o text)[i] = IF i <= Len(want) THEN want[i] ELSE text[i - Len(want)]
      BY <1>3, <1>a, ConcatProperties
    <3>2. ASSUME NEW i \in 1..U PROVE want'[Held + i] = text[i]
      <4> DEFINE x == Held + i
      <4>1. x \in 1..(Len(want) + Len(text)) /\ ~(x <= Len(want)) /\ x - Len(want) = i
        BY <1>3, <2>2
      <4> HIDE DEF x
      <4>2. \A y \in 1..(Len(want) + Len(text)) :
              ~(y <= Len(want)) => (want \o text)[y] = text[y - Len(want)]
        BY <3>1
      <4>3. (want \o text)[x] = text[i]  BY <4>1, <4>2
      <4> QED BY <2>1, <4>3 DEF x
    <3> QED BY <1>3, <2>1, <2>2, <3>1, <3>2
  <2>4. Held' = Held + U /\ head' # tail'  BY <1>0, <1>1, <2>2 DEF Held
  <2>p. PageTypes'  BY <1>h, <1>r, <1>t, <2>3 DEF PageTypes
  <2>5. ASSUME NEW i \in 1..Held
        PROVE  At(i) \in Page /\ At(i) \notin head..(head + U - 1)
    BY <1>0, <2>2 DEF Held, At, Page
  <2>6. ASSUME NEW i \in 1..U
        PROVE  At(Held + i) \in Page /\ At(Held + i) = head + i - 1
    BY <1>0, <2>2 DEF Held, At, Page
  <2>7. ASSUME NEW i \in 1..Held' PROVE ring'[At(i)'] = want'[i]
    <3>1. At(i)' = At(i)  BY <1>1 DEF At
    <3>2. CASE i \in 1..Held
      BY <1>1, <2>2, <2>3, <2>5, <3>1, <3>2
    <3>3. CASE i \notin 1..Held
      <4>1. i - Held \in 1..U /\ Held + (i - Held) = i  BY <2>2, <2>4, <3>3
      <4>2. At(i) \in Page /\ At(i) = head + (i - Held) - 1 /\ want'[i] = text[i - Held]
        BY <2>3, <2>6, <4>1
      <4>3. At(i) \in head..(head + U - 1) /\ At(i) - head + 1 = i - Held
        BY <1>0, <4>1, <4>2
      <4> QED BY <1>1, <3>1, <4>2, <4>3
    <3> QED BY <3>2, <3>3
  <2>8. PageHolds'  BY <2>3, <2>4, <2>7 DEF PageHolds
  <2>9. ASSUME NEW r \in S!Copying
        PROVE  /\ count'[r] \in 0..S!Readable'
               /\ pc'[r] = "incr" => got'[r] = [i \in 1..count'[r] |-> want'[i]]
    <3>0. /\ count[r] \in 0..S!Readable /\ head # tail
          /\ pc[r] = "incr" => got[r] = [i \in 1..count[r] |-> want[i]]
      BY <2>1, <2>9 DEF CopiesOldest
    <3>1. count[r] \in Nat /\ count[r] <= S!Readable /\ S!Readable \in 0..Held
      BY <1>0, <3>0 DEF S!Readable, Held
    <3>2. S!Readable <= S!Readable' /\ S!Readable' \in Int
      BY <1>0, <1>1, <2>2, <3>0 DEF S!Readable, Held
    <3>4. \A i \in 1..count[r] : want'[i] = want[i]
      BY <2>2, <2>3, <3>1
    <3>5. [i \in 1..count[r] |-> want'[i]] = [i \in 1..count[r] |-> want[i]]
      BY <3>4
    <3>6. count[r] \in 0..S!Readable'  BY <3>1, <3>2
    <3> QED BY <3>0, <3>5, <3>6
  <2> QED BY <1>2, <2>1, <2>4, <2>8, <2>9, <2>p DEF CopiesOldest
<1> QED BY <1>5, <1>6, <1>7

\* What is left of a list without its first c.
LEMMA Rest ==
  ASSUME NEW s \in Seq(Unit), NEW c \in Nat
  PROVE  /\ SubSeq(s, c + 1, Len(s)) \in Seq(Unit)
         /\ c <= Len(s) => Len(SubSeq(s, c + 1, Len(s))) = Len(s) - c
         /\ \A i \in 1..(Len(s) - c) : SubSeq(s, c + 1, Len(s))[i] = s[c + i]
<1> DEFINE m == c + 1
<1>1. Len(s) \in Nat /\ m \in Int /\ Len(s) \in Int  BY LenProperties
<1>2. \A i \in m..Len(s) : s[i] \in Unit  BY <1>1, ElementOfSeq
<1> HIDE DEF m
<1>3. /\ SubSeq(s, m, Len(s)) \in Seq(Unit)
      /\ Len(SubSeq(s, m, Len(s))) = (IF m <= Len(s) THEN Len(s) - m + 1 ELSE 0)
      /\ \A i \in 1..(Len(s) - m + 1) : SubSeq(s, m, Len(s))[i] = s[m + i - 1]
  BY <1>1, <1>2, SubSeqProperties
<1>4. Len(s) - m + 1 = Len(s) - c /\ \A i \in Int : m + i - 1 = c + i  BY <1>1 DEF m
<1>5. (m <= Len(s) <=> c < Len(s)) /\ (c <= Len(s) /\ ~(c < Len(s)) => Len(s) - c = 0)
  BY <1>1 DEF m
<1>6. \A i \in 1..(Len(s) - c) : SubSeq(s, m, Len(s))[i] = s[c + i]
  BY <1>1, <1>3, <1>4
<1>7. c <= Len(s) => Len(SubSeq(s, m, Len(s))) = Len(s) - c
  BY <1>1, <1>3, <1>4, <1>5
<1> QED BY <1>3, <1>6, <1>7 DEF m

\* The steps of a read.
LEMMA ReadKeeps ==
  ASSUME PageKept, NEW r \in Readers, S!short_i_read(r), UNCHANGED bh
  PROVE  PageKept'
<1> USE DEF S!Goto
<1>a. /\ PageTypes /\ ReaderTypes
      /\ ~torn => PageHolds /\ CopiesOldest
      /\ S!SleepersWoken
  BY DEF PageKept
<1>o. /\ S!PageSize \in Nat /\ S!PageSize > 0 /\ 0 \in Page
      /\ head \in Nat /\ head + U <= S!PageSize
      /\ tail \in Nat /\ tail < S!PageSize
  BY <1>a, Offsets
<1>b. S!Copying = {q \in Readers : pc[q] \in {"copy", "incr"}}
  BY DEF S!Copying
\* A step that copies nothing leaves the page and those who copy alone.
<1>c. ASSUME NEW step \in {"idle", "prepare", "retest", "asleep", "finish"},
             pc' = [pc EXCEPT ![r] = step],
             UNCHANGED <<head, tail, ring, want, torn, got>>,
             count' \in [Readers -> Nat],
             \A q \in S!Copying : q # r => count'[q] = count[q]
      PROVE  /\ PageTypes' /\ DOMAIN got' = Readers
             /\ pc' \in [Readers -> {"idle", "prepare", "retest", "asleep", "finish", "copy", "incr"}]
             /\ ~torn' => PageHolds' /\ CopiesOldest'
  <2>1. PageTypes'  BY <1>a, <1>c DEF PageTypes
  <2>2. pc' \in [Readers -> {"idle", "prepare", "retest", "asleep", "finish", "copy", "incr"}]
    BY <1>a, <1>c DEF ReaderTypes
  <2>3. PageHolds => PageHolds'  BY <1>c DEF PageHolds, Held, At
  <2>4. S!Copying' \subseteq S!Copying \ {r} /\ \A q \in S!Copying' : pc'[q] = pc[q]
    BY <1>a, <1>c DEF S!Copying, ReaderTypes
  <2>5. CopiesOldest => CopiesOldest'
    BY <1>c, <2>4 DEF CopiesOldest, S!Readable
  <2> QED BY <1>a, <1>c, <2>1, <2>2, <2>3, <2>5 DEF ReaderTypes
<1>1. CASE S!ReadTest(r) /\ head = tail
  <2>1. /\ pc' = [pc EXCEPT ![r] = "prepare"] /\ queued' = queued \ {r}
        /\ UNCHANGED <<head, tail, ring, want, torn, got, count>>
    BY <1>1 DEF S!ReadTest
  <2>2. S!SleepersWoken'
    BY <1>a, <2>1 DEF S!SleepersWoken, S!ReadersWoken, ReaderTypes
  <2> QED BY <1>a, <1>c, <2>1, <2>2 DEF PageKept, ReaderTypes
<1>2. CASE S!ReadTest(r) /\ head # tail
  <2>1. PICK n \in 0..S!Readable :
          /\ pc[r] \in {"idle", "finish"} /\ pc' = [pc EXCEPT ![r] = "copy"]
          /\ queued' = queued \ {r} /\ count' = [count EXCEPT ![r] = n]
          /\ torn' = (torn \/ S!Copying # {}) /\ want' = (IF torn' THEN <<>> ELSE want)
          /\ UNCHANGED <<head, tail, ring, got>>
    BY <1>2 DEF S!ReadTest
  <2>2. n \in Nat  BY <1>o DEF S!Readable
  <2>3. PageTypes'  BY <1>a, <2>1, EmptySeq DEF PageTypes
  <2>4. ReaderTypes'  BY <1>a, <2>1, <2>2 DEF ReaderTypes
  <2>5. ASSUME ~torn' PROVE PageHolds' /\ CopiesOldest'
    <3>1. ~torn /\ S!Copying = {} /\ want' = want  BY <2>1, <2>5
    <3>2. PageHolds'  BY <1>a, <2>1, <3>1 DEF PageHolds, Held, At
    <3>3. S!Copying' = {r} /\ count'[r] = n /\ pc'[r] = "copy"
      BY <1>a, <1>b, <2>1, <3>1 DEF S!Copying, ReaderTypes
    <3>4. S!Readable' = S!Readable  BY <2>1 DEF S!Readable
    <3> QED BY <1>2, <2>1, <3>2, <3>3, <3>4 DEF CopiesOldest
  <2>6. S!SleepersWoken'
    BY <1>a, <2>1 DEF S!SleepersWoken, S!ReadersWoken, ReaderTypes
  <2> QED BY <2>3, <2>4, <2>5, <2>6 DEF PageKept
<1>3. CASE S!ReadPrepare(r) \/ S!ReadWoken(r) \/ S!ReadSignal(r)
  <2>1. PICK step \in {"retest", "finish", "idle"} : pc' = [pc EXCEPT ![r] = step]
    BY <1>3 DEF S!ReadPrepare, S!ReadWoken, S!ReadSignal
  <2>2. /\ queued' \subseteq queued \cup {r}
        /\ UNCHANGED <<head, tail, ring, want, torn, got, count>>
    BY <1>3 DEF S!ReadPrepare, S!ReadWoken, S!ReadSignal, S!ringvars
  <2>3. S!SleepersWoken'
    BY <1>a, <2>1, <2>2 DEF S!SleepersWoken, S!ReadersWoken, ReaderTypes
  <2> QED BY <1>a, <1>c, <2>1, <2>2, <2>3 DEF PageKept, ReaderTypes
<1>4. CASE S!ReadRetest(r)
  <2>1. PICK step \in {"asleep", "finish"} :
          pc' = [pc EXCEPT ![r] = step] /\ (step = "asleep" => head = tail)
    BY <1>4 DEF S!ReadRetest
  <2>2. UNCHANGED <<head, tail, ring, want, torn, got, count, queued>>
    BY <1>4 DEF S!ReadRetest, S!ringvars
  <2>3. S!SleepersWoken'
    BY <1>a, <2>1, <2>2 DEF S!SleepersWoken, S!ReadersWoken, ReaderTypes
  <2> QED BY <1>a, <1>c, <2>1, <2>2, <2>3 DEF PageKept, ReaderTypes
<1>5. CASE S!ReadCopy(r) /\ pc'[r] = "incr"
  <2>1. /\ pc[r] = "copy" /\ pc' = [pc EXCEPT ![r] = "incr"]
        /\ got' = [got EXCEPT ![r] = IF torn THEN <<>> ELSE
                      [i \in 1..count[r] |-> IF tail + i <= S!PageSize THEN ring[tail + i - 1] ELSE S!Junk]]
        /\ UNCHANGED <<head, tail, ring, want, torn, count, queued>>
    BY <1>a, <1>5 DEF S!ReadCopy, S!ringvars, ReaderTypes
  <2>2. PageTypes' /\ ReaderTypes'  BY <1>a, <2>1 DEF PageTypes, ReaderTypes
  <2>3. ASSUME ~torn PROVE PageHolds' /\ CopiesOldest'
    <3>1. PageHolds'  BY <1>a, <2>1, <2>3 DEF PageHolds, Held, At
    <3>2. S!Copying = {r} /\ S!Copying' = {r} /\ count[r] \in 0..S!Readable /\ head # tail
      BY <1>a, <1>b, <2>1, <2>3 DEF CopiesOldest, S!Copying, ReaderTypes
    <3>3. \A i \in 1..count[r] :
            tail + i <= S!PageSize /\ i \in 1..Held /\ At(i) = tail + i - 1
      BY <1>o, <3>2 DEF S!Readable, Held, At
    <3>4. \A i \in 1..count[r] : ring[tail + i - 1] = want[i]
      BY <1>a, <2>3, <3>3 DEF PageHolds
    <3>5. got'[r] = [i \in 1..count[r] |-> want[i]]
      BY <1>a, <2>1, <2>3, <3>3, <3>4 DEF ReaderTypes
    <3>6. S!Readable' = S!Readable  BY <2>1 DEF S!Readable
    <3> QED BY <2>1, <3>1, <3>2, <3>5, <3>6 DEF CopiesOldest
  <2>4. S!SleepersWoken'
    BY <1>a, <2>1 DEF S!SleepersWoken, S!ReadersWoken, ReaderTypes
  <2> QED BY <2>1, <2>2, <2>3, <2>4 DEF PageKept
<1>6. CASE S!ReadCopy(r) /\ pc'[r] # "incr"
  <2>1. /\ pc' = [pc EXCEPT ![r] = "idle"] /\ count' = [count EXCEPT ![r] = 0]
        /\ UNCHANGED <<head, tail, ring, want, torn, got, queued>>
    BY <1>a, <1>6 DEF S!ReadCopy, S!ringvars, ReaderTypes
  <2>2. S!SleepersWoken'
    BY <1>a, <2>1 DEF S!SleepersWoken, S!ReadersWoken, ReaderTypes
  <2> QED BY <1>a, <1>b, <1>c, <2>1, <2>2 DEF PageKept, ReaderTypes
<1>7. CASE S!ReadIncr(r)
  <2> DEFINE c == count[r]
  <2>1. /\ pc[r] = "incr" /\ pc' = [pc EXCEPT ![r] = "idle"]
        /\ tail' = (IF tail + c >= S!PageSize THEN 0 ELSE tail + c)
        /\ want' = SubSeq(want, c + 1, Len(want))
        /\ count' = [count EXCEPT ![r] = 0] /\ got' = [got EXCEPT ![r] = <<>>]
        /\ UNCHANGED <<head, ring, torn, queued>>
    BY <1>7 DEF S!ReadIncr, S!short_incr_bp
  <2>2. c \in Nat /\ Len(want) \in Nat /\ want \in Seq(Unit)
    BY <1>a, LenProperties DEF ReaderTypes, PageTypes
  <2>4. /\ want' \in Seq(Unit)
        /\ c <= Len(want) => Len(want') = Len(want) - c
        /\ \A i \in 1..(Len(want) - c) : want'[i] = want[c + i]
    BY <2>1, <2>2, Rest
  <2>5. PageTypes' /\ ReaderTypes'
    <3>1. tail' \in Page
      <4>2. tail' = (IF tail + c >= S!PageSize THEN 0 ELSE tail + c) /\ c \in Nat  BY <2>1, <2>2
      <4> HIDE DEF c
      <4> QED BY <1>o, <4>2 DEF Page
    <3>2. PageTypes'  BY <1>a, <2>1, <2>4, <3>1 DEF PageTypes
    <3>3. ReaderTypes'  BY <1>a, <2>1 DEF ReaderTypes
    <3> QED BY <3>2, <3>3
  <2>6. ASSUME ~torn PROVE PageHolds' /\ CopiesOldest' /\ head # tail
    <3>0. r \in S!Copying /\ CopiesOldest  BY <1>a, <1>b, <2>1, <2>6
    <3>1. S!Copying = {r} /\ c \in 0..S!Readable /\ head # tail
      BY <3>0 DEF CopiesOldest
    <3>2. S!Copying' = {}  BY <1>a, <1>b, <2>1, <3>1 DEF S!Copying, ReaderTypes
    <3>3. head # tail /\ Held' = Held - c /\ c <= Held
      <4>1. head' = head /\ c \in Nat  BY <2>1, <2>2
      <4>2. tail' = (IF tail + c >= S!PageSize THEN 0 ELSE tail + c)  BY <2>1
      <4> HIDE DEF c
      <4> QED BY <1>o, <3>1, <4>1, <4>2 DEF S!Readable, Held
    <3>4. Len(want) = Held /\ \A i \in 1..Held : ring[At(i)] = want[i]
      BY <1>a, <2>6 DEF PageHolds
    <3>5. Len(want') = Held'  BY <2>2, <2>4, <3>3, <3>4
    <3>6. ASSUME NEW i \in 1..Held' PROVE ring'[At(i)'] = want'[i]
      <4>1. c + i \in 1..Held /\ i \in 1..(Len(want) - c)  BY <2>2, <3>3, <3>4
      <4>2. At(i)' = At(c + i)
        <5>1. c \in Nat  BY <2>2
        <5>2. tail' = (IF tail + c >= S!PageSize THEN 0 ELSE tail + c)  BY <2>1
        <5> HIDE DEF c
        <5> QED BY <1>o, <3>1, <4>1, <5>1, <5>2 DEF At, S!Readable, Held
      <4> QED BY <2>1, <2>4, <3>4, <4>1, <4>2
    <3> QED BY <3>2, <3>3, <3>5, <3>6 DEF PageHolds, CopiesOldest
  <2>7. S!SleepersWoken'
    <3>1. ~torn => \A q \in queued : pc[q] = "asleep" => bh # "idle"
      BY <1>a, <2>6 DEF S!SleepersWoken, S!ReadersWoken
    <3> QED BY <1>a, <2>1, <3>1 DEF S!SleepersWoken, S!ReadersWoken, ReaderTypes
  <2> QED BY <2>1, <2>5, <2>6, <2>7 DEF PageKept
<1> QED BY <1>1, <1>2, <1>3, <1>4, <1>5, <1>6, <1>7 DEF S!short_i_read

\* Every step of short: who writes a record wakes the readers, at once or as its last act.
LEMMA PageStep == TvTypes /\ PageKept /\ S!Next => PageKept'
<1> SUFFICES ASSUME TvTypes, PageKept, S!Next PROVE PageKept'
  OBVIOUS
<1>a. /\ PageTypes /\ ReaderTypes
      /\ ~torn => PageHolds /\ CopiesOldest
      /\ S!SleepersWoken
  BY DEF PageKept
<1>1. ASSUME UNCHANGED <<head, tail, ring, want, torn, pc, count, got, queued>>,
             bh # "idle" => bh' # "idle"
      PROVE  PageKept'
  <2>1. PageTypes' /\ ReaderTypes'  BY <1>a, <1>1 DEF PageTypes, ReaderTypes
  <2>2. PageHolds => PageHolds'  BY <1>1 DEF PageHolds, Held, At
  <2>3. CopiesOldest => CopiesOldest'
    BY <1>1 DEF CopiesOldest, S!Copying, S!Readable
  <2>4. S!SleepersWoken'  BY <1>a, <1>1 DEF S!SleepersWoken, S!ReadersWoken
  <2> QED BY <1>a, <1>1, <2>1, <2>2, <2>3, <2>4 DEF PageKept
<1>2. ASSUME NEW record \in Int, S!Put(record), UNCHANGED <<pc, count, got>>,
             queued' = {} \/ (queued' = queued /\ bh' # "idle")
      PROVE  PageKept'
  <2>1. PageTypes' /\ (~torn' => PageHolds' /\ CopiesOldest')
    BY <1>a, <1>2, PutKeeps
  <2>2. ReaderTypes'  BY <1>a, <1>2 DEF ReaderTypes
  <2>3. S!SleepersWoken'  BY <1>2 DEF S!SleepersWoken, S!ReadersWoken
  <2> QED BY <2>1, <2>2, <2>3 DEF PageKept
<1>3. CASE S!short_init
  BY <1>1, <1>3
     DEF S!short_init, S!Register, S!short_kernelprobe, S!short_selfprobe,
         S!short_probing, S!SelfprobeEnd, S!Install, S!Swap, S!ringvars, S!readers, S!halves
<1>4. CASE S!short_cleanup
  <2>1. /\ head' = 0 /\ tail' = 0 /\ want' = <<>> /\ torn' = FALSE
        /\ ring' = [i \in Page |-> <<>>] /\ UNCHANGED <<pc, count, got, queued>>
        /\ \A r \in Readers : pc[r] = "idle"
    BY <1>4 DEF S!short_cleanup, S!readers, S!Junk, Page
  <2>2. (head = 0 /\ tail = 0 /\ want = <<>> /\ torn = FALSE /\ ring = [i \in Page |-> <<>>]
         => PageTypes /\ PageHolds)'
    BY PageEmpty, PTL
  <2>3. PageTypes' /\ PageHolds'  BY <2>1, <2>2 DEF Page
  <2>4. ReaderTypes'  BY <1>a, <2>1 DEF ReaderTypes
  <2>5. S!Copying' = {}  BY <2>1 DEF S!Copying
  <2>6. S!SleepersWoken'  BY <2>1 DEF S!SleepersWoken, S!ReadersWoken
  <2> QED BY <2>3, <2>4, <2>5, <2>6 DEF PageKept, CopiesOldest
<1>5. CASE S!short_interrupt \/ S!short_sh_interrupt
  <2>1. irqs' \in Int  BY <1>5 DEF S!short_interrupt, S!short_sh_interrupt, S!Taken, TvTypes
  <2> QED BY <1>2, <1>5, <2>1 DEF S!short_interrupt, S!short_sh_interrupt, S!Wake
<1>6. CASE S!short_wq_interrupt \/ S!short_tl_interrupt
  BY <1>1, <1>6 DEF S!short_wq_interrupt, S!short_tl_interrupt, S!TopHalf, S!ringvars,
                    S!readers
<1>7. CASE S!BhStart
  BY <1>1, <1>7 DEF S!BhStart, S!ringvars, S!readers
<1>8. CASE S!BhCount
  BY <1>2, <1>8 DEF S!BhCount, S!readers
<1>9. CASE S!BhTime
  <2>1. tv[tv_tail] \in Int  BY DEF TvTypes
  <2> QED BY <1>2, <1>9, <2>1 DEF S!BhTime, S!readers
<1>10. CASE S!BhWake
  <2>1. queued' = {} /\ UNCHANGED <<head, tail, ring, want, torn, pc, count, got>>
    BY <1>10 DEF S!BhWake, S!Wake, S!ringvars
  <2>2. PageTypes' /\ ReaderTypes'  BY <1>a, <2>1 DEF PageTypes, ReaderTypes
  <2>3. PageHolds => PageHolds'  BY <2>1 DEF PageHolds, Held, At
  <2>4. CopiesOldest => CopiesOldest'
    BY <2>1 DEF CopiesOldest, S!Copying, S!Readable
  <2>5. S!SleepersWoken'  BY <2>1 DEF S!SleepersWoken, S!ReadersWoken
  <2> QED BY <1>a, <2>1, <2>2, <2>3, <2>4, <2>5 DEF PageKept
<1>11. CASE \E r \in Readers : S!Read(r)
  BY <1>11, ReadKeeps DEF S!Read, S!halves
<1> QED BY <1>3, <1>4, <1>5, <1>6, <1>7, <1>8, <1>9, <1>10, <1>11
    DEF S!Next, S!short_do_tasklet

\* A read is about to return what was oldest.
LEMMA PageInOrder == PageKept => S!ReadsInOrder
<1> SUFFICES ASSUME PageKept, NEW r \in Readers, pc[r] = "incr", ~torn
             PROVE  count[r] <= Len(want) /\ got[r] = SubSeq(want, 1, count[r])
  BY DEF S!ReadsInOrder
<1> DEFINE c == count[r]
<1>1. /\ want \in Seq(Unit) /\ Len(want) = Held /\ c \in 0..S!Readable
      /\ got[r] = [i \in 1..c |-> want[i]]
  BY DEF PageKept, PageTypes, PageHolds, CopiesOldest, S!Copying
<1>2. c \in Nat /\ c <= Len(want)
  BY <1>1, Offsets DEF PageKept, S!Readable, Held
<1> HIDE DEF c
<1>3. \A i \in 1..c : want[i] \in Unit  BY <1>1, <1>2, LenProperties
<1>4. /\ SubSeq(want, 1, c) \in Seq(Unit)
      /\ Len(SubSeq(want, 1, c)) = (IF 1 <= c THEN c - 1 + 1 ELSE 0)
      /\ \A i \in 1..(c - 1 + 1) : SubSeq(want, 1, c)[i] = want[1 + i - 1]
  BY <1>2, <1>3, SubSeqProperties
<1>5. Len(SubSeq(want, 1, c)) = c /\ \A i \in 1..c : SubSeq(want, 1, c)[i] = want[i]
  BY <1>1, <1>2, <1>4
<1>6. SubSeq(want, 1, c) = [i \in 1..c |-> want[i]]
  BY <1>4, <1>5, LenProperties
<1> QED BY <1>1, <1>2, <1>6 DEF c

-----------------------------------------------------------------------------
(***************************************************************************)
(* shortprint: the output ring, its writers and what keeps it going.       *)
(***************************************************************************)
WriteSteps == {"space", "prepare", "retest", "asleep", "copy", "start"}
ReleaseSteps == {"drain", "drain_retest", "drain_asleep", "drain_signal"}

PrintTypes ==
  /\ phase \in {"unloaded", "live", "noirq", "flush"}
  /\ out_head \in 0..(M - 1) /\ out_tail \in 0..(M - 1) /\ out \in [0..(M - 1) -> Int]
  /\ accepted \in Nat /\ printed \in Nat
  /\ wpc \in [Writers -> {"idle"} \cup WriteSteps \cup ReleaseSteps]
  /\ space \in [Writers -> Int] /\ left \in [Writers -> Nat]

ControlTypes ==
  /\ active \in BOOLEAN /\ timer \in BOOLEAN /\ timeout \in BOOLEAN /\ work \in BOOLEAN

\* One writer at a time is in its call, and the space it saw is still there.
PrintCalls ==
  /\ \A w \in Writers :
       /\ wpc[w] # "idle" => w \in open
       /\ wpc[w] \in WriteSteps => sem = w
       /\ wpc[w] = "copy" => space[w] \in 1..P!shortp_out_space
  /\ phase # "live" => open = {}

\* The remainder of a number below twice the divisor.
LEMMA Remainder ==
  ASSUME NEW n \in Nat \ {0}, NEW d \in 0..(2 * n - 1)
  PROVE  d % n = IF d < n THEN d ELSE d - n
OBVIOUS

\* The least of two.
LEMMA Smaller ==
  ASSUME NEW a \in Int, NEW b \in Int
  PROVE  P!Min({a, b}) = IF a <= b THEN a ELSE b
<1>1. CASE a <= b  BY <1>1 DEF P!Min
<1>2. CASE ~(a <= b)  BY <1>2 DEF P!Min
<1> QED BY <1>1, <1>2

\* A byte of the page stays free.
LEMMA SpaceBounds == PrintTypes => P!shortp_out_space \in 0..(M - 1)
BY DEF PrintTypes, P!shortp_out_space

\* What a copy that does not fault puts into the ring.
LEMMA CopyEffect ==
  ASSUME PrintTypes, PrintCalls, NEW w \in Writers, P!WriteCopy(w), wpc' # [wpc EXCEPT ![w] = "idle"]
  PROVE  \E n \in 0..P!shortp_out_space :
           /\ wpc[w] = "copy" /\ wpc' = [wpc EXCEPT ![w] = "start"]
           /\ n <= left[w] /\ left' = [left EXCEPT ![w] = left[w] - n]
           /\ out' = [i \in 0..(M - 1) |-> IF i \in out_head..(out_head + n - 1)
                                        THEN accepted + 1 + i - out_head ELSE out[i]]
           /\ out_head' = (IF out_head + n < M THEN out_head + n ELSE 0)
           /\ accepted' = accepted + n
           /\ UNCHANGED <<out_tail, printed, sem>>
<1> DEFINE n == P!Min({space[w], left[w]})
<1>1. wpc[w] = "copy" /\ space[w] \in 1..P!shortp_out_space /\ left[w] \in Nat
  BY DEF P!WriteCopy, PrintCalls, PrintTypes
<1>2. n \in 0..P!shortp_out_space /\ n <= left[w]
  <2>1. P!shortp_out_space \in Int  BY SpaceBounds
  <2>2. space[w] \in Int  BY DEF PrintTypes
  <2> QED BY <1>1, <2>1, <2>2, Smaller
<1>3. /\ out' = [i \in 0..(M - 1) |-> IF i \in out_head..(out_head + n - 1)
                                    THEN accepted + 1 + i - out_head ELSE out[i]]
      /\ out_head' = (out_head + n) % M
      /\ accepted' = accepted + n /\ left' = [left EXCEPT ![w] = @ - n]
      /\ wpc' = [wpc EXCEPT ![w] = "start"] /\ UNCHANGED <<out_tail, printed, sem>>
  BY DEF P!WriteCopy, P!Step, P!Up, P!shortp_incr_out_bp
<1> HIDE DEF n
<1>4. out_head + n \in 0..M  BY <1>2 DEF PrintTypes, P!shortp_out_space
<1>5. out_head' = IF out_head + n < M THEN out_head + n ELSE 0
  <2> DEFINE d == out_head + n
  <2> HIDE DEF d
  <2>1. M \in Nat \ {0} /\ d \in 0..M  BY <1>4 DEF d
  <2>2. d \in 0..(2 * M - 1)  BY <2>1
  <2>3. d % M = IF d < M THEN d ELSE d - M  BY <2>1, <2>2, Remainder
  <2>4. ~(d < M) => d - M = 0  BY <2>1
  <2> QED BY <1>3, <2>3, <2>4 DEF d
<1> QED BY <1>1, <1>2, <1>3, <1>5

\* No process reads shortprint here, and what its writers do is one of these.
LEMMA PrintSteps ==
  ASSUME P!Next
  PROVE  \/ P!shortp_init \/ P!shortp_cleanup \/ P!shortp_do_work \/ P!shortp_timeout
         \/ P!PrinterDone
         \/ \E w \in Writers : P!shortp_open(w) \/ P!shortp_write(w) \/ P!shortp_release(w)
BY DEF P!Next

\* out_tail moves by one.
LEMMA TailMoves ==
  ASSUME PrintTypes, P!WorkLocked, out_head # out_tail
  PROVE  out_tail' = (IF out_tail = M - 1 THEN 0 ELSE out_tail + 1)
<1>1. out_tail' = (out_tail + 1) % M
  BY DEF P!WorkLocked, P!shortp_do_write, P!shortp_incr_out_bp
<1> DEFINE d == out_tail + 1
<1>2. d \in 0..(2 * M - 1) /\ M \in Nat \ {0}  BY DEF PrintTypes
<1> HIDE DEF d
<1>3. d % M = IF d < M THEN d ELSE d - M  BY <1>2, Remainder
<1> QED BY <1>1, <1>3 DEF PrintTypes, d

\* Every step of shortprint keeps to the page.
LEMMA PrintTypesStep == PrintTypes /\ PrintCalls /\ P!Next => PrintTypes'
<1> SUFFICES ASSUME PrintTypes, PrintCalls, P!Next PROVE PrintTypes'
  OBVIOUS
<1> USE DEF WriteSteps, ReleaseSteps
<1>1. CASE P!shortp_init \/ P!CleanupIrq \/ P!CleanupTimer \/ P!shortp_timeout \/ P!PrinterDone
           \/ P!shortp_wait \/ P!WorkStamp
  BY <1>1 DEF PrintTypes, P!shortp_init, P!CleanupIrq, P!CleanupTimer, P!shortp_timeout,
              P!TimeoutTest, P!TimeoutLocked, P!PrinterDone, P!shortp_wait, P!WorkStamp,
              P!output, P!writers
<1>2. CASE P!CleanupFlush
  <2>1. 0 \in 0..(M - 1) /\ [i \in 0..(M - 1) |-> 0] \in [0..(M - 1) -> Int]  OBVIOUS
  <2> QED BY <1>2, <2>1 DEF PrintTypes, P!CleanupFlush, P!writers
<1>3. CASE P!WorkLocked
  <2>1. UNCHANGED <<phase, wpc, space, left, out, out_head, accepted>>
    BY <1>3 DEF P!WorkLocked, P!shortp_do_write, P!output
  <2>2. out_tail' \in 0..(M - 1) /\ printed' \in Nat
    <3>1. CASE out_head = out_tail
      BY <1>3, <3>1 DEF P!WorkLocked, P!output, PrintTypes
    <3>2. CASE out_head # out_tail
      <4>1. printed' = printed + 1  BY <1>3, <3>2 DEF P!WorkLocked, P!shortp_do_write
      <4> QED BY <1>3, <3>2, <4>1, TailMoves DEF PrintTypes
    <3> QED BY <3>1, <3>2
  <2> QED BY <2>1, <2>2 DEF PrintTypes
<1>4. ASSUME NEW w \in Writers, P!shortp_open(w) \/ P!shortp_release(w) PROVE PrintTypes'
  BY <1>4 DEF PrintTypes, P!shortp_open, P!shortp_release, P!ReleaseTest, P!ReleasePrepare,
              P!ReleaseSignal, P!Step, P!output
<1>5. ASSUME NEW w \in Writers,
             P!WriteDown(w) \/ P!WriteSpace(w) \/ P!WritePrepare(w) \/ P!WriteSignal(w)
             \/ P!WriteStart(w)
      PROVE  PrintTypes'
  <2>1. P!shortp_out_space \in Int  BY SpaceBounds
  <2>2. UNCHANGED <<phase, out, out_head, out_tail, accepted, printed>>
    BY <1>5 DEF P!WriteDown, P!WriteSpace, P!WritePrepare, P!WriteSignal, P!WriteStart,
                P!output
  <2>3. wpc' \in [Writers -> {"idle"} \cup WriteSteps \cup ReleaseSteps]
    BY <1>5 DEF P!WriteDown, P!WriteSpace, P!WritePrepare, P!WriteSignal, P!WriteStart, P!Up,
                P!Step, PrintTypes
  <2>4. left' \in [Writers -> Nat] /\ space' \in [Writers -> Int]
    BY <1>5, <2>1 DEF P!WriteDown, P!WriteSpace, P!WritePrepare, P!WriteSignal, P!WriteStart,
                P!Up, PrintTypes
  <2> QED BY <2>2, <2>3, <2>4 DEF PrintTypes
<1>6. ASSUME NEW w \in Writers, P!WriteCopy(w) PROVE PrintTypes'
  <2>1. space' = [space EXCEPT ![w] = 0] /\ phase' = phase  BY <1>6 DEF P!WriteCopy
  <2>2. CASE wpc' = [wpc EXCEPT ![w] = "idle"]
    <3>1. UNCHANGED <<out, out_head, out_tail, accepted, printed>>
          /\ left' = [left EXCEPT ![w] = 0]
      <4>1. wpc'[w] # "start"  BY <2>2 DEF PrintTypes
      <4>2. ~P!Step(w, "start")  BY <4>1 DEF P!Step, PrintTypes
      <4> QED BY <1>6, <4>2 DEF P!WriteCopy, P!Up, P!output
    <3> QED BY <2>1, <2>2, <3>1 DEF PrintTypes
  <2>3. CASE wpc' # [wpc EXCEPT ![w] = "idle"]
    <3>1. PICK n \in 0..P!shortp_out_space :
            /\ wpc' = [wpc EXCEPT ![w] = "start"]
            /\ n <= left[w] /\ left' = [left EXCEPT ![w] = left[w] - n]
            /\ out' = [i \in 0..(M - 1) |-> IF i \in out_head..(out_head + n - 1)
                                         THEN accepted + 1 + i - out_head ELSE out[i]]
            /\ out_head' = (IF out_head + n < M THEN out_head + n ELSE 0)
            /\ accepted' = accepted + n
            /\ UNCHANGED <<out_tail, printed>>
      BY <1>6, <2>3, CopyEffect
    <3>2. n \in Nat /\ left[w] - n \in Nat  BY <3>1, SpaceBounds DEF PrintTypes
    <3>3. out' \in [0..(M - 1) -> Int]
      <4>1. \A i \in 0..(M - 1) : accepted + 1 + i - out_head \in Int /\ out[i] \in Int
        BY DEF PrintTypes
      <4> QED BY <3>1, <4>1
    <3>4. out_head' \in 0..(M - 1) /\ accepted' \in Nat  BY <3>1, <3>2 DEF PrintTypes
    <3> QED BY <2>1, <3>1, <3>2, <3>3, <3>4 DEF PrintTypes
  <2> QED BY <2>2, <2>3
<1> QED BY <1>1, <1>2, <1>3, <1>4, <1>5, <1>6, PrintSteps
    DEF P!shortp_cleanup, P!shortp_do_work, P!shortp_write

\* The semaphore keeps writers apart, and a module with a file open is not unloaded.
LEMMA PrintCallsStep == PrintTypes /\ PrintCalls /\ P!Next => PrintCalls'
<1> SUFFICES ASSUME PrintTypes, PrintCalls, P!Next PROVE PrintCalls'
  OBVIOUS
<1> USE DEF WriteSteps, ReleaseSteps
<1>1. CASE P!shortp_init \/ P!CleanupIrq \/ P!CleanupTimer \/ P!shortp_timeout \/ P!PrinterDone
           \/ P!shortp_wait \/ P!WorkStamp
  BY <1>1 DEF PrintCalls, P!shortp_init, P!CleanupIrq, P!CleanupTimer, P!shortp_timeout,
              P!TimeoutTest, P!TimeoutLocked, P!PrinterDone, P!shortp_wait, P!WorkStamp,
              P!output, P!writers, P!shortp_out_space
<1>2. CASE P!CleanupFlush
  <2>1. open = {} /\ UNCHANGED <<open, sem, wpc, space>>
    BY <1>2 DEF P!CleanupFlush, P!writers, PrintCalls
  <2>2. \A w \in Writers : wpc[w] = "idle"  BY <2>1 DEF PrintCalls
  <2> QED BY <2>1, <2>2 DEF PrintCalls
<1>3. CASE P!WorkLocked
  <2>1. UNCHANGED <<phase, open, sem, wpc, space, out_head>>
    BY <1>3 DEF P!WorkLocked, P!shortp_do_write, P!output
  <2>2. P!shortp_out_space <= P!shortp_out_space'
    <3>1. CASE out_head = out_tail
      BY <1>3, <3>1 DEF P!WorkLocked, P!output, P!shortp_out_space, PrintTypes
    <3>2. CASE out_head # out_tail
      BY <1>3, <2>1, <3>2, TailMoves DEF P!shortp_out_space, PrintTypes
    <3> QED BY <3>1, <3>2
  <2>3. P!shortp_out_space \in Int /\ P!shortp_out_space' \in Int
    <3>1. PrintTypes'  BY PrintTypesStep
    <3> QED BY <3>1 DEF PrintTypes, P!shortp_out_space
  <2> QED BY <2>1, <2>2, <2>3 DEF PrintCalls, PrintTypes
<1>4. ASSUME NEW w \in Writers, P!shortp_open(w) \/ P!shortp_release(w) PROVE PrintCalls'
  <2>1. UNCHANGED <<phase, sem, space, out_head, out_tail>>
    BY <1>4 DEF P!shortp_open, P!shortp_release, P!ReleaseTest, P!ReleasePrepare,
                P!ReleaseSignal, P!output
  <2>2. P!shortp_out_space' = P!shortp_out_space  BY <2>1 DEF P!shortp_out_space
  <2>3. CASE P!shortp_open(w)
    BY <2>1, <2>2, <2>3 DEF P!shortp_open, PrintCalls
  <2>4. CASE P!ReleaseTest(w) /\ open' # open
    <3>1. open' = open \ {w} /\ wpc' = [wpc EXCEPT ![w] = "idle"]
      BY <2>4 DEF P!ReleaseTest, P!Step
    <3> QED BY <2>1, <2>2, <3>1 DEF PrintCalls, PrintTypes
  <2>5. CASE P!shortp_release(w) /\ open' = open
    <3>1. PICK next \in {"idle"} \cup ReleaseSteps : wpc' = [wpc EXCEPT ![w] = next]
      BY <2>5 DEF P!shortp_release, P!ReleaseTest, P!ReleasePrepare, P!ReleaseSignal, P!Step
    <3>2. w \in open
      BY <2>5 DEF P!shortp_release, P!ReleaseTest, P!ReleasePrepare, P!ReleaseSignal,
                  PrintCalls
    <3> QED BY <2>1, <2>2, <2>5, <3>1, <3>2 DEF PrintCalls, PrintTypes
  <2>6. P!ReleasePrepare(w) \/ P!ReleaseSignal(w) => open' = open
    BY DEF P!ReleasePrepare, P!ReleaseSignal
  <2> QED BY <1>4, <2>3, <2>4, <2>5, <2>6 DEF P!shortp_release
<1>5. ASSUME NEW w \in Writers,
             P!WriteDown(w) \/ P!WriteSpace(w) \/ P!WritePrepare(w) \/ P!WriteSignal(w)
             \/ P!WriteStart(w)
      PROVE  PrintCalls'
  <2>1. UNCHANGED <<phase, open, out_head, out_tail>> /\ w \in open
    BY <1>5 DEF P!WriteDown, P!WriteSpace, P!WritePrepare, P!WriteSignal, P!WriteStart,
                P!output, PrintCalls
  <2>2. P!shortp_out_space' = P!shortp_out_space /\ P!shortp_out_space \in Int
    BY <2>1, SpaceBounds DEF P!shortp_out_space
  <2>3. CASE P!WriteDown(w)
    <3>1. sem = "nobody" /\ sem' = w /\ wpc' = [wpc EXCEPT ![w] = "space"] /\ space' = space
      BY <2>3 DEF P!WriteDown, P!Step, P!Nobody
    <3>2. \A v \in Writers : wpc[v] \notin WriteSteps  BY <3>1 DEF PrintCalls
    <3> QED BY <2>1, <2>2, <3>1, <3>2 DEF PrintCalls, PrintTypes
  <2>4. CASE P!WriteSpace(w)
    <3>1. /\ sem' = sem /\ wpc[w] \in {"space", "retest"}
          /\ space' = [space EXCEPT ![w] = P!shortp_out_space]
      BY <2>4 DEF P!WriteSpace
    <3>2. PICK next \in {"copy", "prepare", "asleep"} :
            /\ wpc' = [wpc EXCEPT ![w] = next]
            /\ next = "copy" => P!shortp_out_space > 0
      BY <2>4 DEF P!WriteSpace, P!Step
    <3> QED BY <2>1, <2>2, <3>1, <3>2 DEF PrintCalls, PrintTypes
  <2>5. CASE P!WritePrepare(w)
    <3>1. /\ sem' = sem /\ wpc[w] \in {"prepare", "asleep"} /\ space' = space
          /\ wpc' = [wpc EXCEPT ![w] = "retest"]
      BY <2>5 DEF P!WritePrepare, P!Step
    <3> QED BY <2>1, <2>2, <3>1 DEF PrintCalls, PrintTypes
  <2>6. CASE P!WriteSignal(w) \/ (P!WriteStart(w) /\ sem' # sem)
    <3>1. wpc[w] \in WriteSteps /\ wpc' = [wpc EXCEPT ![w] = "idle"] /\ space' = space
      BY <2>6 DEF P!WriteSignal, P!WriteStart, P!Up, P!Step
    <3>2. \A v \in Writers : v # w => wpc[v] \notin WriteSteps
      BY <3>1 DEF PrintCalls
    <3> QED BY <2>1, <2>2, <3>1, <3>2 DEF PrintCalls, PrintTypes
  <2>7. CASE P!WriteStart(w) /\ sem' = sem
    <3>1. wpc[w] = "start" /\ sem = w /\ sem # "nobody"
      BY <2>7 DEF P!WriteStart, PrintCalls
    <3>2. wpc' = [wpc EXCEPT ![w] = "space"] /\ space' = space
      BY <2>7, <3>1 DEF P!WriteStart, P!Up, P!Step, P!Nobody
    <3> QED BY <2>1, <2>2, <2>7, <3>1, <3>2 DEF PrintCalls, PrintTypes
  <2> QED BY <1>5, <2>3, <2>4, <2>5, <2>6, <2>7
<1>6. ASSUME NEW w \in Writers, P!WriteCopy(w) PROVE PrintCalls'
  <2>1. /\ wpc[w] = "copy" /\ UNCHANGED <<phase, open>> /\ w \in open
        /\ space' = [space EXCEPT ![w] = 0]
    BY <1>6 DEF P!WriteCopy, PrintCalls
  <2>2. \A v \in Writers : v # w => wpc[v] \notin WriteSteps
    BY <2>1 DEF PrintCalls
  <2>3. (sem' = w /\ wpc' = [wpc EXCEPT ![w] = "start"]) \/ wpc' = [wpc EXCEPT ![w] = "idle"]
    BY <1>6, <2>1 DEF P!WriteCopy, P!Up, P!Step, PrintCalls
  <2> QED BY <2>1, <2>2, <2>3 DEF PrintCalls, PrintTypes
<1> QED BY <1>1, <1>2, <1>3, <1>4, <1>5, <1>6, PrintSteps
    DEF P!shortp_cleanup, P!shortp_do_work, P!shortp_write

\* How many bytes the output ring holds, and where the i-th is.
OutHeld == IF out_head >= out_tail THEN out_head - out_tail ELSE out_head - out_tail + M
OutAt(i) == IF out_tail + i <= M THEN out_tail + i - 1 ELSE out_tail + i - 1 - M

\* The ring holds the bytes that were accepted and not printed.
OutHolds ==
  accepted - printed = OutHeld /\ \A i \in 1..OutHeld : out[OutAt(i)] = printed + i

\* Bytes wait only under an output that is active, or about to be, and that has
\* something to go on with.
OutGoing ==
  /\ phase = "unloaded" => out_head = out_tail /\ ~active /\ ~work /\ wk = "idle"
  /\ out_head # out_tail => active \/ \E w \in Writers : wpc[w] = "start"
  /\ phase = "live" /\ active => timer \/ timeout \/ work \/ wk = "wait"

\* A writer that sleeps has more than half a page of bytes before it, from the last of
\* which on it will be woken.
OutWoken ==
  \A w \in Writers :
    /\ wpc[w] = "asleep" /\ w \in outq => OutHeld >= M - M \div 2
    /\ wpc[w] = "drain_asleep" /\ w \in emptyq => active

\* All bytes but those of a copy stay, and those find room.
LEMMA CopyHolds ==
  ASSUME PrintTypes, PrintCalls, OutHolds, NEW w \in Writers, P!WriteCopy(w),
         wpc' # [wpc EXCEPT ![w] = "idle"]
  PROVE  OutHolds'
<1>1. PICK n \in 0..P!shortp_out_space :
        /\ out' = [i \in 0..(M - 1) |-> IF i \in out_head..(out_head + n - 1)
                                     THEN accepted + 1 + i - out_head ELSE out[i]]
        /\ out_head' = (IF out_head + n < M THEN out_head + n ELSE 0)
        /\ accepted' = accepted + n
        /\ UNCHANGED <<out_tail, printed>>
  BY CopyEffect
<1>2. /\ out_head \in 0..(M - 1) /\ out_tail \in 0..(M - 1) /\ accepted \in Nat /\ printed \in Nat
      /\ accepted - printed = OutHeld /\ \A i \in 1..OutHeld : out[OutAt(i)] = printed + i
  BY DEF PrintTypes, OutHolds
<1>3. OutHeld' = OutHeld + n /\ n \in Nat /\ OutHeld \in Nat
  BY <1>1, <1>2 DEF OutHeld, P!shortp_out_space
<1>4. ASSUME NEW i \in 1..OutHeld' PROVE out'[OutAt(i)'] = printed + i
  <2>1. OutAt(i)' = OutAt(i)  BY <1>1 DEF OutAt
  <2>2. CASE i <= OutHeld
    <3>1. OutAt(i) \in 0..(M - 1) /\ OutAt(i) \notin out_head..(out_head + n - 1)
      BY <1>1, <1>2, <2>2 DEF OutAt, OutHeld, P!shortp_out_space
    <3>2. i \in 1..OutHeld  BY <1>3, <2>2
    <3> QED BY <1>1, <1>2, <2>1, <3>1, <3>2
  <2>3. CASE ~(i <= OutHeld)
    <3>1. i \in (OutHeld + 1)..(OutHeld + n)  BY <1>3, <2>3
    <3>2. /\ OutAt(i) = out_head + (i - OutHeld) - 1 /\ OutAt(i) \in 0..(M - 1)
          /\ OutAt(i) \in out_head..(out_head + n - 1)
      BY <1>1, <1>2, <1>3, <3>1 DEF OutAt, OutHeld, P!shortp_out_space
    <3>3. out'[OutAt(i)] = accepted + 1 + OutAt(i) - out_head  BY <1>1, <3>2
    <3> QED BY <1>2, <1>3, <2>1, <3>1, <3>2, <3>3
  <2> QED BY <2>2, <2>3
<1>5. accepted' - printed' = OutHeld'  BY <1>1, <1>2, <1>3
<1> QED BY <1>1, <1>4, <1>5 DEF OutHolds

\* The work item takes the oldest byte.
LEMMA WorkHolds ==
  ASSUME PrintTypes, OutHolds, P!WorkLocked, out_head # out_tail
  PROVE  OutHolds' /\ OutHeld' = OutHeld - 1
<1>1. /\ out_tail' = (IF out_tail = M - 1 THEN 0 ELSE out_tail + 1)
      /\ printed' = printed + 1 /\ UNCHANGED <<out, out_head, accepted>>
  BY TailMoves DEF P!WorkLocked, P!shortp_do_write
<1>2. /\ out_head \in 0..(M - 1) /\ out_tail \in 0..(M - 1) /\ accepted \in Nat /\ printed \in Nat
      /\ accepted - printed = OutHeld /\ \A i \in 1..OutHeld : out[OutAt(i)] = printed + i
  BY DEF PrintTypes, OutHolds
<1>3. OutHeld' = OutHeld - 1 /\ OutHeld \in Nat /\ OutHeld - 1 \in Nat
  BY <1>1, <1>2 DEF OutHeld
<1>4. ASSUME NEW i \in 1..OutHeld' PROVE out'[OutAt(i)'] = printed' + i
  <2>1. i + 1 \in 1..OutHeld  BY <1>3
  <2>2. OutAt(i)' = OutAt(i + 1)  BY <1>1, <1>2, <2>1 DEF OutAt, OutHeld
  <2>3. out[OutAt(i + 1)] = printed + (i + 1)  BY <1>2, <2>1
  <2> QED BY <1>1, <1>2, <2>2, <2>3
<1>5. accepted' - printed' = OutHeld'  BY <1>1, <1>2, <1>3
<1> QED BY <1>3, <1>4, <1>5 DEF OutHolds

\* Only a copy, the work item and the unloading touch the ring.
LEMMA OutHoldsStep == PrintTypes /\ PrintCalls /\ OutHolds /\ P!Next => OutHolds'
<1> SUFFICES ASSUME PrintTypes, PrintCalls, OutHolds, P!Next PROVE OutHolds'
  OBVIOUS
<1>1. UNCHANGED P!output => OutHolds'
  BY DEF P!output, OutHolds, OutHeld, OutAt
<1>2. CASE P!CleanupFlush
  BY <1>2 DEF P!CleanupFlush, OutHolds, OutHeld
<1>3. CASE P!WorkLocked
  BY <1>1, <1>3, WorkHolds DEF P!WorkLocked
<1>4. ASSUME NEW w \in Writers, P!WriteCopy(w) PROVE OutHolds'
  <2>1. CASE wpc' = [wpc EXCEPT ![w] = "idle"]
    <3>1. ~P!Step(w, "start")  BY <2>1 DEF P!Step, PrintTypes
    <3> QED BY <1>1, <1>4, <3>1 DEF P!WriteCopy
  <2> QED BY <1>4, <2>1, CopyHolds
<1>5. CASE P!shortp_init \/ P!CleanupIrq \/ P!CleanupTimer \/ P!shortp_timeout \/ P!PrinterDone
           \/ P!shortp_wait \/ P!WorkStamp
  BY <1>1, <1>5 DEF P!shortp_init, P!CleanupIrq, P!CleanupTimer, P!shortp_timeout,
              P!TimeoutTest, P!TimeoutLocked, P!PrinterDone, P!shortp_wait, P!WorkStamp
<1>6. ASSUME NEW w \in Writers, P!shortp_open(w) \/ P!shortp_release(w) PROVE OutHolds'
  BY <1>1, <1>6 DEF P!shortp_open, P!shortp_release, P!ReleaseTest, P!ReleasePrepare,
                    P!ReleaseSignal
<1>7. ASSUME NEW w \in Writers,
             P!WriteDown(w) \/ P!WriteSpace(w) \/ P!WritePrepare(w) \/ P!WriteSignal(w)
             \/ P!WriteStart(w)
      PROVE  OutHolds'
  BY <1>1, <1>7 DEF P!WriteDown, P!WriteSpace, P!WritePrepare, P!WriteSignal, P!WriteStart
<1> QED BY <1>2, <1>3, <1>4, <1>5, <1>6, <1>7, PrintSteps
    DEF P!shortp_cleanup, P!shortp_do_work, P!shortp_write

\* What keeps output going is there or not.
LEMMA ControlStep == ControlTypes /\ P!Next => ControlTypes'
<1> SUFFICES ASSUME ControlTypes, P!Next PROVE ControlTypes'
  OBVIOUS
<1> USE DEF ControlTypes
<1>1. UNCHANGED P!control => ControlTypes'  BY DEF P!control
<1>2. CASE P!shortp_init \/ P!shortp_cleanup \/ P!shortp_timeout \/ P!PrinterDone
  BY <1>2 DEF P!shortp_init, P!shortp_cleanup, P!CleanupIrq, P!CleanupTimer, P!CleanupFlush,
              P!shortp_timeout, P!TimeoutTest, P!TimeoutLocked, P!PrinterDone,
              P!shortp_interrupt, P!control
<1>3. CASE P!shortp_do_work
  BY <1>3 DEF P!shortp_do_work, P!shortp_wait, P!WorkLocked, P!WorkStamp, P!shortp_do_write
<1>4. ASSUME NEW w \in Writers, P!shortp_open(w) \/ P!shortp_write(w) \/ P!shortp_release(w)
      PROVE  ControlTypes'
  BY <1>1, <1>4 DEF P!shortp_open, P!shortp_release, P!ReleaseTest, P!ReleasePrepare,
                    P!ReleaseSignal, P!shortp_write, P!WriteDown, P!WriteSpace,
                    P!WritePrepare, P!WriteSignal, P!WriteCopy, P!WriteStart, P!control
<1> QED BY <1>2, <1>3, <1>4, PrintSteps

\* Output that was started goes on until the ring is empty.
LEMMA OutGoingStep ==
  PrintTypes /\ ControlTypes /\ PrintCalls /\ OutGoing /\ P!Next => OutGoing'
<1> SUFFICES ASSUME PrintTypes, ControlTypes, PrintCalls, OutGoing, P!Next PROVE OutGoing'
  OBVIOUS
<1>1. CASE P!shortp_init \/ P!CleanupIrq \/ P!CleanupTimer
  BY <1>1 DEF P!shortp_init, P!CleanupIrq, P!CleanupTimer, P!output, P!writers, P!control,
              OutGoing
<1>2. CASE P!CleanupFlush
  BY <1>2 DEF P!CleanupFlush, OutGoing
<1>3. CASE P!shortp_timeout
  BY <1>3 DEF P!shortp_timeout, P!TimeoutTest, P!TimeoutLocked, P!shortp_interrupt, P!output,
              P!writers, OutGoing, ControlTypes
<1>4. CASE P!PrinterDone
  BY <1>4 DEF P!PrinterDone, P!shortp_interrupt, P!output, P!writers, OutGoing, ControlTypes
<1>5. CASE P!shortp_wait \/ P!WorkStamp
  BY <1>5 DEF P!shortp_wait, P!WorkStamp, P!output, P!writers, OutGoing
<1>6. CASE P!WorkLocked
  <2>1. wk = "wait" /\ phase # "unloaded"  BY <1>6 DEF P!WorkLocked, OutGoing
  <2>2. CASE out_head = out_tail
    BY <1>6, <2>1, <2>2 DEF P!WorkLocked, P!output, OutGoing
  <2>3. CASE out_head # out_tail
    BY <1>6, <2>1, <2>3 DEF P!WorkLocked, P!shortp_do_write, OutGoing
  <2> QED BY <2>2, <2>3
<1>7. ASSUME NEW w \in Writers, P!shortp_open(w) PROVE OutGoing'
  BY <1>7 DEF P!shortp_open, P!output, P!control, OutGoing
<1>8. ASSUME NEW w \in Writers,
             P!shortp_release(w) \/ P!WriteDown(w) \/ P!WriteSpace(w) \/ P!WritePrepare(w)
             \/ P!WriteSignal(w)
      PROVE  OutGoing'
  <2>1. UNCHANGED <<phase, out_head, out_tail, active, timer, timeout, work, wk>>
    BY <1>8 DEF P!shortp_release, P!ReleaseTest, P!ReleasePrepare, P!ReleaseSignal,
                P!WriteDown, P!WriteSpace, P!WritePrepare, P!WriteSignal, P!output, P!control
  <2>2. wpc[w] # "start" /\ \A v \in Writers : v # w => wpc'[v] = wpc[v]
    BY <1>8 DEF P!shortp_release, P!ReleaseTest, P!ReleasePrepare, P!ReleaseSignal,
                P!WriteDown, P!WriteSpace, P!WritePrepare, P!WriteSignal, P!Up, P!Step,
                PrintTypes
  <2> QED BY <2>1, <2>2 DEF OutGoing
<1>9. ASSUME NEW w \in Writers, P!WriteCopy(w) PROVE OutGoing'
  <2>1. wpc[w] = "copy" /\ phase # "unloaded" /\ UNCHANGED <<phase, P!control>>
    BY <1>9 DEF P!WriteCopy, PrintCalls, WriteSteps
  <2>2. CASE wpc' = [wpc EXCEPT ![w] = "start"]
    <3>1. wpc'[w] = "start"  BY <2>2 DEF PrintTypes
    <3> QED BY <2>1, <3>1 DEF OutGoing, P!control
  <2>3. CASE wpc' # [wpc EXCEPT ![w] = "start"]
    <3>1. UNCHANGED P!output /\ wpc' = [wpc EXCEPT ![w] = "idle"]
      BY <1>9, <2>3 DEF P!WriteCopy, P!Up, P!Step
    <3>2. \A v \in Writers : v # w => wpc'[v] = wpc[v]  BY <3>1 DEF PrintTypes
    <3> QED BY <2>1, <3>1, <3>2 DEF OutGoing, P!control, P!output
  <2> QED BY <2>2, <2>3
<1>10. ASSUME NEW w \in Writers, P!WriteStart(w) PROVE OutGoing'
  <2>1. phase # "unloaded" /\ UNCHANGED <<phase, out_head, out_tail>>
    BY <1>10 DEF P!WriteStart, PrintCalls, WriteSteps, P!output
  <2>2. /\ active' = TRUE
        /\ active => UNCHANGED <<timer, timeout, work, wk>>
        /\ ~active => timer' = TRUE
    BY <1>10 DEF P!WriteStart, P!control, ControlTypes
  <2> QED BY <2>1, <2>2 DEF OutGoing
<1> QED BY <1>1, <1>2, <1>3, <1>4, <1>5, <1>6, <1>7, <1>8, <1>9, <1>10, PrintSteps
    DEF P!shortp_cleanup, P!shortp_do_work, P!shortp_write

\* Nothing of this is lost while the module is loaded.
LEMMA GoingOn == OutGoing => P!OutputGoing
BY DEF OutGoing, P!OutputGoing

\* What the work item sees of the free bytes: none where the ring is empty.
LEMMA FreeSeen ==
  ASSUME NEW h \in 0..(M - 1), NEW t \in 0..(M - 1)
  PROVE  (M + t - h) % M = IF h = t THEN 0 ELSE IF h > t THEN M - (h - t) ELSE t - h
<1> DEFINE d == M + t - h
<1>1. d \in 0..(2 * M - 1) /\ M \in Nat \ {0}  OBVIOUS
<1>2. (IF d < M THEN d ELSE d - M) = IF h = t THEN 0 ELSE IF h > t THEN M - (h - t) ELSE t - h
  OBVIOUS
<1> HIDE DEF d
<1>3. d % M = IF d < M THEN d ELSE d - M  BY <1>1, Remainder
<1> QED BY <1>2, <1>3 DEF d

\* The remainder of a difference of two places in the page.
LEMMA Difference ==
  ASSUME NEW n \in Nat \ {0}, NEW d \in (1 - n)..(n - 1)
  PROVE  d % n = IF d >= 0 THEN d ELSE d + n
OBVIOUS

\* A writer that sleeps is woken when half of the page is free.
LEMMA OutWokenStep ==
  PrintTypes /\ ControlTypes /\ PrintCalls /\ OutHolds /\ OutWoken /\ P!Next => OutWoken'
<1> SUFFICES ASSUME PrintTypes, ControlTypes, PrintCalls, OutHolds, OutWoken, P!Next
             PROVE  OutWoken'
  OBVIOUS
<1>1. ASSUME UNCHANGED <<out_head, out_tail, active, wpc>>,
             outq' \subseteq outq, emptyq' \subseteq emptyq
      PROVE  OutWoken'
  BY <1>1 DEF OutWoken, OutHeld
<1>2. CASE P!shortp_init \/ P!CleanupIrq \/ P!CleanupTimer \/ P!shortp_timeout \/ P!PrinterDone
           \/ P!shortp_wait \/ P!WorkStamp
  BY <1>1, <1>2 DEF P!shortp_init, P!CleanupIrq, P!CleanupTimer, P!shortp_timeout,
                    P!TimeoutTest, P!TimeoutLocked, P!PrinterDone, P!shortp_wait,
                    P!WorkStamp, P!output, P!writers, P!control
<1>3. CASE P!CleanupFlush
  <2>1. open = {} /\ wpc' = wpc  BY <1>3 DEF P!CleanupFlush, P!writers, PrintCalls
  <2> QED BY <2>1 DEF PrintCalls, OutWoken
<1>4. CASE P!WorkLocked /\ out_head = out_tail
  <2>1. /\ emptyq' = {} /\ UNCHANGED <<out_head, out_tail, wpc>>
        /\ outq' \subseteq outq
    BY <1>4 DEF P!WorkLocked, P!output, P!WakeWriters
  <2> QED BY <2>1 DEF OutWoken, OutHeld
<1>5. CASE P!WorkLocked /\ out_head # out_tail
  <2>1. OutHeld' = OutHeld - 1 /\ OutHeld \in 1..(M - 1)
    BY <1>5, WorkHolds DEF OutHeld, PrintTypes
  <2>2. /\ UNCHANGED <<out_head, active, emptyq, wpc>>
        /\ outq' = IF (M + out_tail' - out_head) % M > M \div 2 THEN {} ELSE outq
    BY <1>5 DEF P!WorkLocked, P!shortp_do_write, P!WakeWriters
  <2>3. out_tail' \in 0..(M - 1) /\ out_head \in 0..(M - 1)
    BY <1>5, TailMoves DEF PrintTypes
  <2>4. (M + out_tail' - out_head) % M = IF OutHeld' = 0 THEN 0 ELSE M - OutHeld'
    <3>1. (M + out_tail' - out_head) % M =
            IF out_head = out_tail' THEN 0
            ELSE IF out_head > out_tail' THEN M - (out_head - out_tail') ELSE out_tail' - out_head
      BY <2>3, FreeSeen
    <3> DEFINE t == out_tail'
               free == (M + t - out_head) % M
    <3>2. OutHeld' = IF out_head >= t THEN out_head - t ELSE out_head - t + M
      BY <2>2 DEF OutHeld
    <3>3. t \in 0..(M - 1) /\ out_head \in 0..(M - 1)  BY <2>3
    <3>4. free = IF out_head = t THEN 0 ELSE IF out_head > t THEN M - (out_head - t) ELSE t - out_head
      BY <3>1
    <3> HIDE DEF free, t
    <3>5. free = IF OutHeld' = 0 THEN 0 ELSE M - OutHeld'  BY <3>2, <3>3, <3>4
    <3> QED BY <3>5 DEF free, t
  <2>5. M - M \div 2 >= 2 /\ M \div 2 \in Int  OBVIOUS
  <2>6. ASSUME NEW w \in Writers, wpc'[w] = "asleep", w \in outq'
        PROVE  OutHeld' >= M - M \div 2
    <3>1. w \in outq /\ wpc[w] = "asleep"  BY <2>2, <2>6
    <3>2. OutHeld >= M - M \div 2  BY <3>1 DEF OutWoken
    <3>3. OutHeld' # 0  BY <2>1, <2>5, <3>2
    <3>4. ~(M - OutHeld' > M \div 2)  BY <2>2, <2>4, <2>6, <3>3
    <3> QED BY <2>1, <2>5, <3>4
  <2> QED BY <2>2, <2>6 DEF OutWoken
<1>6. ASSUME NEW w \in Writers, P!shortp_open(w) PROVE OutWoken'
  BY <1>1, <1>6 DEF P!shortp_open, P!output, P!control
<1>7. ASSUME NEW w \in Writers,
             P!WriteDown(w) \/ P!WritePrepare(w) \/ P!WriteSignal(w)
             \/ (P!WriteSpace(w) /\ P!shortp_out_space > 0)
             \/ (P!WriteSpace(w) /\ wpc[w] # "retest")
             \/ P!ReleasePrepare(w) \/ P!ReleaseSignal(w)
             \/ (P!ReleaseTest(w) /\ ~active)
             \/ (P!ReleaseTest(w) /\ wpc[w] # "drain_retest")
      PROVE  OutWoken'
  <2>1. /\ UNCHANGED <<out_head, out_tail, active>>
        /\ outq' \subseteq outq \cup {w} /\ emptyq' \subseteq emptyq \cup {w}
    BY <1>7 DEF P!WriteDown, P!WritePrepare, P!WriteSignal, P!WriteSpace, P!ReleasePrepare,
                P!ReleaseSignal, P!ReleaseTest, P!output, P!control
  <2>2. /\ wpc'[w] \notin {"asleep", "drain_asleep"}
        /\ \A v \in Writers : v # w => wpc'[v] = wpc[v]
    BY <1>7 DEF P!WriteDown, P!WritePrepare, P!WriteSignal, P!WriteSpace, P!ReleasePrepare,
                P!ReleaseSignal, P!ReleaseTest, P!Up, P!Step, PrintTypes
  <2> QED BY <2>1, <2>2 DEF OutWoken, OutHeld
<1>8. ASSUME NEW w \in Writers, P!WriteSpace(w), ~(P!shortp_out_space > 0), wpc[w] = "retest"
      PROVE  OutWoken'
  <2>1. /\ UNCHANGED <<out_head, out_tail, active, outq, emptyq>>
        /\ wpc' = [wpc EXCEPT ![w] = "asleep"]
    BY <1>8 DEF P!WriteSpace, P!Step, P!output, P!control
  <2>2. OutHeld = M - 1 /\ OutHeld' = OutHeld
    BY <1>8, <2>1 DEF P!shortp_out_space, OutHeld, PrintTypes
  <2>3. M \div 2 >= 1 /\ M \div 2 \in Int  OBVIOUS
  <2> QED BY <2>1, <2>2, <2>3 DEF OutWoken, PrintTypes
<1>9. ASSUME NEW w \in Writers, P!ReleaseTest(w), active, wpc[w] = "drain_retest"
      PROVE  OutWoken'
  <2>1. /\ UNCHANGED <<out_head, out_tail, active, outq, emptyq>>
        /\ wpc' = [wpc EXCEPT ![w] = "drain_asleep"]
    BY <1>9 DEF P!ReleaseTest, P!Step, P!output, P!control
  <2> QED BY <1>9, <2>1 DEF OutWoken, OutHeld, PrintTypes
<1>10. ASSUME NEW w \in Writers, P!WriteCopy(w) PROVE OutWoken'
  <2>1. UNCHANGED <<active, outq, emptyq>>  BY <1>10 DEF P!WriteCopy, P!control
  <2>2. PICK step \in {"idle", "start"} : wpc' = [wpc EXCEPT ![w] = step]
    BY <1>10 DEF P!WriteCopy, P!Up, P!Step
  <2>3. OutHeld' >= OutHeld /\ OutHeld \in Int /\ OutHeld' \in Int
    <3>1. OutHolds' /\ PrintTypes'  BY OutHoldsStep, PrintTypesStep
    <3>2. CASE wpc' = [wpc EXCEPT ![w] = "idle"]
      <4>1. ~P!Step(w, "start")  BY <3>2 DEF P!Step, PrintTypes
      <4>2. OutHeld' = OutHeld  BY <1>10, <4>1 DEF P!WriteCopy, P!output, OutHeld
      <4> QED BY <4>2 DEF OutHeld, PrintTypes
    <3>3. CASE wpc' # [wpc EXCEPT ![w] = "idle"]
      <4>1. PICK n \in 0..P!shortp_out_space : accepted' = accepted + n /\ printed' = printed
        BY <1>10, <3>3, CopyEffect
      <4>2. n \in Nat  BY <4>1, SpaceBounds
      <4> QED BY <3>1, <4>1, <4>2 DEF OutHolds, PrintTypes
    <3> QED BY <3>2, <3>3
  <2>4. M - M \div 2 \in Int  OBVIOUS
  <2> QED BY <2>1, <2>2, <2>3, <2>4 DEF OutWoken, PrintTypes
<1>11. ASSUME NEW w \in Writers, P!WriteStart(w) PROVE OutWoken'
  <2>1. UNCHANGED <<out_head, out_tail, outq, emptyq>>
    BY <1>11 DEF P!WriteStart, P!output
  <2>2. active' = TRUE  BY <1>11 DEF P!WriteStart, P!control, ControlTypes
  <2>3. PICK step \in {"idle", "space"} : wpc' = [wpc EXCEPT ![w] = step]
    BY <1>11 DEF P!WriteStart, P!Up, P!Step
  <2> QED BY <2>1, <2>2, <2>3 DEF OutWoken, OutHeld, PrintTypes
<1> QED BY <1>2, <1>3, <1>4, <1>5, <1>6, <1>7, <1>8, <1>9, <1>10, <1>11, PrintSteps
    DEF P!shortp_cleanup, P!shortp_do_work, P!shortp_write, P!shortp_release

\* The invariant of shortprint.
PrintKept ==
  /\ PrintTypes /\ ControlTypes /\ PrintCalls
  /\ OutHolds /\ OutGoing /\ OutWoken
  /\ queued = {}

\* Nothing was written.
LEMMA PrintInit ==
  P!OutputInit /\ P!WritersInit /\ P!RingInit /\ phase = "unloaded" => PrintKept
<1> SUFFICES ASSUME P!OutputInit, P!WritersInit, P!RingInit, phase = "unloaded" PROVE PrintKept
  OBVIOUS
<1> USE DEF P!OutputInit, P!WritersInit
<1>1. PrintTypes
  <2>1. 0 \in 0..(M - 1) /\ [i \in 0..(M - 1) |-> 0] \in [0..(M - 1) -> Int]  OBVIOUS
  <2> QED BY <2>1 DEF PrintTypes
<1>2. ControlTypes  BY DEF ControlTypes
<1>3. PrintCalls  BY DEF PrintCalls, WriteSteps
<1>4. OutHolds /\ OutGoing /\ OutWoken  BY DEF OutHolds, OutHeld, OutGoing, OutWoken
<1> QED BY <1>1, <1>2, <1>3, <1>4 DEF PrintKept, P!RingInit

\* Every step of shortprint.
LEMMA PrintStep == PrintKept /\ P!Next => PrintKept'
<1> SUFFICES ASSUME PrintKept, P!Next PROVE PrintKept'
  OBVIOUS
<1>1. queued' = {}
  <2>1. queued = {} /\ UNCHANGED P!readers => queued' = {}  BY DEF P!readers
  <2>2. CASE P!shortp_init \/ P!shortp_cleanup \/ P!shortp_timeout \/ P!PrinterDone
             \/ P!shortp_do_work
    BY <2>1, <2>2 DEF PrintKept, P!shortp_init, P!shortp_cleanup, P!CleanupIrq,
       P!CleanupTimer, P!CleanupFlush, P!shortp_timeout, P!TimeoutTest, P!TimeoutLocked,
       P!PrinterDone, P!shortp_do_work, P!shortp_wait, P!WorkLocked, P!WorkStamp, P!Wake
  <2>3. ASSUME NEW w \in Writers, P!shortp_open(w) \/ P!shortp_write(w) \/ P!shortp_release(w)
        PROVE  queued' = {}
    BY <2>1, <2>3 DEF PrintKept, P!shortp_open, P!shortp_release, P!ReleaseTest,
       P!ReleasePrepare, P!ReleaseSignal, P!shortp_write, P!WriteDown, P!WriteSpace,
       P!WritePrepare, P!WriteSignal, P!WriteCopy, P!WriteStart
  <2> QED BY <2>2, <2>3, PrintSteps
<1> QED BY <1>1, PrintTypesStep, ControlStep, PrintCallsStep, OutHoldsStep, OutGoingStep,
           OutWokenStep DEF PrintKept

\* The bytes that wait are those accepted and not printed, counted round the page.
LEMMA PrintedInOrder == PrintKept => P!BytesInOrder
<1> SUFFICES ASSUME PrintTypes, OutHolds PROVE P!BytesInOrder
  BY DEF PrintKept
<1>1. /\ out_head \in 0..(M - 1) /\ out_tail \in 0..(M - 1) /\ M \in Nat \ {0}
      /\ accepted - printed = OutHeld
      /\ \A i \in 1..OutHeld : out[OutAt(i)] = printed + i
  BY DEF PrintTypes, OutHolds
<1>2. (out_head - out_tail) % M = OutHeld
  <2> DEFINE d == out_head - out_tail
  <2>1. d \in (1 - M)..(M - 1)  BY <1>1
  <2>2. OutHeld = IF d >= 0 THEN d ELSE d + M  BY <1>1 DEF OutHeld
  <2> HIDE DEF d
  <2>3. d % M = IF d >= 0 THEN d ELSE d + M  BY <1>1, <2>1, Difference
  <2> QED BY <2>2, <2>3 DEF d
<1>3. ASSUME NEW i \in 1..OutHeld PROVE out[(out_tail + i - 1) % M] = printed + i
  <2> DEFINE d == out_tail + i - 1
  <2>1. d \in 0..(2 * M - 1)  BY <1>1 DEF OutHeld
  <2>2. OutAt(i) = IF d < M THEN d ELSE d - M  BY <1>1 DEF OutHeld, OutAt
  <2> HIDE DEF d
  <2>3. d % M = IF d < M THEN d ELSE d - M  BY <1>1, <2>1, Remainder
  <2> QED BY <1>1, <2>2, <2>3 DEF d
<1> QED BY <1>1, <1>2, <1>3 DEF P!BytesInOrder

\* Half a page waits before a writer that sleeps.
LEMMA WritersAwake == PrintKept => P!SleepersWoken
<1> SUFFICES ASSUME PrintKept PROVE P!SleepersWoken
  OBVIOUS
<1>1. M - M \div 2 >= M \div 2 /\ M \div 2 \in Int  OBVIOUS
<1>2. accepted - printed = OutHeld /\ OutHeld \in Int
  BY DEF PrintKept, OutHolds, OutHeld, PrintTypes
<1>3. P!WritersWoken  BY <1>1, <1>2 DEF PrintKept, OutWoken, P!WritersWoken
<1>4. P!ReadersWoken(FALSE)  BY DEF PrintKept, P!ReadersWoken
<1> QED BY <1>3, <1>4 DEF P!SleepersWoken

-----------------------------------------------------------------------------
(***************************************************************************)
(* jit: a reader, its jit_data and what fills that.                        *)
(***************************************************************************)
WaitSteps == {"test", "prepare", "retest", "asleep", "go", "signalled"}

WaitTypes ==
  /\ phase \in {"unloaded", "live"}
  /\ pc \in [Writers -> {"idle"} \cup WaitSteps]

JitTypes ==
  /\ WaitTypes /\ DOMAIN mine = Writers
  /\ jits \in [DOMAIN jits -> [reader : Writers, loops : Nat]]

\* A reader in its call has a jit_data to itself, full where the wait has ended well.
JitOwners ==
  \A r \in Writers : pc[r] # "idle" =>
    /\ mine[r] \in DOMAIN jits
    /\ \A q \in Writers : pc[q] # "idle" /\ mine[q] = mine[r] => q = r
    /\ pc[r] = "go" => jits[mine[r]].loops = 0

\* Without a signal every jit_data has its reader.
JitOwned ==
  /\ phase = "unloaded" => \A r \in Writers : pc[r] = "idle"
  /\ ~signalled => \A d \in DOMAIN jits : \E r \in Writers : pc[r] # "idle" /\ mine[r] = d

JitKept ==
  /\ JitTypes /\ JitOwners /\ JitOwned
  /\ J!LinesGoOn /\ timers \cap tasklets = {}
  /\ J!SleepersWoken

\* Nobody reads.
LEMMA JitKeptInit == J!JitInit /\ J!WaitInit => JitKept
<1> SUFFICES ASSUME J!JitInit, J!WaitInit PROVE JitKept
  OBVIOUS
<1> USE DEF J!JitInit, J!WaitInit
<1>1. DOMAIN jits = {}  OBVIOUS
<1>2. jits \in [DOMAIN jits -> [reader : Writers, loops : Nat]]  OBVIOUS
<1>3. JitTypes  BY <1>2 DEF JitTypes, WaitTypes
<1>4. JitOwners /\ JitOwned /\ J!SleepersWoken
  BY <1>1 DEF JitOwners, JitOwned, J!SleepersWoken, J!Sleeps
<1>5. J!LinesGoOn /\ timers \cap tasklets = {}  BY <1>1 DEF J!LinesGoOn
<1> QED BY <1>3, <1>4, <1>5 DEF JitKept

\* A jit_data is allocated and its timer or tasklet set up.
LEMMA AllocateKeeps ==
  ASSUME JitKept, NEW r \in Writers, NEW d, J!Allocate(r, d),
         \/ timers' = timers \cup {d} /\ UNCHANGED tasklets
         \/ tasklets' = tasklets \cup {d} /\ UNCHANGED timers
  PROVE  JitKept'
<1>1. /\ phase = "live" /\ pc[r] = "idle" /\ d \notin DOMAIN jits
      /\ jits' = [e \in DOMAIN jits \cup {d} |->
                    IF e = d THEN [reader |-> r, loops |-> Loops] ELSE jits[e]]
      /\ mine' = [mine EXCEPT ![r] = d] /\ pc' = [pc EXCEPT ![r] = "test"]
      /\ UNCHANGED <<phase, queued, signalled>>
  BY DEF J!Allocate, J!Goto
<1>2. /\ DOMAIN jits' = DOMAIN jits \cup {d} /\ jits'[d].loops = Loops
      /\ \A e \in DOMAIN jits : jits'[e] = jits[e]
  BY <1>1
<1>3. JitTypes'
  <2>1. jits' \in [DOMAIN jits' -> [reader : Writers, loops : Nat]]
    BY <1>1, <1>2 DEF JitKept, JitTypes
  <2> QED BY <1>1, <2>1 DEF JitKept, JitTypes, WaitTypes, WaitSteps
<1>4. mine'[r] = d /\ pc'[r] = "test"
      /\ \A q \in Writers : q # r => mine'[q] = mine[q] /\ pc'[q] = pc[q]
  BY <1>1 DEF JitKept, JitTypes, WaitTypes
<1>5. JitOwners'
  BY <1>1, <1>2, <1>4 DEF JitKept, JitOwners
<1>6. JitOwned'
  BY <1>1, <1>2, <1>4 DEF JitKept, JitOwned
<1>7. J!LinesGoOn' /\ (timers \cap tasklets = {})'
  <2>1. Loops > 0  OBVIOUS
  <2> QED BY <1>1, <1>2, <2>1 DEF JitKept, J!LinesGoOn
<1>8. J!SleepersWoken'
  <2> SUFFICES ASSUME NEW q \in Writers, pc'[q] = "asleep", q \in queued'
               PROVE  jits'[mine'[q]].loops > 0
    BY DEF J!SleepersWoken, J!Sleeps
  <2>1. q # r /\ mine'[q] = mine[q] /\ pc[q] = "asleep" /\ q \in queued  BY <1>1, <1>4
  <2>2. mine[q] \in DOMAIN jits /\ jits[mine[q]].loops > 0
    BY <2>1 DEF JitKept, JitOwners, J!SleepersWoken, J!Sleeps
  <2> QED BY <1>2, <2>1, <2>2
<1> QED BY <1>3, <1>5, <1>6, <1>7, <1>8 DEF JitKept

\* A line is printed.
LEMMA LineKeeps ==
  ASSUME JitKept, NEW d, J!jit_timer_fn(d) \/ J!jit_tasklet_fn(d)
  PROVE  JitKept'
<1>1. /\ d \in timers \cup tasklets /\ J!Line(d)
      /\ timers' \cup tasklets' =
           (timers \cup tasklets) \ (IF jits[d].loops > 1 THEN {} ELSE {d})
      /\ timers' \cap tasklets' = {}
  BY DEF J!jit_timer_fn, J!jit_tasklet_fn, JitKept
<1>2. /\ d \in DOMAIN jits /\ jits[d].loops \in Nat /\ jits[d].loops > 0
      /\ jits[d] \in [reader : Writers, loops : Nat]
  BY <1>1 DEF JitKept, J!LinesGoOn, JitTypes
<1>3. /\ jits' = [jits EXCEPT ![d].loops = @ - 1]
      /\ queued' = IF jits[d].loops = 1 THEN {r \in queued : mine[r] # d} ELSE queued
      /\ UNCHANGED <<phase, pc, mine, signalled>>
  BY <1>1 DEF J!Line
<1>4. /\ DOMAIN jits' = DOMAIN jits /\ jits'[d].loops = jits[d].loops - 1
      /\ \A e \in DOMAIN jits : e # d => jits'[e] = jits[e]
  BY <1>2, <1>3
<1>5. JitTypes'
  <2>1. [jits[d] EXCEPT !.loops = @ - 1] \in [reader : Writers, loops : Nat]
    BY <1>2
  <2>2. jits' \in [DOMAIN jits' -> [reader : Writers, loops : Nat]]
    BY <1>3, <1>4, <2>1 DEF JitKept, JitTypes
  <2> QED BY <1>3, <2>2 DEF JitKept, JitTypes, WaitTypes
<1>6. JitOwners'
  BY <1>2, <1>3, <1>4 DEF JitKept, JitOwners
<1>7. JitOwned'
  BY <1>3, <1>4 DEF JitKept, JitOwned
<1>8. J!LinesGoOn'
  <2>1. \A e \in DOMAIN jits : jits[e].loops \in Nat  BY DEF JitKept, JitTypes
  <2>2. timers \cup tasklets = {e \in DOMAIN jits : jits[e].loops > 0}
    BY DEF JitKept, J!LinesGoOn
  <2>3. {e \in DOMAIN jits' : jits'[e].loops > 0} =
          {e \in DOMAIN jits : jits[e].loops > 0} \ (IF jits[d].loops > 1 THEN {} ELSE {d})
    BY <1>2, <1>4, <2>1
  <2> QED BY <1>1, <2>2, <2>3 DEF J!LinesGoOn
<1>9. J!SleepersWoken'
  <2> SUFFICES ASSUME NEW q \in Writers, pc'[q] = "asleep", q \in queued'
               PROVE  jits'[mine'[q]].loops > 0
    BY DEF J!SleepersWoken, J!Sleeps
  <2>1. /\ pc[q] = "asleep" /\ q \in queued /\ mine'[q] = mine[q]
        /\ mine[q] = d => jits[d].loops # 1
    BY <1>3
  <2>2. mine[q] \in DOMAIN jits /\ jits[mine[q]].loops > 0
    BY <2>1 DEF JitKept, JitOwners, J!SleepersWoken, J!Sleeps
  <2>3. CASE mine[q] = d  BY <1>2, <1>4, <2>1, <2>3
  <2>4. CASE mine[q] # d  BY <1>4, <2>1, <2>2, <2>4
  <2> QED BY <2>3, <2>4
<1> QED BY <1>1, <1>5, <1>6, <1>7, <1>8, <1>9 DEF JitKept

\* A read ends.
LEMMA FinishKeeps ==
  ASSUME JitKept, NEW r \in Writers, J!Finish(r)
  PROVE  JitKept'
<1>1. /\ pc[r] \in {"go", "signalled"}
      /\ mine' = [mine EXCEPT ![r] = 0] /\ pc' = [pc EXCEPT ![r] = "idle"]
      /\ UNCHANGED <<phase, queued, timers, tasklets>>
  BY DEF J!Finish, J!Goto
<1>2. /\ pc'[r] = "idle"
      /\ \A q \in Writers : q # r => mine'[q] = mine[q] /\ pc'[q] = pc[q]
  BY <1>1 DEF JitKept, JitTypes, WaitTypes
<1>3. WaitTypes' /\ DOMAIN mine' = Writers
  BY <1>1 DEF JitKept, JitTypes, WaitTypes
<1>4. mine[r] \in DOMAIN jits /\ \A q \in Writers : q # r /\ pc[q] # "idle" => mine[q] # mine[r]
  BY <1>1 DEF JitKept, JitOwners
<1>5. CASE signalled' = TRUE /\ jits' = jits
  BY <1>1, <1>2, <1>3, <1>5
     DEF JitKept, JitTypes, JitOwners, JitOwned, J!LinesGoOn, J!SleepersWoken, J!Sleeps
<1>6. CASE ~(signalled' = TRUE /\ jits' = jits)
  <2>1. /\ pc[r] = "go" /\ signalled' = signalled
        /\ jits' = [e \in DOMAIN jits \ {mine[r]} |-> jits[e]]
    BY <1>6 DEF J!Finish
  <2>2. /\ DOMAIN jits' = DOMAIN jits \ {mine[r]}
        /\ \A e \in DOMAIN jits' : jits'[e] = jits[e]
    BY <2>1
  <2>3. JitTypes'
    <3>1. jits' \in [DOMAIN jits' -> [reader : Writers, loops : Nat]]
      BY <2>2, <2>1 DEF JitKept, JitTypes
    <3> QED BY <1>3, <3>1 DEF JitTypes
  <2>4. JitOwners'
    <3> SUFFICES ASSUME NEW q \in Writers, pc'[q] # "idle"
                 PROVE  /\ mine'[q] \in DOMAIN jits'
                        /\ \A p \in Writers : pc'[p] # "idle" /\ mine'[p] = mine'[q] => p = q
                        /\ pc'[q] = "go" => jits'[mine'[q]].loops = 0
      BY DEF JitOwners
    <3>1. q # r /\ mine'[q] = mine[q] /\ pc'[q] = pc[q] /\ mine[q] # mine[r]
      BY <1>2, <1>4
    <3>2. mine[q] \in DOMAIN jits'  BY <2>2, <3>1 DEF JitKept, JitOwners
    <3> QED BY <1>2, <2>2, <3>1, <3>2 DEF JitKept, JitOwners
  <2>5. JitOwned'
    <3> SUFFICES ASSUME ~signalled, NEW d \in DOMAIN jits'
                 PROVE  \E q \in Writers : pc'[q] # "idle" /\ mine'[q] = d
      BY <1>1, <1>2, <2>1 DEF JitKept, JitOwned
    <3>1. PICK q \in Writers : pc[q] # "idle" /\ mine[q] = d
      BY <2>2 DEF JitKept, JitOwned
    <3>2. q # r  BY <2>2, <3>1
    <3> QED BY <1>2, <3>1, <3>2
  <2>6. J!LinesGoOn'
    <3>1. jits[mine[r]].loops = 0  BY <1>1, <2>1 DEF JitKept, JitOwners
    <3>2. {d \in DOMAIN jits' : jits'[d].loops > 0} = {d \in DOMAIN jits : jits[d].loops > 0}
      BY <2>2, <3>1
    <3> QED BY <1>1, <3>2 DEF JitKept, J!LinesGoOn
  <2>7. J!SleepersWoken'
    <3> SUFFICES ASSUME NEW q \in Writers, pc'[q] = "asleep", q \in queued'
                 PROVE  jits'[mine'[q]].loops > 0
      BY DEF J!SleepersWoken, J!Sleeps
    <3>1. q # r /\ pc[q] = "asleep" /\ q \in queued /\ mine'[q] = mine[q]
      BY <1>1, <1>2
    <3>2. mine[q] \in DOMAIN jits'  BY <1>4, <2>2, <3>1 DEF JitKept, JitOwners
    <3> QED BY <2>2, <3>1, <3>2 DEF JitKept, J!SleepersWoken, J!Sleeps
  <2> QED BY <1>1, <2>3, <2>4, <2>5, <2>6, <2>7 DEF JitKept
<1> QED BY <1>5, <1>6

\* Every step of jit.
LEMMA JitStep == JitKept /\ J!Next => JitKept'
<1> SUFFICES ASSUME JitKept, J!Next PROVE JitKept'
  OBVIOUS
<1>1. CASE J!jit_init \/ J!jit_cleanup
  BY <1>1 DEF J!jit_init, J!jit_cleanup, J!waits, J!jitdata, J!Idle, JitKept, JitTypes,
              WaitTypes, JitOwners, JitOwned, J!LinesGoOn, J!SleepersWoken, J!Sleeps
<1>2. ASSUME NEW r \in Writers, J!jit_timer(r) \/ J!jit_tasklet(r) PROVE JitKept'
  BY <1>2, AllocateKeeps DEF J!jit_timer, J!jit_tasklet
<1>3. ASSUME NEW r \in Writers, J!Wait(r) PROVE JitKept'
  <2>1. UNCHANGED <<phase, jits, mine, timers, tasklets, signalled>>
    BY <1>3 DEF J!Wait, J!jitdata
  <2>2. PICK step \in WaitSteps :
          /\ pc' = [pc EXCEPT ![r] = step]
          /\ step = "go" => jits[mine[r]].loops = 0
          /\ step = "asleep" => jits[mine[r]].loops # 0
    BY <1>3 DEF J!Wait, J!wait_event_interruptible, J!WaitTest, J!WaitPrepare,
                J!WaitRetest, J!WaitWoken, J!Goto, WaitSteps
  <2>3. pc[r] # "idle" /\ queued' \subseteq queued \cup {r}
    BY <1>3 DEF J!Wait, J!wait_event_interruptible, J!WaitTest, J!WaitPrepare,
                J!WaitRetest, J!WaitWoken
  <2>4. pc'[r] = step /\ step # "idle" /\ \A q \in Writers : q # r => pc'[q] = pc[q]
    BY <2>2 DEF JitKept, JitTypes, WaitTypes, WaitSteps
  <2>5. JitTypes'  BY <2>1, <2>2 DEF JitKept, JitTypes, WaitTypes
  <2>6. JitOwners'  BY <2>1, <2>2, <2>3, <2>4 DEF JitKept, JitOwners
  <2>7. JitOwned'  BY <2>1, <2>3, <2>4 DEF JitKept, JitOwned
  <2>8. J!LinesGoOn' /\ (timers \cap tasklets = {})'
    BY <2>1 DEF JitKept, J!LinesGoOn
  <2>9. J!SleepersWoken'
    <3>1. mine[r] \in DOMAIN jits /\ jits[mine[r]].loops \in Nat
      BY <2>3 DEF JitKept, JitOwners, JitTypes
    <3>2. step = "asleep" => jits[mine[r]].loops > 0  BY <2>2, <3>1
    <3> QED BY <2>1, <2>3, <2>4, <3>2 DEF JitKept, J!SleepersWoken, J!Sleeps
  <2> QED BY <2>5, <2>6, <2>7, <2>8, <2>9 DEF JitKept
<1>4. ASSUME NEW r \in Writers, J!Finish(r) PROVE JitKept'
  BY <1>4, FinishKeeps
<1>5. ASSUME NEW d, J!jit_timer_fn(d) \/ J!jit_tasklet_fn(d) PROVE JitKept'
  BY <1>5, LineKeeps
<1> QED BY <1>1, <1>2, <1>3, <1>4, <1>5 DEF J!Next

\* Nobody is in a read of a module that is unloaded.
LEMMA JitLeavesNothing == JitKept => J!NothingLeft
<1> SUFFICES ASSUME JitKept, phase = "unloaded", ~signalled
             PROVE  DOMAIN jits = {} /\ timers \cup tasklets = {}
  BY DEF J!NothingLeft
<1>1. DOMAIN jits = {}  BY DEF JitKept, JitOwned
<1> QED BY <1>1 DEF JitKept, J!LinesGoOn

-----------------------------------------------------------------------------
(***************************************************************************)
(* jiq: what is pending, and for whom.                                     *)
(***************************************************************************)
JiqTypes ==
  /\ phase \in {"unloaded", "live"}
  /\ pc \in [Writers -> {"idle", "prepare", "start", "sleep_on", "asleep"}]
  /\ file \in [Writers -> {"none", "jiqwq", "jiqtasklet", "jitimer"}]
  /\ jiq_data = [len |-> jiq_data.len, buf |-> jiq_data.buf]
  /\ jiq_work \in BOOLEAN /\ running \in BOOLEAN /\ jiq_tasklet \in BOOLEAN
  /\ jiq_timer \in BOOLEAN

Buf == jiq_data.buf

\* Work or a tasklet is pending.
Pending == jiq_work \/ running \/ jiq_tasklet

JiqReaders ==
  /\ phase = "unloaded" => \A r \in Writers : pc[r] = "idle"
  /\ Buf \in Writers \/ (~Pending /\ ~jiq_timer /\ \A r \in Writers : pc[r] = "idle")
  /\ \A r \in Writers : pc[r] = "sleep_on" => file[r] # "jiqwq"
  /\ queued \subseteq Writers /\ Q!SleepersWoken

\* While reads did not overlap jiq_data is that of the only one in its call, and what is
\* pending was started by it, unless a signal ended one before.
JiqAlone ==
  ~shared =>
    /\ \A r \in Writers : pc[r] # "idle" => r = Buf
    /\ jiq_timer => pc[Buf] \in {"sleep_on", "asleep"} /\ file[Buf] = "jitimer"
    /\ ~signalled =>
         /\ ~stray
         /\ jiq_work \/ running => pc[Buf] = "asleep" /\ file[Buf] = "jiqwq"
         /\ jiq_tasklet => pc[Buf] \in {"sleep_on", "asleep"} /\ file[Buf] = "jiqtasklet"
         /\ \A r \in Writers : pc[r] = "start" /\ file[r] = "jiqwq" => r \in queued
         /\ \A r \in Writers : pc[r] = "asleep" /\ r \notin queued => ~Pending

JiqKept == JiqTypes /\ JiqReaders /\ JiqAlone

\* Nobody reads.
LEMMA JiqKeptInit == Q!PrintInit /\ J!WaitInit => JiqKept
BY DEF Q!PrintInit, J!WaitInit, Q!Nobody, JiqKept, JiqTypes, JiqReaders, JiqAlone, Pending,
       Buf, Q!SleepersWoken

\* jiq_print
LEMMA PrintsOn ==
  ASSUME JiqTypes, Q!jiq_print
  PROVE  /\ Buf' = Buf /\ jiq_data' = [len |-> jiq_data'.len, buf |-> jiq_data'.buf]
         /\ Q!Full => queued' = {} /\ stray' = stray
         /\ ~Q!Full => queued' = queued /\ stray' = (stray \/ pc[Buf] = "idle")
<1>1. CASE Q!Full
  BY <1>1 DEF Q!jiq_print, Buf, JiqTypes
<1>2. CASE ~Q!Full
  <2>1. /\ jiq_data' = [jiq_data EXCEPT !.len = jiq_data.len + 1] /\ queued' = queued
        /\ stray' = (stray \/ pc[Buf] = "idle")
    BY <1>2 DEF Q!jiq_print, Q!PutLine, Buf
  <2>2. jiq_data = [len |-> jiq_data.len, buf |-> Buf]  BY DEF JiqTypes, Buf
  <2>3. jiq_data' = [len |-> jiq_data.len + 1, buf |-> Buf]  BY <2>1, <2>2
  <2> QED BY <1>2, <2>1, <2>3 DEF Buf
<1> QED BY <1>1, <1>2

\* Every step of jiq.
LEMMA JiqStep == JiqKept /\ Q!Next => JiqKept'
<1> SUFFICES ASSUME JiqKept, Q!Next PROVE JiqKept'
  OBVIOUS
<1>a. JiqTypes /\ JiqReaders /\ JiqAlone  BY DEF JiqKept
<1> USE DEF Q!Goto
<1>1. CASE Q!jiq_init \/ Q!jiq_cleanup
  BY <1>1 DEF Q!jiq_init, Q!jiq_cleanup, Q!Idle, Q!waits, Q!async, Q!ghosts, JiqKept,
     JiqTypes, JiqReaders, JiqAlone, Pending, Buf, Q!SleepersWoken
<1>2. CASE Q!jiq_print_wq
  <2>1. /\ phase = "live" /\ jiq_work /\ jiq_work' = FALSE /\ running' = ~Q!Full
        /\ UNCHANGED <<phase, pc, file, jiq_tasklet, jiq_timer, shared, signalled>>
        /\ Q!jiq_print
    BY <1>2 DEF Q!jiq_print_wq, Q!Live
  <2>2. /\ Buf' = Buf /\ jiq_data' = [len |-> jiq_data'.len, buf |-> jiq_data'.buf]
        /\ Q!Full => queued' = {} /\ stray' = stray
        /\ ~Q!Full => queued' = queued /\ stray' = (stray \/ pc[Buf] = "idle")
    BY <1>a, <2>1, PrintsOn
  <2>3. JiqTypes'  BY <1>a, <2>1, <2>2 DEF JiqTypes
  <2>4. JiqReaders'
    BY <1>a, <2>1, <2>2 DEF JiqReaders, Pending, Q!SleepersWoken
  <2>5. JiqAlone'
    BY <1>a, <2>1, <2>2 DEF JiqAlone, Pending
  <2> QED BY <2>3, <2>4, <2>5 DEF JiqKept
<1>3. CASE Q!Requeue
  BY <1>3 DEF Q!Requeue, Q!Live, Q!waits, Q!ghosts, JiqKept, JiqTypes, JiqReaders, JiqAlone,
     Pending, Buf, Q!SleepersWoken
<1>4. CASE Q!jiq_print_tasklet
  <2>1. /\ phase = "live" /\ jiq_tasklet /\ jiq_tasklet' = ~Q!Full
        /\ UNCHANGED <<phase, pc, file, jiq_work, running, jiq_timer, shared, signalled>>
        /\ Q!jiq_print
    BY <1>4 DEF Q!jiq_print_tasklet, Q!Live
  <2>2. /\ Buf' = Buf /\ jiq_data' = [len |-> jiq_data'.len, buf |-> jiq_data'.buf]
        /\ Q!Full => queued' = {} /\ stray' = stray
        /\ ~Q!Full => queued' = queued /\ stray' = (stray \/ pc[Buf] = "idle")
    BY <1>a, <2>1, PrintsOn
  <2>3. JiqTypes'  BY <1>a, <2>1, <2>2 DEF JiqTypes
  <2>4. JiqReaders'
    BY <1>a, <2>1, <2>2 DEF JiqReaders, Pending, Q!SleepersWoken
  <2>5. JiqAlone'
    BY <1>a, <2>1, <2>2 DEF JiqAlone, Pending
  <2> QED BY <2>3, <2>4, <2>5 DEF JiqKept
<1>5. CASE Q!jiq_timedout
  <2>1. /\ phase = "live" /\ jiq_timer /\ jiq_timer' = FALSE /\ queued' = {}
        /\ stray' = (stray \/ (~Q!Full /\ pc[Buf] = "idle"))
        /\ UNCHANGED <<phase, pc, file, jiq_work, running, jiq_tasklet, shared, signalled>>
    BY <1>5 DEF Q!jiq_timedout, Q!Live, Buf
  <2>2. Buf' = Buf /\ jiq_data' = [len |-> jiq_data'.len, buf |-> jiq_data'.buf]
    <3>1. PICK len : jiq_data' = [jiq_data EXCEPT !.len = len]
      BY <1>5 DEF Q!jiq_timedout
    <3>2. jiq_data = [len |-> jiq_data.len, buf |-> Buf]  BY <1>a DEF JiqTypes, Buf
    <3>3. jiq_data' = [len |-> len, buf |-> Buf]  BY <3>1, <3>2
    <3> QED BY <3>3 DEF Buf
  <2>3. JiqTypes'  BY <1>a, <2>1, <2>2 DEF JiqTypes
  <2>4. JiqReaders'
    BY <1>a, <2>1, <2>2 DEF JiqReaders, Pending, Q!SleepersWoken
  <2>5. JiqAlone'
    BY <1>a, <2>1, <2>2 DEF JiqAlone, Pending
  <2> QED BY <2>3, <2>4, <2>5 DEF JiqKept
<1>6. ASSUME NEW r \in Writers, NEW f \in {"jiqwq", "jiqtasklet", "jitimer"}, Q!Fill(r, f)
      PROVE  JiqKept'
  <2>1. /\ phase = "live" /\ pc[r] = "idle"
        /\ jiq_data' = [len |-> 0, buf |-> r] /\ file' = [file EXCEPT ![r] = f]
        /\ shared' = (shared \/ ~Q!Idle)
        /\ pc' = [pc EXCEPT ![r] = IF f = "jiqwq" THEN "prepare" ELSE "start"]
        /\ UNCHANGED <<phase, queued, jiq_work, running, jiq_tasklet, jiq_timer, signalled, stray>>
    BY <1>6 DEF Q!Fill, Q!Live, Q!async
  <2>2. JiqTypes'  BY <1>a, <2>1 DEF JiqTypes
  <2>3. Buf' = r  BY <2>1 DEF Buf
  <2>4. JiqReaders'
    BY <1>a, <2>1, <2>3 DEF JiqTypes, JiqReaders, Pending, Q!SleepersWoken
  <2>5. JiqAlone'
    <3> SUFFICES ASSUME ~shared, \A q \in Writers : pc[q] = "idle" PROVE JiqAlone'
      BY <2>1 DEF JiqAlone, Q!Idle
    <3>1. ~jiq_timer /\ (~signalled => ~Pending)
      BY <1>a DEF JiqAlone, JiqReaders, Pending
    <3> QED BY <1>a, <2>1, <2>3, <3>1 DEF JiqTypes, JiqAlone, Pending
  <2> QED BY <2>2, <2>4, <2>5 DEF JiqKept
<1>7. ASSUME NEW r \in Writers, Q!PrepareToWait(r) \/ Q!SleepOn(r) PROVE JiqKept'
  <2>1. PICK next \in {"start", "asleep"} :
          /\ phase = "live" /\ pc[r] = (IF next = "start" THEN "prepare" ELSE "sleep_on")
          /\ queued' = queued \cup {r} /\ pc' = [pc EXCEPT ![r] = next]
          /\ UNCHANGED <<phase, file, jiq_data, jiq_work, running, jiq_tasklet, jiq_timer,
                         shared, signalled, stray>>
    BY <1>7 DEF Q!PrepareToWait, Q!SleepOn, Q!OnQueue, Q!Live, Q!async, Q!ghosts
  <2>2. JiqTypes' /\ Buf' = Buf  BY <1>a, <2>1 DEF JiqTypes, Buf
  <2>3. JiqReaders'
    BY <1>a, <2>1, <2>2 DEF JiqTypes, JiqReaders, Pending, Q!SleepersWoken
  <2>4. JiqAlone'
    BY <1>a, <2>1, <2>2 DEF JiqTypes, JiqAlone, Pending
  <2> QED BY <2>2, <2>3, <2>4 DEF JiqKept
<1>8. ASSUME NEW r \in Writers, Q!ScheduleWork(r) PROVE JiqKept'
  <2>1. /\ phase = "live" /\ pc[r] = "start" /\ file[r] = "jiqwq"
        /\ jiq_work' = TRUE /\ pc' = [pc EXCEPT ![r] = "asleep"]
        /\ UNCHANGED <<phase, queued, file, jiq_data, running, jiq_tasklet, jiq_timer,
                       shared, signalled, stray>>
    BY <1>8 DEF Q!ScheduleWork, Q!Live, Q!ghosts
  <2>2. JiqTypes' /\ Buf' = Buf  BY <1>a, <2>1 DEF JiqTypes, Buf
  <2>3. JiqReaders'
    BY <1>a, <2>1, <2>2 DEF JiqTypes, JiqReaders, Pending, Q!SleepersWoken
  <2>4. JiqAlone'
    BY <1>a, <2>1, <2>2 DEF JiqTypes, JiqAlone, Pending
  <2> QED BY <2>2, <2>3, <2>4 DEF JiqKept
<1>9. ASSUME NEW r \in Writers, Q!ScheduleTasklet(r) PROVE JiqKept'
  <2>1. /\ phase = "live" /\ pc[r] = "start" /\ file[r] = "jiqtasklet"
        /\ jiq_tasklet' = TRUE /\ pc' = [pc EXCEPT ![r] = "sleep_on"]
        /\ UNCHANGED <<phase, queued, file, jiq_data, jiq_work, running, jiq_timer,
                       shared, signalled, stray>>
    BY <1>9 DEF Q!ScheduleTasklet, Q!Live, Q!ghosts
  <2>2. JiqTypes' /\ Buf' = Buf  BY <1>a, <2>1 DEF JiqTypes, Buf
  <2>3. JiqReaders'
    BY <1>a, <2>1, <2>2 DEF JiqTypes, JiqReaders, Pending, Q!SleepersWoken
  <2>4. JiqAlone'
    BY <1>a, <2>1, <2>2 DEF JiqTypes, JiqAlone, Pending
  <2> QED BY <2>2, <2>3, <2>4 DEF JiqKept
<1>10. ASSUME NEW r \in Writers, Q!AddTimer(r) PROVE JiqKept'
  <2>1. /\ phase = "live" /\ pc[r] = "start" /\ file[r] = "jitimer"
        /\ jiq_timer' = TRUE /\ pc' = [pc EXCEPT ![r] = "sleep_on"] /\ Q!jiq_print
        /\ UNCHANGED <<phase, file, jiq_work, running, jiq_tasklet, shared, signalled>>
    BY <1>10 DEF Q!AddTimer, Q!Live
  <2>2. /\ Buf' = Buf /\ jiq_data' = [len |-> jiq_data'.len, buf |-> jiq_data'.buf]
        /\ Q!Full => queued' = {} /\ stray' = stray
        /\ ~Q!Full => queued' = queued /\ stray' = (stray \/ pc[Buf] = "idle")
    BY <1>a, <2>1, PrintsOn
  <2>3. JiqTypes'  BY <1>a, <2>1, <2>2 DEF JiqTypes
  <2>4. JiqReaders'
    BY <1>a, <2>1, <2>2 DEF JiqTypes, JiqReaders, Pending, Q!SleepersWoken
  <2>5. JiqAlone'
    BY <1>a, <2>1, <2>2 DEF JiqTypes, JiqAlone, Pending
  <2> QED BY <2>3, <2>4, <2>5 DEF JiqKept
<1>11. ASSUME NEW r \in Writers, Q!Return(r) PROVE JiqKept'
  <2>1. /\ phase = "live" /\ pc[r] = "asleep"
        /\ queued' = queued \ {r} /\ pc' = [pc EXCEPT ![r] = "idle"]
        /\ signalled' = (signalled \/ (r \in queued /\ file[r] # "jitimer"))
        /\ jiq_timer' = (jiq_timer /\ file[r] # "jitimer")
        /\ UNCHANGED <<phase, file, jiq_data, jiq_work, running, jiq_tasklet, shared, stray>>
    BY <1>11 DEF Q!Return, Q!Live
  <2>2. JiqTypes' /\ Buf' = Buf  BY <1>a, <2>1 DEF JiqTypes, Buf
  <2>3. JiqReaders'
    BY <1>a, <2>1, <2>2 DEF JiqTypes, JiqReaders, Pending, Q!SleepersWoken
  <2>4. JiqAlone'
    BY <1>a, <2>1, <2>2 DEF JiqTypes, JiqAlone, Pending
  <2> QED BY <2>2, <2>3, <2>4 DEF JiqKept
<1> QED BY <1>1, <1>2, <1>3, <1>4, <1>5, <1>6, <1>7, <1>8, <1>9, <1>10, <1>11
    DEF Q!Next, Q!jiq_read_wq, Q!jiq_read_tasklet, Q!jiq_read_run_timer

\* What that says of who sleeps, of the lines and of what stays behind.
LEMMA JiqHolds == JiqKept => Q!SleepersWoken /\ Q!LinesHome /\ Q!NothingLeft
<1> SUFFICES ASSUME JiqKept PROVE Q!SleepersWoken /\ Q!LinesHome /\ Q!NothingLeft
  OBVIOUS
<1>1. Q!SleepersWoken  BY DEF JiqKept, JiqReaders
<1>2. Q!LinesHome  BY DEF JiqKept, JiqAlone, Q!LinesHome
<1>3. Q!NothingLeft
  BY DEF JiqKept, JiqTypes, JiqReaders, JiqAlone, Pending, Q!NothingLeft
<1> QED BY <1>1, <1>2, <1>3

-----------------------------------------------------------------------------
(***************************************************************************)
(* sleepy: the flag is set before the queue is woken.                      *)
(***************************************************************************)
SleepyKept == WaitTypes /\ F!SleepersWoken

\* Nobody reads.
LEMMA SleepyInit == F!FlagInit /\ J!WaitInit => SleepyKept
BY DEF F!FlagInit, J!WaitInit, SleepyKept, WaitTypes, F!SleepersWoken

\* Every step of sleepy.
LEMMA SleepyStep == SleepyKept /\ F!Next => SleepyKept'
<1> SUFFICES ASSUME SleepyKept, F!Next PROVE SleepyKept'
  OBVIOUS
<1> USE DEF SleepyKept, WaitTypes, WaitSteps, F!SleepersWoken, F!Sleeps
<1>1. CASE F!sleepy_init \/ F!sleepy_cleanup
  BY <1>1 DEF F!sleepy_init, F!sleepy_cleanup, F!waits
<1>2. CASE F!sleepy_write
  BY <1>2 DEF F!sleepy_write
<1>3. ASSUME NEW r \in Writers, F!sleepy_read(r) PROVE SleepyKept'
  <2>1. CASE F!wait_event_interruptible(r, flag) /\ UNCHANGED flag
    BY <1>3, <2>1 DEF F!sleepy_read, F!wait_event_interruptible, F!WaitTest, F!WaitPrepare,
       F!WaitRetest, F!WaitWoken, F!Goto
  <2>2. CASE ~(F!wait_event_interruptible(r, flag) /\ UNCHANGED flag)
    BY <1>3, <2>2 DEF F!sleepy_read, F!Goto
  <2> QED BY <2>1, <2>2
<1> QED BY <1>1, <1>2, <1>3 DEF F!Next

-----------------------------------------------------------------------------
(***************************************************************************)
(* All of them: each behaviour is of one driver.                           *)
(***************************************************************************)
ShortKept == ShortTypes /\ ShortLoaded /\ StampsKept /\ PageKept

PortsKept ==
  /\ driver \in {"short", "shortprint", "jit", "jiq", "sleepy"}
  /\ driver = "short" => ShortKept
  /\ driver = "shortprint" => PrintKept
  /\ driver = "jit" => JitKept
  /\ driver = "jiq" => JiqKept
  /\ driver = "sleepy" => SleepyKept

\* The start of each driver.
LEMMA PortsInit == Init => PortsKept
<1> SUFFICES ASSUME Init PROVE PortsKept
  OBVIOUS
<1>1. /\ driver \in {"short", "shortprint", "jit", "jiq", "sleepy"}
      /\ S!LinesInit /\ S!HalvesInit /\ P!OutputInit /\ P!WritersInit
      /\ J!JitInit /\ Q!PrintInit /\ F!FlagInit /\ phase = "unloaded"
  BY DEF Init
<1>2. driver = "short" => ShortKept
  BY <1>1, ShortLoadedInit, StampsInit, PageInit DEF Init, ShortKept
<1>3. driver = "shortprint" => PrintKept
  BY <1>1, PrintInit DEF Init
<1>4. driver \in {"jit", "jiq", "sleepy"} => J!WaitInit
  BY DEF Init
<1>5. driver = "jit" => JitKept  BY <1>1, <1>4, JitKeptInit
<1>6. driver = "jiq" => JiqKept  BY <1>1, <1>4, JiqKeptInit
<1>7. driver = "sleepy" => SleepyKept  BY <1>1, <1>4, SleepyInit
<1> QED BY <1>1, <1>2, <1>3, <1>5, <1>6, <1>7 DEF PortsKept

\* The invariants speak of variables only.
LEMMA PortsStutter == PortsKept /\ UNCHANGED vars => PortsKept'
<1> SUFFICES ASSUME PortsKept, UNCHANGED vars PROVE PortsKept'
  OBVIOUS
<1> USE DEF vars, rings, shorts, prints, jit, jiq, sleepy, misc
<1>1. ShortKept => ShortKept'
  <2>1. (ShortTypes /\ ShortLoaded)' = (ShortTypes /\ ShortLoaded)
    BY DEF ShortTypes, ShortLoaded
  <2>2. StampsKept => StampsKept'  BY DEF StampsKept, TvTypes, Stamped, Ahead, Entry
  <2>3. PageTypes /\ ReaderTypes => PageTypes' /\ ReaderTypes'  BY DEF PageTypes, ReaderTypes
  <2>4. PageHolds => PageHolds'  BY DEF PageHolds, Held, At
  <2>5. CopiesOldest => CopiesOldest'  BY DEF CopiesOldest, S!Copying, S!Readable
  <2>6. S!SleepersWoken => S!SleepersWoken'  BY DEF S!SleepersWoken, S!ReadersWoken
  <2>7. torn' = torn  OBVIOUS
  <2> QED BY <2>1, <2>2, <2>3, <2>4, <2>5, <2>6, <2>7 DEF ShortKept, PageKept
<1>2. PrintKept => PrintKept'
  <2>1. PrintTypes /\ ControlTypes /\ PrintCalls /\ queued = {}
        => PrintTypes' /\ ControlTypes' /\ PrintCalls' /\ queued' = {}
    BY DEF PrintTypes, ControlTypes, PrintCalls, P!shortp_out_space
  <2>2. OutHolds => OutHolds'  BY DEF OutHolds, OutHeld, OutAt
  <2>3. OutGoing => OutGoing'  BY DEF OutGoing
  <2>4. OutWoken => OutWoken'  BY DEF OutWoken, OutHeld
  <2> QED BY <2>1, <2>2, <2>3, <2>4 DEF PrintKept
<1>3. JitKept => JitKept'
  BY DEF JitKept, JitTypes, WaitTypes, JitOwners, JitOwned, J!LinesGoOn, J!SleepersWoken,
         J!Sleeps
<1>4. JiqKept => JiqKept'
  BY DEF JiqKept, JiqTypes, JiqReaders, JiqAlone, Pending, Buf, Q!SleepersWoken
<1>5. SleepyKept => SleepyKept'
  BY DEF SleepyKept, WaitTypes, F!SleepersWoken, F!Sleeps
<1> QED BY <1>1, <1>2, <1>3, <1>4, <1>5 DEF PortsKept

\* Every step is one of the driver whose behaviour it is.
LEMMA PortsStep == PortsKept /\ [Next]_vars => PortsKept'
<1> SUFFICES ASSUME PortsKept, [Next]_vars PROVE PortsKept'
  OBVIOUS
<1>1. CASE StepShort
  <2>1. driver = "short" /\ driver' = driver /\ S!Next /\ ShortKept
    BY <1>1 DEF StepShort, PortsKept
  <2>2. ShortKept'
    BY <2>1, ShortLoadedStep, StampsStep, PageStep DEF ShortKept, StampsKept
  <2> QED BY <2>1, <2>2 DEF PortsKept
<1>2. CASE StepShortPrint
  BY <1>2, PrintStep DEF StepShortPrint, PortsKept
<1>3. CASE StepJit
  BY <1>3, JitStep DEF StepJit, PortsKept
<1>4. CASE StepJiq
  BY <1>4, JiqStep DEF StepJiq, PortsKept
<1>5. CASE StepSleepy
  BY <1>5, SleepyStep DEF StepSleepy, PortsKept
<1>6. CASE UNCHANGED vars
  BY <1>6, PortsStutter
<1> QED BY <1>1, <1>2, <1>3, <1>4, <1>5, <1>6 DEF Next

\* The invariant of all of them.
LEMMA PortsKeep == Spec => []PortsKept
BY PortsInit, PortsStep, PTL DEF Spec

\* Readers of the stamps, writers and closers of the printer, readers of sleepy, of jit
\* and of jiqwq that sleep have what they wait for still to come, and someone to wake them
\* then, however many they are.  Readers of jiqtasklet and jitimer are not among them:
\* they start what wakes them before they are on the queue (jiq.c:189-190, 226-227).
THEOREM NobodySleepsOn == Spec => []SleepersWoken
<1>1. PortsKept => SleepersWoken
  BY WritersAwake, JiqHolds
     DEF PortsKept, SleepersWoken, ShortKept, PageKept, JitKept, SleepyKept
<1> QED BY <1>1, PortsKeep, PTL

\* Bytes leave a ring of any size in the order they entered it, wherever a read stops,
\* though its two ends move without a lock between them.  Of the page of stamps nothing
\* is said once two reads copied at once or an overrun came during a copy (`torn`).
THEOREM RingsInOrder == Spec => []DataInOrder
<1>1. PortsKept => DataInOrder
  BY PageInOrder, PrintedInOrder, JiqHolds DEF PortsKept, DataInOrder, ShortKept
<1> QED BY <1>1, PortsKeep, PTL

\* A stamp, a byte and a jit_data that was taken in has a bottom half, an active output,
\* a timer or a tasklet to go on with, for any number of interrupts.
THEOREM NothingStalls == Spec => []WorkGoesOn
<1>1. PortsKept => WorkGoesOn
  <2>1. PrintKept => P!OutputGoing  BY GoingOn DEF PrintKept
  <2> QED BY <2>1, StampsComing DEF PortsKept, WorkGoesOn, ShortKept, JitKept
<1> QED BY <1>1, PortsKeep, PTL

\* A module that is not loaded has left no handler on a line, and jit and jiq no timer,
\* tasklet or work but where a signal or overlapping reads came before.
THEOREM UnloadLeavesNothing == Spec => []NothingInstalled
<1>1. PortsKept => NothingInstalled
  <2>1. ShortKept => S!NothingInstalled  BY DEF ShortKept, ShortLoaded, S!NothingInstalled
  <2> QED BY <2>1, JitLeavesNothing, JiqHolds DEF PortsKept, NothingInstalled
<1> QED BY <1>1, PortsKeep, PTL

=============================================================================

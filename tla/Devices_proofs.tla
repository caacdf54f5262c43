--------------------------- MODULE Devices_proofs ----------------------------
(***************************************************************************)
(* Proofs about the small drivers and programs that MCDevices runs, for    *)
(* any files and whatever else the constants are: who may use what when,   *)
(* that data comes out as it went in, and that the list is a sequence.     *)
(***************************************************************************)
EXTENDS MCDevices, SequenceTheorems, Sums

USE FilesAssumption

\* What putting a member in or taking it out does to the size of a set of files.
LEMMA CountMoves ==
  ASSUME NEW A, A \subseteq Files, NEW f \in Files
  PROVE  /\ Cardinality(A) \in Nat /\ (Cardinality(A) = 0 <=> A = {})
         /\ f \notin A => Cardinality(A \cup {f}) = Cardinality(A) + 1
         /\ f \in A => Cardinality(A \ {f}) = Cardinality(A) - 1
<1>1. IsFiniteSet(A)  BY FS_Subset
<1> QED BY <1>1, FS_CardinalityType, FS_EmptySet, FS_AddElement, FS_RemoveElement

-----------------------------------------------------------------------------
(***************************************************************************)
(* usb-skeleton: the object lives as long as somebody holds it.            *)
(***************************************************************************)
UsbTypes ==
  /\ kref \in Int /\ dev \in {"none", "there"}
  /\ probing \in {"idle", "init", "set"} /\ bye \in {"idle", "locked", "put"}
  /\ fpc \in [Files -> {"closed", "found", "open", "copy", "submit"}]

UsbFlags == intfdata \in BOOLEAN /\ minor \in BOOLEAN

\* Probe and disconnect exclude each other, and who has found the interface keeps
\* the kernel lock, so that disconnect does not take its reference away.
UsbBus ==
  /\ probing # "idle" => bye = "idle" /\ ~minor
  /\ probing = "set" => intfdata
  /\ minor => intfdata
  /\ bye = "locked" => intfdata /\ bkl = "usbcore"
  /\ bye = "put" => ~intfdata
  /\ \A f \in Files : fpc[f] = "found" => bkl = f /\ minor

\* The reference of the bus.
Bound == intfdata \/ probing # "idle" \/ bye = "put"
BusRef == IF Bound THEN 1 ELSE 0

UsbCount == /\ kref = Cardinality(U!Holders) + BusRef
            /\ dev = "none" <=> kref = 0

UsbInv ==
  /\ fault # "freed"
  /\ fault = "none" => UsbTypes /\ UsbFlags /\ UsbBus /\ UsbCount

\* Before the first device is plugged in.
LEMMA UsbInit == U!Init => UsbInv
<1> SUFFICES ASSUME U!Init PROVE UsbInv
  OBVIOUS
<1>1. U!Holders = {}  BY DEF U!Init, U!Holders
<1>2. Cardinality(U!Holders) = 0  BY <1>1, FS_EmptySet
<1>3. UsbTypes  BY DEF U!Init, UsbTypes
<1>4. UsbFlags  BY DEF U!Init, UsbFlags
<1>5. UsbBus  BY DEF U!Init, UsbBus, U!Nobody
<1>6. ~Bound  BY DEF U!Init, Bound
<1>7. fault # "freed" /\ dev = "none" /\ kref = 0  BY DEF U!Init
<1> QED BY <1>2, <1>3, <1>4, <1>5, <1>6, <1>7 DEF UsbInv, UsbCount, BusRef

\* The object is there for whoever has it open, and for the bus.
LEMMA UsbThere ==
  ASSUME UsbTypes, UsbCount
  PROVE  /\ Cardinality(U!Holders) \in Nat /\ BusRef \in {0, 1}
         /\ \A f \in U!Holders : dev = "there"
         /\ Bound => dev = "there"
<1>1. U!Holders \subseteq Files  BY DEF U!Holders
<1>2. IsFiniteSet(U!Holders)  BY <1>1, FS_Subset
<1>3. Cardinality(U!Holders) \in Nat /\ (Cardinality(U!Holders) = 0 <=> U!Holders = {})
  BY <1>2, FS_CardinalityType, FS_EmptySet
<1>4. BusRef \in {0, 1} /\ (Bound => BusRef = 1)  BY DEF BusRef
<1> QED BY <1>3, <1>4 DEF UsbCount, UsbTypes

\* Every step of the bus, of a file or of a completed request keeps it.
LEMMA UsbStep == UsbInv /\ U!Next => UsbInv'
<1> SUFFICES ASSUME UsbInv, U!Next PROVE UsbInv'
  OBVIOUS
<1>a. UsbTypes /\ UsbFlags /\ UsbBus /\ UsbCount /\ fault = "none"  BY DEF UsbInv, U!Next
<1>b. /\ Cardinality(U!Holders) \in Nat /\ BusRef \in {0, 1}
      /\ \A f \in U!Holders : dev = "there"
      /\ Bound => dev = "there"
  BY <1>a, UsbThere
<1>c. ASSUME UNCHANGED fpc PROVE Cardinality(U!Holders)' = Cardinality(U!Holders)
  BY <1>c DEF U!Holders
<1>d. ASSUME UNCHANGED <<intfdata, probing, bye>> PROVE BusRef' = BusRef
  BY <1>d DEF BusRef, Bound
<1>1. CASE U!ProbeInit
  <2>1. dev = "none" /\ ~Bound /\ kref = 0 /\ Cardinality(U!Holders) = 0
    BY <1>1, <1>a, <1>b DEF U!ProbeInit, UsbCount
  <2>2. probing = "idle" /\ bye = "idle" /\ ~intfdata /\ ~minor
    BY <2>1, <1>1, <1>a DEF Bound, UsbBus, U!ProbeInit
  <2>3. UNCHANGED <<intfdata, minor, bye, bkl, fpc, fault>>  BY <1>1 DEF U!ProbeInit
  <2>4. CASE dev' = "there" /\ kref' = 1 /\ probing' = "init"
    <3>1. UsbTypes'  BY <2>3, <2>4, <1>a DEF UsbTypes
    <3>2. UsbFlags'  BY <2>3, <1>a DEF UsbFlags
    <3>3. UsbBus'  BY <2>2, <2>3, <2>4, <1>a DEF UsbBus
    <3>4. Bound'  BY <2>4 DEF Bound
    <3>5. UsbCount'  BY <2>1, <2>3, <2>4, <3>4, <1>c DEF UsbCount, BusRef
    <3> QED BY <3>1, <3>2, <3>3, <3>5, <2>3, <1>a DEF UsbInv
  <2>5. CASE UNCHANGED <<dev, kref, probing>>
    <3>1. UsbTypes' /\ UsbBus'  BY <2>3, <2>5, <1>a DEF UsbTypes, UsbBus
    <3>2. UsbFlags'  BY <2>3, <1>a DEF UsbFlags
    <3>3. UsbCount'  BY <2>3, <2>5, <1>a, <1>c, <1>d DEF UsbCount
    <3> QED BY <3>1, <3>2, <3>3, <2>3, <1>a DEF UsbInv
  <2> QED BY <1>1, <2>4, <2>5 DEF U!ProbeInit
<1>2. CASE U!ProbeSet
  <2>1. /\ probing = "init" /\ probing' = "set" /\ intfdata' = TRUE
        /\ UNCHANGED <<minor, bye, dev, kref, bkl, fpc, fault>>
    BY <1>2 DEF U!ProbeSet
  <2>2. UsbTypes'  BY <2>1, <1>a DEF UsbTypes
  <2>3. UsbFlags'  BY <2>1, <1>a DEF UsbFlags
  <2>4. UsbBus'  BY <2>1, <1>a DEF UsbBus
  <2>5. Bound /\ Bound'  BY <2>1 DEF Bound
  <2>6. UsbCount'  BY <2>1, <2>5, <1>a, <1>c DEF UsbCount, BusRef
  <2> QED BY <2>1, <2>2, <2>3, <2>4, <2>6, <1>a DEF UsbInv
<1>3. CASE U!ProbeRegister
  <2>1. /\ probing = "set" /\ probing' = "idle" /\ intfdata /\ bye = "idle" /\ ~minor
        /\ UNCHANGED <<bye, bkl, fpc>>
    BY <1>3, <1>a DEF U!ProbeRegister, UsbBus
  <2>2. Bound /\ dev = "there"  BY <2>1, <1>b DEF Bound
  <2>3. CASE minor' = TRUE /\ UNCHANGED <<intfdata, dev, kref, fault>>
    <3>1. UsbTypes'  BY <2>1, <2>3, <1>a DEF UsbTypes
    <3>2. UsbFlags'  BY <2>3, <1>a DEF UsbFlags
    <3>3. UsbBus'  BY <2>1, <2>3, <1>a DEF UsbBus
    <3>4. Bound'  BY <2>1, <2>3 DEF Bound
    <3>5. UsbCount'  BY <2>1, <2>2, <2>3, <3>4, <1>a, <1>c DEF UsbCount, BusRef
    <3> QED BY <3>1, <3>2, <3>3, <3>5, <2>3, <1>a DEF UsbInv
  <2>4. CASE intfdata' = FALSE /\ U!Put /\ UNCHANGED minor
    <3>1. fault' = fault /\ kref' = kref - 1 /\ dev' = IF kref' = 0 THEN "none" ELSE dev
      BY <2>2, <2>4 DEF U!Put, U!Use
    <3>2. UsbTypes'  BY <2>1, <3>1, <1>a DEF UsbTypes
    <3>3. UsbFlags'  BY <2>4, <1>a DEF UsbFlags
    <3>4. UsbBus'  BY <2>1, <2>4, <1>a DEF UsbBus
    <3>5. ~Bound'  BY <2>1, <2>4 DEF Bound
    <3>6. UsbCount'  BY <2>1, <2>2, <3>1, <3>5, <1>a, <1>b, <1>c DEF UsbCount, BusRef
    <3> QED BY <3>1, <3>2, <3>3, <3>4, <3>6, <1>a DEF UsbInv
  <2> QED BY <1>3, <2>3, <2>4 DEF U!ProbeRegister
<1>4. CASE U!Disconnect
  <2>1. /\ probing = "idle" /\ bye = "idle"
        /\ UNCHANGED <<intfdata, minor, probing, dev, kref, fpc, fault>>
    BY <1>4 DEF U!Disconnect
  <2>2. UsbFlags'  BY <2>1, <1>a DEF UsbFlags
  <2>3. CASE intfdata
    <3>1. bkl = "nobody" /\ bkl' = "usbcore" /\ bye' = "locked"
      BY <1>4, <2>3 DEF U!Disconnect, U!Nobody, U!Core
    <3>2. UsbTypes'  BY <2>1, <3>1, <1>a DEF UsbTypes
    <3>3. UsbBus'  BY <2>1, <2>3, <3>1, <1>a DEF UsbBus
    <3>4. Bound /\ Bound'  BY <2>1, <2>3 DEF Bound
    <3>5. UsbCount'  BY <2>1, <3>4, <1>a, <1>c DEF UsbCount, BusRef
    <3> QED BY <2>1, <2>2, <3>2, <3>3, <3>5, <1>a DEF UsbInv
  <2>4. CASE ~intfdata
    <3>1. UNCHANGED <<bkl, bye>>  BY <1>4, <2>4 DEF U!Disconnect
    <3>2. UsbTypes' /\ UsbBus'  BY <2>1, <3>1, <1>a DEF UsbTypes, UsbBus
    <3>3. UsbCount'  BY <2>1, <3>1, <1>a, <1>c, <1>d DEF UsbCount
    <3> QED BY <2>1, <2>2, <3>2, <3>3, <1>a DEF UsbInv
  <2> QED BY <2>3, <2>4
<1>5. CASE U!DisconnectHide
  <2>1. /\ bye = "locked" /\ bye' = "put" /\ intfdata' = FALSE /\ minor' = FALSE
        /\ UNCHANGED <<probing, dev, kref, fpc, fault>>
    BY <1>5 DEF U!DisconnectHide
  <2>2. intfdata /\ bkl = "usbcore" /\ probing = "idle"
    BY <2>1, <1>a DEF UsbBus, UsbTypes
  <2>3. \A f \in Files : fpc[f] # "found"  BY <2>2, <1>a DEF UsbBus
  <2>4. UsbTypes'  BY <2>1, <1>a DEF UsbTypes
  <2>5. UsbFlags'  BY <2>1 DEF UsbFlags
  <2>6. UsbBus'  BY <2>1, <2>2, <2>3 DEF UsbBus
  <2>7. Bound /\ Bound'  BY <2>1, <2>2 DEF Bound
  <2>8. UsbCount'  BY <2>1, <2>7, <1>a, <1>c DEF UsbCount, BusRef
  <2> QED BY <2>1, <2>4, <2>5, <2>6, <2>8, <1>a DEF UsbInv
<1>6. CASE U!DisconnectPut
  <2>1. /\ bye = "put" /\ bye' = "idle" /\ U!Put
        /\ UNCHANGED <<intfdata, minor, probing, bkl, fpc>>
    BY <1>6 DEF U!DisconnectPut
  <2>2. ~intfdata /\ probing = "idle" /\ Bound /\ dev = "there"
    BY <2>1, <1>a, <1>b DEF UsbBus, UsbTypes, Bound
  <2>3. fault' = fault /\ kref' = kref - 1 /\ dev' = IF kref' = 0 THEN "none" ELSE dev
    BY <2>1, <2>2 DEF U!Put, U!Use
  <2>4. UsbTypes'  BY <2>1, <2>3, <1>a DEF UsbTypes
  <2>5. UsbFlags'  BY <2>1, <1>a DEF UsbFlags
  <2>6. UsbBus'  BY <2>1, <2>2, <1>a DEF UsbBus
  <2>7. ~Bound'  BY <2>1, <2>2 DEF Bound
  <2>8. UsbCount'  BY <2>1, <2>2, <2>3, <2>7, <1>a, <1>b, <1>c DEF UsbCount, BusRef
  <2> QED BY <2>3, <2>4, <2>5, <2>6, <2>8, <1>a DEF UsbInv
<1>7. CASE U!skel_write_bulk_callback
  <2>1. UNCHANGED <<intfdata, minor, probing, bye, dev, kref, bkl, fpc, fault>>
    BY <1>7 DEF U!skel_write_bulk_callback, U!bus
  <2>2. UsbTypes' /\ UsbBus'  BY <2>1, <1>a DEF UsbTypes, UsbBus
  <2>3. UsbFlags'  BY <2>1, <1>a DEF UsbFlags
  <2>4. UsbCount'  BY <2>1, <1>a, <1>c, <1>d DEF UsbCount
  <2> QED BY <2>1, <2>2, <2>3, <2>4, <1>a DEF UsbInv
<1>8. ASSUME NEW f \in Files,
             U!skel_open(f) \/ U!skel_release(f) \/ U!skel_read(f) \/ U!skel_write(f)
      PROVE  UsbInv'
  <2>a. /\ UNCHANGED <<intfdata, minor, probing, bye>>
        /\ UsbFlags' /\ BusRef' = BusRef
    <3>1. UNCHANGED <<intfdata, minor, probing, bye>>
      BY <1>8 DEF U!skel_open, U!skel_release, U!skel_read, U!skel_write,
           U!OpenFind, U!OpenGet, U!ReadTransfer, U!ReadCopy, U!WriteAlloc, U!WriteSubmit, U!bus
    <3> QED BY <3>1, <1>a, <1>d DEF UsbFlags
  \* What a step of f that stays among the holders, or out of them, needs.
  <2>b. ASSUME UNCHANGED <<dev, kref>>, fault' # "freed", UsbTypes', UsbBus',
               fpc'[f] \in {"open", "copy", "submit"}
                 <=> fpc[f] \in {"open", "copy", "submit"},
               \A g \in Files : g # f => fpc'[g] = fpc[g]
        PROVE  UsbInv'
    <3>1. U!Holders' = U!Holders  BY <2>b DEF U!Holders
    <3>2. UsbCount'  BY <3>1, <2>a, <2>b, <1>a DEF UsbCount
    <3> QED BY <3>2, <2>a, <2>b DEF UsbInv
  <2>1. CASE U!OpenFind(f)
    <3>1. fpc[f] = "closed" /\ bkl = "nobody" /\ minor /\ UNCHANGED <<dev, kref, fault>>
      BY <2>1 DEF U!OpenFind, U!Nobody
    <3>2. intfdata  BY <3>1, <1>a DEF UsbBus
    <3>3. bkl' = f /\ fpc' = [fpc EXCEPT ![f] = "found"]
      BY <2>1, <3>2 DEF U!OpenFind, U!Goto
    <3>4. bye # "locked" /\ \A g \in Files : fpc[g] # "found"  BY <3>1, <1>a DEF UsbBus
    <3>5. UsbTypes'  BY <3>1, <3>3, <2>a, <1>a DEF UsbTypes
    <3>6. UsbBus'  BY <3>1, <3>3, <3>4, <2>a, <1>a DEF UsbBus, UsbTypes
    <3> QED BY <3>1, <3>3, <3>5, <3>6, <2>b, <1>a DEF UsbTypes
  <2>2. CASE U!OpenGet(f)
    <3>1. /\ fpc[f] = "found" /\ U!Use /\ kref' = kref + 1 /\ bkl' = "nobody"
          /\ dev' = dev /\ fpc' = [fpc EXCEPT ![f] = "open"]
      BY <2>2 DEF U!OpenGet, U!Goto, U!Nobody
    <3>2. bkl = f /\ minor /\ intfdata  BY <3>1, <1>a DEF UsbBus
    <3>3. dev = "there"  BY <3>2, <1>b DEF Bound
    <3>4. fault' = fault  BY <3>1, <3>3 DEF U!Use
    <3>5. \A g \in Files : g # f => fpc[g] # "found"  BY <3>2, <1>a DEF UsbBus
    <3>6. bye # "locked"  BY <3>2, <1>a DEF UsbBus
    <3>7. UsbTypes'  BY <3>1, <2>a, <1>a DEF UsbTypes
    <3>8. UsbBus'  BY <3>1, <3>5, <3>6, <2>a, <1>a DEF UsbBus, UsbTypes
    <3>9. /\ f \notin U!Holders /\ U!Holders' = U!Holders \cup {f}
          /\ U!Holders \subseteq Files
      BY <3>1, <1>a DEF U!Holders, UsbTypes
    <3>10. Cardinality(U!Holders') = Cardinality(U!Holders) + 1  BY <3>9, CountMoves
    <3>11. UsbCount'  BY <3>1, <3>3, <3>10, <2>a, <1>a, <1>b DEF UsbCount
    <3> QED BY <3>4, <3>7, <3>8, <3>11, <2>a, <1>a DEF UsbInv
  <2>3. CASE U!skel_release(f)
    <3>1. /\ fpc[f] = "open" /\ U!Put /\ bkl' = bkl
          /\ fpc' = [fpc EXCEPT ![f] = "closed"]
      BY <2>3 DEF U!skel_release, U!Goto
    <3>2. f \in U!Holders /\ U!Holders' = U!Holders \ {f} /\ U!Holders \subseteq Files
      BY <3>1, <1>a DEF U!Holders, UsbTypes
    <3>3. Cardinality(U!Holders') = Cardinality(U!Holders) - 1  BY <3>2, CountMoves
    <3>4. fault' = fault /\ kref' = kref - 1 /\ dev' = IF kref' = 0 THEN "none" ELSE dev
      BY <3>1, <3>2, <1>b DEF U!Put, U!Use
    <3>5. UsbTypes'  BY <3>1, <3>4, <2>a, <1>a DEF UsbTypes
    <3>6. UsbBus'  BY <3>1, <2>a, <1>a DEF UsbBus, UsbTypes
    <3>7. UsbCount'  BY <3>2, <3>3, <3>4, <2>a, <1>a, <1>b DEF UsbCount
    <3> QED BY <3>4, <3>5, <3>6, <3>7, <2>a, <1>a DEF UsbInv
  <2>4. CASE U!ReadTransfer(f) \/ U!ReadCopy(f) \/ U!WriteAlloc(f) \/ U!WriteSubmit(f)
    <3>1. /\ fpc[f] \in {"open", "copy", "submit"} /\ UNCHANGED <<dev, kref, bkl>>
          /\ \/ fpc' = fpc
             \/ \E step \in {"open", "copy", "submit"} : fpc' = [fpc EXCEPT ![f] = step]
      BY <2>4 DEF U!ReadTransfer, U!ReadCopy, U!WriteAlloc, U!WriteSubmit, U!Goto
    <3>2. f \in U!Holders  BY <3>1 DEF U!Holders
    <3>3. fault' # "freed"
      BY <2>4, <3>2, <1>a, <1>b
        DEF U!ReadTransfer, U!ReadCopy, U!WriteAlloc, U!WriteSubmit, U!Use
    <3>4. UsbTypes'  BY <3>1, <2>a, <1>a DEF UsbTypes
    <3>5. UsbBus'  BY <3>1, <2>a, <1>a DEF UsbBus, UsbTypes
    <3>6. /\ fpc'[f] \in {"open", "copy", "submit"}
          /\ \A g \in Files : g # f => fpc'[g] = fpc[g]
      BY <3>1, <1>a DEF UsbTypes
    <3> QED BY <3>1, <3>3, <3>4, <3>5, <3>6, <2>b
  <2> QED BY <1>8, <2>1, <2>2, <2>3, <2>4 DEF U!skel_open, U!skel_read, U!skel_write
<1> QED
  BY <1>1, <1>2, <1>3, <1>4, <1>5, <1>6, <1>7, <1>8
    DEF U!Next, U!skel_probe, U!skel_disconnect

-----------------------------------------------------------------------------
(***************************************************************************)
(* sbull: the timer that drops the medium and the users of the disk.       *)
(***************************************************************************)
OpenDisks == {f \in Files : file[f] = "open"}

SbullTypes ==
  /\ disk \in {"none", "no data", "dangling", "ready"}
  /\ invalidate \in {"idle", "pending", "running"}
  /\ file \in [Files -> {"closed", "opening", "open"}]
  /\ users = Cardinality(OpenDisks)

\* Who opens has the block layer's semaphore, and from its del_timer_sync on no
\* timer is set until a release, which waits for that semaphore.
SbullIdle ==
  /\ \A f \in Files : file[f] = "opening" => bd_sem = f
  /\ \A f \in Files :
       file[f] \in {"opening", "open"} => disk = "ready" /\ invalidate = "idle"
  /\ invalidate # "idle" => disk = "ready"

SbullInv == SbullTypes /\ SbullIdle

\* Before the module is loaded.
LEMMA SbullInit == B!Init => SbullInv
<1> SUFFICES ASSUME B!Init PROVE SbullInv
  OBVIOUS
<1>1. OpenDisks = {}  BY DEF B!Init, B!IdleInit, OpenDisks
<1>2. Cardinality(OpenDisks) = 0  BY <1>1, FS_EmptySet
<1>3. /\ disk = "none" /\ invalidate = "idle" /\ users = 0
      /\ file = [f \in Files |-> "closed"]
  BY DEF B!Init, B!IdleInit
<1> QED BY <1>2, <1>3 DEF SbullInv, SbullTypes, SbullIdle

\* Every step keeps the timer off a disk that is open or gone.
LEMMA SbullStep == SbullInv /\ B!Next => SbullInv'
<1> SUFFICES ASSUME SbullInv, B!Next PROVE SbullInv'
  OBVIOUS
<1>a. SbullTypes /\ SbullIdle  BY DEF SbullInv
<1>b. /\ OpenDisks \subseteq Files /\ Cardinality(OpenDisks) \in Nat
      /\ Cardinality(OpenDisks) = 0 <=> OpenDisks = {}
  <2>1. OpenDisks \subseteq Files /\ IsFiniteSet(OpenDisks)  BY FS_Subset DEF OpenDisks
  <2> QED BY <2>1, FS_CardinalityType, FS_EmptySet
<1>1. CASE B!setup_device
  <2>1. /\ disk = "none" /\ disk' \in {"no data", "dangling", "ready"}
        /\ UNCHANGED <<users, invalidate, bd_sem, file>>
    BY <1>1 DEF B!setup_device, B!idle
  <2>2. invalidate = "idle" /\ \A f \in Files : file[f] = "closed"
    BY <2>1, <1>a DEF SbullTypes, SbullIdle
  <2> QED BY <2>1, <2>2, <1>a DEF SbullInv, SbullTypes, SbullIdle, OpenDisks
<1>2. CASE B!sbull_exit
  <2>1. /\ users = 0 /\ bd_sem = "nobody" /\ invalidate' = "idle" /\ disk' = "none"
        /\ UNCHANGED <<users, bd_sem, file>>
    BY <1>2 DEF B!sbull_exit, B!Nobody
  <2>2. \A f \in Files : file[f] = "closed"
    BY <2>1, <1>a, <1>b DEF SbullTypes, SbullIdle, OpenDisks
  <2> QED BY <2>1, <2>2, <1>a DEF SbullInv, SbullTypes, SbullIdle, OpenDisks
<1>3. CASE B!sbull_invalidate
  <2>1. /\ invalidate # "idle" /\ invalidate' \in {"idle", "running"}
        /\ UNCHANGED <<disk, users, bd_sem, file>>
    BY <1>3 DEF B!sbull_invalidate, B!InvalidateStart, B!InvalidateMark
  <2>2. disk = "ready" /\ \A f \in Files : file[f] = "closed"
    BY <2>1, <1>a DEF SbullTypes, SbullIdle
  <2> QED BY <2>1, <2>2, <1>a DEF SbullInv, SbullTypes, SbullIdle, OpenDisks
<1>4. CASE B!Request
  <2>1. UNCHANGED <<disk, users, invalidate, bd_sem, file>>
    BY <1>4 DEF B!Request, B!idle
  <2> QED BY <2>1, <1>a DEF SbullInv, SbullTypes, SbullIdle, OpenDisks
<1>5. ASSUME NEW f \in Files, B!sbull_open(f) \/ B!sbull_release(f)
      PROVE  SbullInv'
  <2>1. CASE B!OpenSync(f)
    <3>1. /\ disk = "ready" /\ file[f] = "closed" /\ bd_sem = "nobody" /\ bd_sem' = f
          /\ invalidate' = "idle" /\ file' = [file EXCEPT ![f] = "opening"]
          /\ UNCHANGED <<disk, users>>
      BY <2>1 DEF B!OpenSync, B!Nobody
    <3>2. \A g \in Files : file[g] # "opening"  BY <3>1, <1>a DEF SbullIdle
    <3>3. OpenDisks' = OpenDisks  BY <3>1, <1>a DEF OpenDisks, SbullTypes
    <3> QED BY <3>1, <3>2, <3>3, <1>a DEF SbullInv, SbullTypes, SbullIdle
  <2>2. CASE B!OpenCheck(f)
    <3>1. /\ file[f] = "opening" /\ users' = users + 1 /\ bd_sem' = "nobody"
          /\ file' = [file EXCEPT ![f] = "open"] /\ UNCHANGED <<disk, invalidate>>
      BY <2>2 DEF B!OpenCheck, B!Nobody
    <3>2. /\ disk = "ready" /\ invalidate = "idle"
          /\ \A g \in Files : g # f => file[g] # "opening"
      BY <3>1, <1>a DEF SbullIdle
    <3>3. f \notin OpenDisks /\ OpenDisks' = OpenDisks \cup {f}
      BY <3>1, <1>a DEF OpenDisks, SbullTypes
    <3>4. users' = Cardinality(OpenDisks')
      BY <3>1, <3>3, <1>a, <1>b, CountMoves DEF SbullTypes
    <3> QED BY <3>1, <3>2, <3>4, <1>a DEF SbullInv, SbullTypes, SbullIdle
  <2>3. CASE B!sbull_release(f)
    <3>1. /\ file[f] = "open" /\ bd_sem = "nobody" /\ users' = users - 1
          /\ invalidate' = (IF users' = 0 THEN "pending" ELSE invalidate)
          /\ file' = [file EXCEPT ![f] = "closed"] /\ UNCHANGED <<disk, bd_sem>>
      BY <2>3 DEF B!sbull_release, B!Nobody
    <3>2. disk = "ready" /\ invalidate = "idle" /\ \A g \in Files : file[g] # "opening"
      BY <3>1, <1>a DEF SbullIdle
    <3>3. f \in OpenDisks /\ OpenDisks' = OpenDisks \ {f} /\ OpenDisks' \subseteq Files
      BY <3>1, <1>a DEF OpenDisks, SbullTypes
    <3>4. users' = Cardinality(OpenDisks') /\ (users' = 0 => OpenDisks' = {})
      BY <3>1, <3>3, <1>a, <1>b, CountMoves DEF SbullTypes
    <3>5. users' = 0 => \A g \in Files : file'[g] = "closed"
      BY <3>1, <3>2, <3>4, <1>a DEF OpenDisks, SbullTypes
    <3> QED BY <3>1, <3>2, <3>4, <3>5, <1>a DEF SbullInv, SbullTypes, SbullIdle
  <2> QED BY <1>5, <2>1, <2>2, <2>3 DEF B!sbull_open
<1> QED BY <1>1, <1>2, <1>3, <1>4, <1>5 DEF B!Next

-----------------------------------------------------------------------------
(***************************************************************************)
(* tiny tty: the timer and the count of openings.                          *)
(***************************************************************************)
TtyTypes ==
  /\ open_count \in Nat /\ tiny \in {"none", "there"}
  /\ tpc \in [Files -> {"closed", "create", "down", "timer", "open", "failed"}]

\* Who is past the look at the table finds its port there, and whoever allocates
\* the timer has the semaphore and is counted.
TtyCalls ==
  \A f \in Files :
    /\ tpc[f] \in {"down", "timer"} => tiny = "there"
    /\ tpc[f] = "timer" => sem = f /\ open_count > 0

TtyInv == T!TimerWhileOpen /\ (fault = "none" => TtyTypes /\ TtyCalls)

\* Before the first open.
LEMMA TtyInit == T!Init => TtyInv
BY DEF T!Init, T!PortInit, TtyInv, TtyTypes, TtyCalls, T!TimerWhileOpen

\* Every step leaves the timer pending only on a port that is counted open.
LEMMA TtyStep == TtyInv /\ T!Next => TtyInv'
<1> SUFFICES ASSUME TtyInv, T!Next PROVE TtyInv'
  OBVIOUS
<1>a. /\ TtyTypes /\ TtyCalls /\ fault = "none"
      /\ timer = "pending" => tiny = "there" /\ open_count > 0
  BY DEF TtyInv, T!Next, T!TimerWhileOpen
<1> USE DEF TtyInv, TtyTypes, TtyCalls, T!TimerWhileOpen, T!Goto, T!Nobody
<1>1. ASSUME NEW f \in Files, T!OpenLook(f) PROVE TtyInv'
  BY <1>1, <1>a DEF T!OpenLook
<1>2. ASSUME NEW f \in Files, T!OpenCreate(f) PROVE TtyInv'
  <2>1. /\ tpc[f] = "create"
        /\ \/ /\ tiny' = "there" /\ open_count' = 0 /\ timer' = "none"
              /\ fault' = (IF tiny = "none" THEN fault ELSE "twins")
              /\ tpc' = [tpc EXCEPT ![f] = "down"]
           \/ /\ tpc' = [tpc EXCEPT ![f] = "failed"]
              /\ UNCHANGED <<tiny, open_count, timer, fault>>
        /\ sem' = sem
    BY <1>2 DEF T!OpenCreate
  <2>2. CASE tiny = "none"
    <3>1. \A g \in Files : tpc[g] \notin {"down", "timer"}  BY <2>2, <1>a
    <3> QED BY <2>1, <2>2, <3>1, <1>a
  <2>3. CASE tiny # "none"  BY <2>1, <2>3, <1>a
  <2> QED BY <2>2, <2>3
<1>3. ASSUME NEW f \in Files, T!OpenDown(f) PROVE TtyInv'
  <2>1. \A g \in Files : tpc[g] # "timer"  BY <1>3, <1>a DEF T!OpenDown
  <2>2. /\ tpc[f] = "down" /\ open_count' = open_count + 1 /\ UNCHANGED <<tiny, fault>>
        /\ \/ sem' = f /\ tpc' = [tpc EXCEPT ![f] = "timer"] /\ timer' = timer
           \/ tpc' = [tpc EXCEPT ![f] = "open"] /\ timer' \in {"pending", timer}
    BY <1>3 DEF T!OpenDown
  <2> QED BY <2>1, <2>2, <1>a
<1>4. ASSUME NEW f \in Files, T!OpenTimer(f) PROVE TtyInv'
  <2>1. \A g \in Files : g # f => tpc[g] # "timer"  BY <1>4, <1>a DEF T!OpenTimer
  <2>2. /\ tpc[f] = "timer" /\ UNCHANGED <<tiny, open_count, fault>>
        /\ \/ tpc' = [tpc EXCEPT ![f] = "open"]
           \/ tpc' = [tpc EXCEPT ![f] = "failed"] /\ timer' = timer
    BY <1>4 DEF T!OpenTimer
  <2> QED BY <2>1, <2>2, <1>a
<1>5. ASSUME NEW f \in Files, T!tiny_close(f) PROVE TtyInv'
  <2>1. /\ tpc[f] \in {"open", "failed"} /\ tpc' = [tpc EXCEPT ![f] = "closed"]
        /\ UNCHANGED <<tiny, sem>>
        /\ \/ sem = "nobody" /\ T!do_close
           \/ UNCHANGED <<open_count, timer, fault>>
    BY <1>5 DEF T!tiny_close
  <2>2. CASE UNCHANGED <<open_count, timer, fault>>  BY <2>1, <2>2, <1>a
  <2>3. CASE sem = "nobody" /\ T!do_close /\ open_count > 0
    <3>1. \A g \in Files : tpc[g] # "timer"  BY <2>3, <1>a
    <3>2. /\ open_count' = open_count - 1
          /\ open_count' > 0 => UNCHANGED <<timer, fault>>
          /\ open_count' = 0 => timer' # "pending" /\ fault' \in {"null", fault}
      BY <2>3, <1>a DEF T!do_close
    <3> QED BY <2>1, <2>3, <3>1, <3>2, <1>a
  <2> QED BY <2>1, <2>2, <2>3, <1>a DEF T!do_close
<1>6. CASE T!tiny_exit
  BY <1>6, <1>a DEF T!tiny_exit
<1>7. CASE T!tiny_timer
  BY <1>7, <1>a DEF T!tiny_timer
<1>8. ASSUME NEW set, NEW clear, T!tiny_tiocmset(set, clear) PROVE TtyInv'
  <2>1. UNCHANGED <<tiny, open_count, sem, timer, tpc>> /\ fault' \in {fault, "null"}
    BY <1>8 DEF T!tiny_tiocmset
  <2> QED BY <2>1, <1>a
<1> QED BY <1>1, <1>2, <1>3, <1>4, <1>5, <1>6, <1>7, <1>8 DEF T!Next, T!tiny_open

-----------------------------------------------------------------------------
(***************************************************************************)
(* player: the two threads that work on the pipeline.                      *)
(***************************************************************************)
Building == {"create", "sink", "add"}

PlayerTypes ==
  next \in [main : Building \cup {"play", "run", "loop", "stop", "join", "destroy",
                                  "exit"},
            keys : Building \cup {"play", "stop", "destroy", "wait", "joined"}]

PlayerFlags == running \in BOOLEAN /\ playing \in BOOLEAN

\* The keyboard task works on the pipeline only while the main loop runs, which it
\* ends itself.
PlayerTurns ==
  /\ running => next.main = "loop"
  /\ next.keys \notin {"wait", "joined"} => running

\* Whoever builds or takes down has stopped the stream first, and a new pipeline
\* begins with no flag left of the one before.
Quiet(step) == step \in Building \cup {"join", "destroy"}
PlayerStops ==
  /\ Quiet(next.main) \/ Quiet(next.keys) => ~playing
  /\ next.main \in Building \/ next.keys \in Building => linked = {}

PlayerInv == PlayerTypes /\ PlayerFlags /\ PlayerTurns /\ PlayerStops /\ P!PadsCanLink

\* Before the main thread has built anything.
LEMMA PlayerInit == P!Init => PlayerInv
<1> SUFFICES ASSUME P!Init PROVE PlayerInv
  OBVIOUS
<1>1. next = [main |-> "create", keys |-> "wait"] /\ linked = {} /\ pads = {}
  BY DEF P!Init
<1>2. ~running /\ ~playing /\ PlayerFlags  BY DEF P!Init, PlayerFlags
<1>3. PlayerTypes  BY <1>1 DEF PlayerTypes, Building
<1>4. PlayerTurns /\ PlayerStops /\ P!PadsCanLink
  BY <1>1, <1>2 DEF PlayerTurns, PlayerStops, P!PadsCanLink
<1> QED BY <1>2, <1>3, <1>4 DEF PlayerInv

\* What a change of state, asked for to play or to stop, makes of the stream.
LEMMA PlayerState ==
  ASSUME PlayerFlags, P!PadsCanLink, NEW play \in BOOLEAN, NEW done \in BOOLEAN,
         P!set_pipeline_state(play, done)
  PROVE  /\ playing' \in BOOLEAN /\ P!PadsCanLink'
         /\ UNCHANGED <<built, linked, pads, owner>>
         /\ done /\ ~play => ~playing'
<1>1. UNCHANGED <<built, linked, pads, owner>>  BY DEF P!set_pipeline_state
<1>2. playing' \in BOOLEAN /\ (playing' => playing \/ (play /\ built = "whole"))
      /\ (done /\ ~play => ~playing')
  <2>1. CASE done
    <3>1. playing' = (play /\ built = "whole")  BY <2>1, Zenon DEF P!set_pipeline_state
    <3> QED BY <3>1, Zenon
  <2>2. CASE ~done
    <3>1. playing' \in {playing, play /\ built = "whole"}
      BY <2>2, Zenon DEF P!set_pipeline_state
    <3>2. CASE playing' = playing  BY <3>2, <2>2, Zenon DEF PlayerFlags
    <3>3. CASE playing' = (play /\ built = "whole")  BY <3>3, <2>2, Zenon
    <3> QED BY <3>1, <3>2, <3>3, Zenon
  <2> QED BY <2>1, <2>2
<1>3. P!PadsCanLink'  BY <1>1, <1>2 DEF P!PadsCanLink
<1> QED BY <1>1, <1>2, <1>3

\* What the parts of a building leave behind.
LEMMA PlayerBuilds ==
  ASSUME PlayerFlags, P!PadsCanLink, NEW t \in {"main", "keys"}, NEW done \in BOOLEAN,
         P!create_pipeline(t, done), ~playing, linked = {}
  PROVE  next[t] \in Building /\ P!PadsCanLink' /\ UNCHANGED <<linked, playing>>
<1>1. pads = {}  BY DEF P!PadsCanLink
<1>2. next[t] \in Building /\ UNCHANGED <<linked, playing>> /\ pads' = {}
  BY <1>1 DEF P!create_pipeline, P!create_source_element, P!create_sink_element,
              P!addsink, Building
<1> QED BY <1>2 DEF P!PadsCanLink

\* And of a taking down.
LEMMA PlayerDrops ==
  ASSUME P!PadsCanLink, NEW t \in {"main", "keys"}, NEW done \in BOOLEAN,
         P!destroy_pipeline(t, done), ~playing
  PROVE  P!PadsCanLink' /\ playing' = playing /\ (done => linked' = {})
<1>1. playing' = playing /\ (done => linked' = {} /\ pads' = {})
      /\ (~done => linked' = linked /\ pads' = pads)
  BY DEF P!destroy_pipeline, P!dropsink
<1> QED BY <1>1 DEF P!PadsCanLink

\* Every step of the two threads and of the stream keeps it.
LEMMA PlayerStep == PlayerInv /\ P!Next => PlayerInv'
<1> SUFFICES ASSUME PlayerInv, P!Next PROVE PlayerInv'
  OBVIOUS
<1>a. PlayerTypes /\ PlayerFlags /\ PlayerTurns /\ PlayerStops /\ P!PadsCanLink
  BY DEF PlayerInv
<1>b. /\ next.main # "loop" => next.keys \in {"wait", "joined"} /\ ~running
      /\ next.keys \notin {"wait", "joined"} => running /\ next.main = "loop"
  BY <1>a DEF PlayerTurns
\* Where the main thread goes next is one of its own steps.
<1>1. CASE P!MainCall
  <2>1. UNCHANGED running  BY <1>1 DEF P!MainCall
  <2>2. PICK done \in BOOLEAN :
          \/ /\ P!create_pipeline("main", done)
             /\ P!Goto("main", IF done THEN P!After(next.main) ELSE "exit")
          \/ /\ next.main = "play" /\ P!set_pipeline_state(TRUE, done)
             /\ P!Goto("main", IF done THEN "run" ELSE "exit")
          \/ /\ next.main = "stop" /\ P!set_pipeline_state(FALSE, done)
             /\ P!Goto("main", IF done THEN "join" ELSE "exit")
          \/ /\ next.main = "destroy" /\ P!destroy_pipeline("main", done)
             /\ P!Goto("main", "exit")
    BY <1>1 DEF P!MainCall
  <2>3. CASE /\ P!create_pipeline("main", done)
             /\ P!Goto("main", IF done THEN P!After(next.main) ELSE "exit")
    <3>1. next.main \in Building  BY <2>3 DEF P!create_pipeline, Building
    <3>2. ~playing /\ linked = {}  BY <3>1, <1>a DEF PlayerStops, Quiet
    <3>3. P!PadsCanLink' /\ UNCHANGED <<linked, playing>>
      BY <2>3, <3>2, <1>a, PlayerBuilds
    <3>4. PICK step \in {"sink", "add", "play", "exit"} :
            next' = [next EXCEPT !["main"] = step]
      BY <2>3, <3>1 DEF P!Goto, P!After, Building
    <3>5. next'.main = step /\ next'.keys = next.keys /\ next.keys \in {"wait", "joined"}
          /\ PlayerTypes'
      BY <3>1, <3>4, <1>a, <1>b DEF PlayerTypes, Building
    <3>6. PlayerFlags'  BY <2>1, <3>3, <1>a DEF PlayerFlags
    <3>7. PlayerTurns'  BY <2>1, <3>1, <3>5, <1>b DEF PlayerTurns, Building
    <3>8. PlayerStops'  BY <3>2, <3>3 DEF PlayerStops
    <3> QED BY <3>3, <3>5, <3>6, <3>7, <3>8 DEF PlayerInv
  <2>4. CASE /\ next.main = "play" /\ P!set_pipeline_state(TRUE, done)
             /\ P!Goto("main", IF done THEN "run" ELSE "exit")
    <3>1. playing' \in BOOLEAN /\ P!PadsCanLink'  BY <2>4, <1>a, PlayerState
    <3>2. PICK step \in {"run", "exit"} : next' = [next EXCEPT !["main"] = step]
      BY <2>4 DEF P!Goto
    <3>3. next'.main = step /\ next'.keys = next.keys /\ next.keys \in {"wait", "joined"}
          /\ PlayerTypes'
      BY <2>4, <3>2, <1>a, <1>b DEF PlayerTypes
    <3>4. PlayerFlags'  BY <2>1, <3>1, <1>a DEF PlayerFlags
    <3>5. PlayerTurns'  BY <2>1, <2>4, <3>3, <1>b DEF PlayerTurns
    <3>6. PlayerStops'  BY <3>3 DEF PlayerStops, Quiet, Building
    <3> QED BY <3>1, <3>3, <3>4, <3>5, <3>6 DEF PlayerInv
  <2>5. CASE /\ next.main = "stop" /\ P!set_pipeline_state(FALSE, done)
             /\ P!Goto("main", IF done THEN "join" ELSE "exit")
    <3>1. playing' \in BOOLEAN /\ P!PadsCanLink' /\ (done => ~playing')
      BY <2>5, <1>a, PlayerState
    <3>2. next' = [next EXCEPT !["main"] = IF done THEN "join" ELSE "exit"]
      BY <2>5 DEF P!Goto
    <3>3. /\ next'.main = (IF done THEN "join" ELSE "exit")
          /\ next'.keys = next.keys /\ next.keys \in {"wait", "joined"} /\ PlayerTypes'
      BY <2>5, <3>2, <1>a, <1>b DEF PlayerTypes
    <3>4. PlayerFlags'  BY <2>1, <3>1, <1>a DEF PlayerFlags
    <3>5. PlayerTurns'  BY <2>1, <2>5, <3>3, <1>b DEF PlayerTurns
    <3>6. PlayerStops'  BY <3>1, <3>3 DEF PlayerStops, Quiet, Building
    <3> QED BY <3>1, <3>3, <3>4, <3>5, <3>6 DEF PlayerInv
  <2>6. CASE /\ next.main = "destroy" /\ P!destroy_pipeline("main", done)
             /\ P!Goto("main", "exit")
    <3>1. ~playing  BY <2>6, <1>a DEF PlayerStops, Quiet
    <3>2. P!PadsCanLink' /\ playing' = playing  BY <2>6, <3>1, <1>a, PlayerDrops
    <3>3. next'.main = "exit" /\ next'.keys = next.keys /\ next.keys \in {"wait", "joined"}
          /\ PlayerTypes'
      BY <2>6, <1>a, <1>b DEF P!Goto, PlayerTypes
    <3>4. PlayerFlags'  BY <2>1, <3>2, <1>a DEF PlayerFlags
    <3>5. PlayerTurns'  BY <2>1, <2>6, <3>3, <1>b DEF PlayerTurns
    <3>6. PlayerStops'  BY <3>3 DEF PlayerStops, Quiet, Building
    <3> QED BY <3>2, <3>3, <3>4, <3>5, <3>6 DEF PlayerInv
  <2> QED BY <2>2, <2>3, <2>4, <2>5, <2>6
<1>2. CASE P!MainWait
  <2>1. UNCHANGED <<built, playing, linked, pads>>  BY <1>2 DEF P!MainWait
  <2>2. P!PadsCanLink'  BY <2>1, <1>a DEF P!PadsCanLink
  <2>3. CASE next.main = "run" /\ P!Goto("main", "loop") /\ running' = TRUE
    <3>1. next'.main = "loop" /\ next'.keys = next.keys /\ next.keys \in {"wait", "joined"}
          /\ PlayerTypes'
      BY <2>3, <1>a, <1>b DEF P!Goto, PlayerTypes
    <3>2. PlayerFlags'  BY <2>1, <2>3, <1>a DEF PlayerFlags
    <3>3. PlayerTurns'  BY <3>1 DEF PlayerTurns
    <3>4. PlayerStops'  BY <3>1 DEF PlayerStops, Quiet, Building
    <3> QED BY <2>2, <3>1, <3>2, <3>3, <3>4 DEF PlayerInv
  <2>4. CASE next.main = "loop" /\ ~running /\ P!Goto("main", "stop") /\ UNCHANGED running
    <3>1. next'.main = "stop" /\ next'.keys = next.keys /\ next.keys \in {"wait", "joined"}
          /\ PlayerTypes'
      BY <2>4, <1>a, <1>b DEF P!Goto, PlayerTypes
    <3>2. PlayerFlags'  BY <2>1, <2>4, <1>a DEF PlayerFlags
    <3>3. PlayerTurns'  BY <2>4, <3>1 DEF PlayerTurns
    <3>4. PlayerStops'  BY <3>1 DEF PlayerStops, Quiet, Building
    <3> QED BY <2>2, <3>1, <3>2, <3>3, <3>4 DEF PlayerInv
  <2>5. CASE /\ next.main = "join" /\ next.keys = "wait"
             /\ next' = [main |-> "destroy", keys |-> "joined"] /\ UNCHANGED running
    <3>1. next'.main = "destroy" /\ next'.keys = "joined" /\ PlayerTypes'
      BY <2>5 DEF PlayerTypes
    <3>2. PlayerFlags'  BY <2>1, <2>5, <1>a DEF PlayerFlags
    <3>3. PlayerTurns'  BY <2>5, <3>1, <1>b DEF PlayerTurns
    <3>4. ~playing  BY <2>5, <1>a DEF PlayerStops, Quiet
    <3>5. PlayerStops'  BY <2>1, <3>1, <3>4 DEF PlayerStops, Quiet, Building
    <3> QED BY <2>2, <3>1, <3>2, <3>3, <3>5 DEF PlayerInv
  <2> QED BY <1>2, <2>3, <2>4, <2>5 DEF P!MainWait
<1>3. CASE P!process_input_key
  <2>1. next.keys = "wait" /\ running /\ UNCHANGED <<built, playing, linked, pads>>
    BY <1>3 DEF P!process_input_key
  <2>2. P!PadsCanLink'  BY <2>1, <1>a DEF P!PadsCanLink
  <2>3. next.main = "loop"  BY <2>1, <1>a DEF PlayerTurns
  <2>4. CASE P!Goto("keys", "stop") /\ UNCHANGED running
    <3>1. next'.main = "loop" /\ next'.keys = "stop" /\ PlayerTypes'
      BY <2>3, <2>4, <1>a DEF P!Goto, PlayerTypes
    <3>2. PlayerFlags'  BY <2>1, <2>4, <1>a DEF PlayerFlags
    <3>3. PlayerTurns'  BY <2>1, <2>4, <3>1 DEF PlayerTurns
    <3>4. PlayerStops'  BY <3>1 DEF PlayerStops, Quiet, Building
    <3> QED BY <2>2, <3>1, <3>2, <3>3, <3>4 DEF PlayerInv
  <2>5. CASE running' = FALSE /\ UNCHANGED next
    <3>1. PlayerFlags'  BY <2>1, <2>5, <1>a DEF PlayerFlags
    <3>2. PlayerTurns'  BY <2>1, <2>5 DEF PlayerTurns
    <3>3. PlayerTypes' /\ PlayerStops'  BY <2>1, <2>5, <1>a DEF PlayerTypes, PlayerStops
    <3> QED BY <2>2, <3>1, <3>2, <3>3 DEF PlayerInv
  <2> QED BY <1>3, <2>4, <2>5 DEF P!process_input_key
<1>4. CASE P!handle_channel_zapping
  <2>1. UNCHANGED running  BY <1>4 DEF P!handle_channel_zapping
  <2>2. PICK done \in BOOLEAN :
          \/ /\ next.keys = "stop" /\ P!set_pipeline_state(FALSE, done)
             /\ P!Goto("keys", IF done THEN "destroy" ELSE "wait")
          \/ /\ next.keys = "destroy" /\ P!destroy_pipeline("keys", done)
             /\ P!Goto("keys", IF done THEN "create" ELSE "wait")
          \/ /\ P!create_pipeline("keys", done)
             /\ P!Goto("keys", IF done THEN P!After(next.keys) ELSE "wait")
          \/ /\ next.keys = "play" /\ P!set_pipeline_state(TRUE, done)
             /\ P!Goto("keys", IF done /\ zaps > 1 THEN "stop" ELSE "wait")
    BY <1>4 DEF P!handle_channel_zapping
  \* The keyboard task is at work, so the main loop runs and goes on.
  <2>3. ASSUME NEW step \in {"stop", "destroy", "wait", "create", "sink", "add", "play"},
               next.keys \notin {"wait", "joined"}, P!Goto("keys", step)
        PROVE  /\ next'.keys = step /\ next'.main = "loop"
               /\ PlayerTypes' /\ PlayerTurns'
    <3>1. next.main = "loop" /\ running  BY <2>3, <1>b
    <3>2. next'.keys = step /\ next'.main = "loop" /\ PlayerTypes'
      BY <2>3, <3>1, <1>a DEF P!Goto, PlayerTypes, Building
    <3>3. PlayerTurns'  BY <2>1, <3>1, <3>2 DEF PlayerTurns
    <3> QED BY <3>2, <3>3
  <2>4. CASE /\ next.keys = "stop" /\ P!set_pipeline_state(FALSE, done)
             /\ P!Goto("keys", IF done THEN "destroy" ELSE "wait")
    <3> DEFINE step == IF done THEN "destroy" ELSE "wait"
    <3>1. next'.keys = step /\ next'.main = "loop" /\ PlayerTypes' /\ PlayerTurns'
      BY <2>3, <2>4
    <3>2. playing' \in BOOLEAN /\ P!PadsCanLink' /\ (done => ~playing')
      BY <2>4, <1>a, PlayerState
    <3>3. PlayerFlags'  BY <2>1, <3>2, <1>a DEF PlayerFlags
    <3>4. PlayerStops'  BY <3>1, <3>2 DEF PlayerStops, Quiet, Building
    <3> QED BY <3>1, <3>2, <3>3, <3>4 DEF PlayerInv
  <2>5. CASE /\ next.keys = "destroy" /\ P!destroy_pipeline("keys", done)
             /\ P!Goto("keys", IF done THEN "create" ELSE "wait")
    <3> DEFINE step == IF done THEN "create" ELSE "wait"
    <3>1. next'.keys = step /\ next'.main = "loop" /\ PlayerTypes' /\ PlayerTurns'
      BY <2>3, <2>5
    <3>2. ~playing  BY <2>5, <1>a DEF PlayerStops, Quiet
    <3>3. P!PadsCanLink' /\ playing' = playing /\ (done => linked' = {})
      BY <2>5, <3>2, <1>a, PlayerDrops
    <3>4. PlayerFlags'  BY <2>1, <3>3, <1>a DEF PlayerFlags
    <3>5. PlayerStops'  BY <3>1, <3>2, <3>3 DEF PlayerStops, Quiet, Building
    <3> QED BY <3>1, <3>3, <3>4, <3>5 DEF PlayerInv
  <2>6. CASE /\ P!create_pipeline("keys", done)
             /\ P!Goto("keys", IF done THEN P!After(next.keys) ELSE "wait")
    <3>1. next.keys \in Building  BY <2>6 DEF P!create_pipeline, Building
    <3>2. ~playing /\ linked = {}  BY <3>1, <1>a DEF PlayerStops, Quiet
    <3>3. P!PadsCanLink' /\ UNCHANGED <<linked, playing>>
      BY <2>6, <3>2, <1>a, PlayerBuilds
    <3>4. PICK step \in {"sink", "add", "play", "wait"} : P!Goto("keys", step)
      BY <2>6, <3>1 DEF P!After, Building
    <3>5. PlayerTypes' /\ PlayerTurns'  BY <2>3, <3>1, <3>4 DEF Building
    <3>6. PlayerFlags'  BY <2>1, <3>3, <1>a DEF PlayerFlags
    <3>7. PlayerStops'  BY <3>2, <3>3 DEF PlayerStops
    <3> QED BY <3>3, <3>5, <3>6, <3>7 DEF PlayerInv
  <2>7. CASE /\ next.keys = "play" /\ P!set_pipeline_state(TRUE, done)
             /\ P!Goto("keys", IF done /\ zaps > 1 THEN "stop" ELSE "wait")
    <3>1. PICK step \in {"stop", "wait"} : P!Goto("keys", step)  BY <2>7
    <3>2. next'.keys = step /\ next'.main = "loop" /\ PlayerTypes' /\ PlayerTurns'
      BY <2>3, <2>7, <3>1
    <3>3. playing' \in BOOLEAN /\ P!PadsCanLink'  BY <2>7, <1>a, PlayerState
    <3>4. PlayerFlags'  BY <2>1, <3>3, <1>a DEF PlayerFlags
    <3>5. PlayerStops'  BY <3>2 DEF PlayerStops, Quiet, Building
    <3> QED BY <3>2, <3>3, <3>4, <3>5 DEF PlayerInv
  <2> QED BY <2>2, <2>4, <2>5, <2>6, <2>7
<1>5. ASSUME NEW kind, P!onDemuxSrcPadAdded(kind) PROVE PlayerInv'
  <2>1. /\ playing /\ UNCHANGED <<next, running, built, playing>>
        /\ pads' = pads \cup {kind} /\ linked' = linked \cup {kind}
    BY <1>5 DEF P!onDemuxSrcPadAdded
  <2>2. ~Quiet(next.main) /\ ~Quiet(next.keys)  BY <2>1, <1>a DEF PlayerStops
  <2>3. next.main \notin Building /\ next.keys \notin Building  BY <2>2 DEF Quiet
  <2>4. PlayerTypes'  BY <2>1, <1>a DEF PlayerTypes
  <2>5. PlayerFlags'  BY <2>1, <1>a DEF PlayerFlags
  <2>6. PlayerTurns'  BY <2>1, <1>a DEF PlayerTurns
  <2>7. PlayerStops'  BY <2>1, <2>2, <2>3 DEF PlayerStops, Quiet
  <2>8. P!PadsCanLink'  BY <2>1, <1>a DEF P!PadsCanLink
  <2> QED BY <2>4, <2>5, <2>6, <2>7, <2>8 DEF PlayerInv
<1> QED BY <1>1, <1>2, <1>3, <1>4, <1>5 DEF P!Next, P!main


HIDE FilesAssumption

-----------------------------------------------------------------------------
(***************************************************************************)
(* sbull: what was written is read again until the medium changes, for any *)
(* lengths of the segments.                                                *)
(***************************************************************************)

\* A bio has segments of some sectors each.
LEMMA SegmentsAre == Segments \subseteq Seq(Nat \ {0})
  BY DEF Segments

\* The length of a bio is the sum of its segments.
LEMMA LengthFolds ==
  ASSUME NEW segs, IsFiniteSet(DOMAIN segs)
  PROVE  \E h : Folds(h, segs, DOMAIN segs) /\ B!Length(segs) = h[DOMAIN segs]
<1> DEFINE h == CHOOSE h : h = [s \in SUBSET DOMAIN segs |->
                          IF s = {} THEN 0
                          ELSE segs[CHOOSE x \in s : TRUE] + h[s \ {CHOOSE x \in s : TRUE}]]
<1>0. \E g : Folds(g, segs, DOMAIN segs)  BY SumExists
<1>1. Folds(h, segs, DOMAIN segs)  BY <1>0 DEF Folds, Pick
<1>2. B!Length(segs) = h[DOMAIN segs]
  BY DEF B!Length, B!FoldSeq, B!FoldFunction, B!FoldFunctionOnSet, B!MapThenFoldSet
<1> HIDE DEF h
<1> QED BY <1>1, <1>2

\* Where the segments start: each one where the one before it ends, the first at the
\* start and the last one ending at the end.
LEMMA Starts ==
  ASSUME NEW segs \in Seq(Nat)
  PROVE  /\ B!StartOf(segs, 1) = 0
         /\ \A i \in 1 .. Len(segs) :
              /\ B!StartOf(segs, i) \in Nat
              /\ B!StartOf(segs, i + 1) = B!StartOf(segs, i) + segs[i]
         /\ B!StartOf(segs, Len(segs) + 1) = B!Length(segs)
         /\ B!Length(segs) \in Nat
<1> DEFINE D == 1 .. Len(segs)
<1>1. DOMAIN segs = D /\ IsFiniteSet(D) /\ \A x \in D : segs[x] \in Nat
  <2>1. Len(segs) \in Int /\ 1 \in Int /\ DOMAIN segs = D /\ \A x \in D : segs[x] \in Nat
    OBVIOUS
  <2> QED BY <2>1, FS_Interval
<1>2. PICK h : Folds(h, segs, D) /\ B!Length(segs) = h[D]  BY <1>1, LengthFolds
<1>3. ASSUME NEW i \in 0 .. Len(segs) PROVE B!StartOf(segs, i + 1) = h[1 .. i]
  <2> DEFINE first == SubSeq(segs, 1, i)
  <2>1. (i + 1) - 1 = i  OBVIOUS
  <2>2. /\ DOMAIN first = 1 .. i
        /\ \A k \in 1 .. i : first[k] = segs[k]
    OBVIOUS
  <2>3. B!StartOf(segs, i + 1) = B!Length(first)  BY <2>1 DEF B!StartOf
  <2> HIDE DEF first
  <2>4. IsFiniteSet(1 .. i) /\ 1 .. i \subseteq D  BY FS_Interval
  <2> HIDE DEF D
  <2>5. PICK k : Folds(k, first, 1 .. i) /\ B!Length(first) = k[1 .. i]
    BY <2>2, <2>4, LengthFolds
  <2>6. k[1 .. i] = h[1 .. i]  BY <1>2, <2>2, <2>4, <2>5, SumsAgree
  <2> QED BY <2>3, <2>5, <2>6
<1>4. /\ h[1 .. 0] = 0
      /\ \A i \in 0 .. Len(segs) : h[1 .. i] \in Nat
      /\ \A i \in 1 .. Len(segs) : h[1 .. i] = h[1 .. (i - 1)] + segs[i]
  <2> DEFINE n == Len(segs)
             g == segs
  <2>1. n \in Nat /\ Folds(h, g, 1 .. n) /\ \A x \in 1 .. n : g[x] \in Nat  BY <1>1, <1>2
  <2> HIDE DEF n, g
  <2>2. /\ h[1 .. 0] = 0
        /\ \A i \in 0 .. n : h[1 .. i] \in Nat
        /\ \A i \in 1 .. n : h[1 .. i] = h[1 .. (i - 1)] + g[i]
    BY <2>1, SumUpTo
  <2> QED BY <2>2 DEF n, g
<1>6. B!StartOf(segs, 1) = 0
  <2>1. 0 \in 0 .. Len(segs) /\ 0 + 1 = 1  OBVIOUS
  <2> QED BY <1>3, <1>4, <2>1
<1>7. ASSUME NEW i \in 1 .. Len(segs)
      PROVE  /\ B!StartOf(segs, i) \in Nat
             /\ B!StartOf(segs, i + 1) = B!StartOf(segs, i) + segs[i]
  <2> DEFINE j == i - 1
  <2>1. j \in 0 .. Len(segs) /\ j + 1 = i /\ i \in 0 .. Len(segs)  OBVIOUS
  <2>2. B!StartOf(segs, j + 1) = h[1 .. j] /\ h[1 .. j] \in Nat  BY <1>3, <1>4, <2>1
  <2>3. B!StartOf(segs, i + 1) = h[1 .. i]  BY <1>3, <2>1
  <2>4. h[1 .. i] = h[1 .. j] + segs[i]  BY <1>4
  <2> HIDE DEF j
  <2> QED BY <2>1, <2>2, <2>3, <2>4
<1>8. B!StartOf(segs, Len(segs) + 1) = B!Length(segs) /\ B!Length(segs) \in Nat
  <2>1. Len(segs) \in 0 .. Len(segs)  OBVIOUS
  <2> QED BY <1>2, <1>3, <1>4, <2>1
<1> QED BY <1>6, <1>7, <1>8

\* No segment ends behind the end, and each place is in one of them.
LEMMA StartsCover ==
  ASSUME NEW segs \in Seq(Nat)
  PROVE  /\ \A i \in 1 .. Len(segs) : B!StartOf(segs, i) + segs[i] <= B!Length(segs)
         /\ \A p \in 0 .. B!Length(segs) - 1 :
              \E i \in 1 .. Len(segs) :
                B!StartOf(segs, i) <= p /\ p < B!StartOf(segs, i) + segs[i]
<1> DEFINE st(i) == B!StartOf(segs, i)
           n == Len(segs)
           l == B!Length(segs)
<1>1. /\ st(1) = 0 /\ st(n + 1) = l /\ l \in Nat /\ n \in Nat
      /\ \A i \in 1 .. n : /\ st(i) \in Nat /\ segs[i] \in Nat
                           /\ st(i + 1) = st(i) + segs[i]
  BY Starts
<1> HIDE DEF st, l, n
<1>2. ASSUME NEW i \in 1 .. n PROVE st(i) + segs[i] <= l
  <2> DEFINE F == {k \in Nat : k <= n /\ ~(st((n + 1) - k) <= l)}
  <2>1. F = {}
    <3> SUFFICES ASSUME F # {} PROVE FALSE
      OBVIOUS
    <3>1. F \subseteq Nat  OBVIOUS
    <3>2. PICK k \in F : \A y \in F : k <= y
      <4> HIDE DEF F
      <4> QED BY <3>1, LeastNumber
    <3>3. k # 0  BY <1>1
    <3> DEFINE j == (n + 1) - k
    <3>4. k \in Nat /\ k <= n /\ ~(st(j) <= l)  OBVIOUS
    <3>5. j \in 1 .. n /\ j + 1 = (n + 1) - (k - 1)  BY <1>1, <3>3, <3>4
    <3>6. k - 1 \in Nat /\ k - 1 <= n /\ ~(k <= k - 1)  BY <1>1, <3>3, <3>4
    <3>7. k - 1 \notin F  BY <3>2, <3>6
    <3>8. st(j + 1) <= l  BY <3>5, <3>6, <3>7
    <3>9. st(j) \in Nat /\ segs[j] \in Nat /\ st(j + 1) = st(j) + segs[j]  BY <1>1, <3>5
    <3> HIDE DEF j, F
    <3> QED BY <1>1, <3>4, <3>8, <3>9
  <2> DEFINE k == n - i
  <2>2. k \in Nat /\ k <= n /\ (n + 1) - k = i + 1  BY <1>1
  <2>3. st(i + 1) <= l  BY <2>1, <2>2
  <2> QED BY <1>1, <2>3
<1>3. ASSUME NEW p \in 0 .. l - 1
      PROVE  \E i \in 1 .. n : st(i) <= p /\ p < st(i) + segs[i]
  <2> DEFINE F == {j \in 1 .. n + 1 : p < st(j)}
  <2>1. n + 1 \in F /\ F \subseteq Nat  BY <1>1
  <2>2. PICK j \in F : \A y \in F : j <= y
    <3> HIDE DEF F
    <3> QED BY <2>1, LeastNumber
  <2>3. j \in 1 .. n + 1 /\ p < st(j)  OBVIOUS
  <2>4. j # 1  BY <1>1, <2>3
  <2> DEFINE i == j - 1
  <2>5. i \in 1 .. n /\ i + 1 = j /\ ~(j <= i) /\ i \in 1 .. n + 1  BY <1>1, <2>3, <2>4
  <2>6. i \notin F  BY <2>2, <2>5
  <2>7. ~(p < st(i))  BY <2>5, <2>6
  <2>8. st(j) = st(i) + segs[i] /\ st(i) \in Nat  BY <1>1, <2>5
  <2> HIDE DEF i, F
  <2> QED BY <1>1, <2>3, <2>5, <2>7, <2>8
<1> QED BY <1>2, <1>3 DEF st, l, n

\* With segments of one length each starts where as many of them have gone before.
LEMMA StartsEven ==
  ASSUME NEW segs \in Seq(Nat), \A i \in 1 .. Len(segs) : segs[i] = segs[1]
  PROVE  \A i \in 1 .. Len(segs) : B!StartOf(segs, i) = (i - 1) * segs[1]
<1> DEFINE st(i) == B!StartOf(segs, i)
           n == Len(segs)
           a == segs[1]
           F == {i \in 1 .. n : st(i) # (i - 1) * a}
<1> SUFFICES ASSUME F # {} PROVE FALSE
  OBVIOUS
<1>1. F \subseteq Nat  OBVIOUS
<1>2. PICK i \in F : \A y \in F : i <= y
  <2> HIDE DEF F
  <2> QED BY <1>1, LeastNumber
<1>3. n \in Nat /\ i \in 1 .. n /\ st(i) # (i - 1) * a  OBVIOUS
<1>4. a \in Nat  BY <1>3
<1>5. i # 1  BY <1>3, <1>4, Starts
<1> DEFINE j == i - 1
<1>6. j \in 1 .. n /\ j + 1 = i /\ ~(i <= j)  BY <1>3, <1>5
<1>7. st(j + 1) = st(j) + segs[j]  BY <1>6, Starts
<1>8. segs[j] = a  BY <1>6
<1>9. st(j) = (j - 1) * a  BY <1>2, <1>6
<1> HIDE DEF st, n, a, F
<1>10. st(i) = (j - 1) * a + a  BY <1>6, <1>7, <1>8, <1>9
<1>11. (j - 1) * a + a = (i - 1) * a
  <2>1. j \in Int /\ j = i - 1 /\ i \in Int  BY <1>3, <1>6
  <2>2. \A x, y \in Int : (x - 1) * y + y = x * y
    <3> SUFFICES ASSUME NEW x \in Int, NEW y \in Int PROVE (x - 1) * y + y = x * y
      OBVIOUS
    <3>1. (x - 1) * y = x * y - y  OBVIOUS
    <3> QED BY <3>1
  <2> HIDE DEF j
  <2>3. (j - 1) * a + a = j * a  BY <1>4, <2>1, <2>2
  <2> QED BY <2>1, <2>3
<1> QED BY <1>3, <1>10, <1>11

Evenly(segs) == request_mode = "simple" \/ \A i \in DOMAIN segs : segs[i] = segs[1]

\* What the disk is asked for then: each segment where it belongs.
LEMMA ChunkIs ==
  ASSUME NEW segs \in Seq(Nat), Evenly(segs), NEW first \in Nat, NEW i \in 1 .. Len(segs)
  PROVE  B!Chunk(first, segs, i) = [sector |-> first + B!StartOf(segs, i), nsect |-> segs[i]]
<1>1. CASE request_mode = "simple"  BY <1>1 DEF B!Chunk
<1>2. CASE request_mode # "simple"
  <2>1. \A k \in 1 .. Len(segs) : segs[k] = segs[1]  BY <1>2 DEF Evenly
  <2>2. B!StartOf(segs, i) = (i - 1) * segs[1] /\ segs[i] = segs[1]  BY <2>1, StartsEven
  <2> QED BY <1>2, <2>2 DEF B!Chunk
<1> QED BY <1>1, <1>2

\* What is moved then: every place of the bio, to or from its own sector.
LEMMA Moved ==
  ASSUME NEW segs \in Seq(Nat), Evenly(segs), NEW first \in Nat,
         first + B!Length(segs) <= Sectors
  PROVE  B!sbull_transfer(first, segs) = {<<first + p, p>> : p \in 0 .. B!Length(segs) - 1}
<1> DEFINE l == B!Length(segs)
           st(i) == B!StartOf(segs, i)
           of(i) == {<<first + st(i) + k, st(i) + k>> : k \in 0 .. segs[i] - 1}
<1>1. l \in Nat /\ Len(segs) \in Nat /\ DOMAIN segs = 1 .. Len(segs)  BY Starts
<1>2. \A i \in 1 .. Len(segs) : st(i) \in Nat /\ segs[i] \in Nat /\ st(i) + segs[i] <= l
  BY Starts, StartsCover
<1>3. B!sbull_transfer(first, segs) = UNION {of(i) : i \in 1 .. Len(segs)}
  <2> DEFINE asked(i) ==
               LET c == B!Chunk(first, segs, i) IN
                 IF c.sector + c.nsect > Sectors THEN {}
                 ELSE {<<c.sector + k, IF k < segs[i] THEN B!StartOf(segs, i) + k ELSE -1>> :
                         k \in 0 .. c.nsect - 1}
  <2>0. B!sbull_transfer(first, segs) = UNION {asked(i) : i \in DOMAIN segs}
    BY DEF B!sbull_transfer
  <2>1. ASSUME NEW i \in 1 .. Len(segs) PROVE asked(i) = of(i)
    <3> DEFINE c == B!Chunk(first, segs, i)
               s == st(i)
               n == segs[i]
    <3>1. c = [sector |-> first + s, nsect |-> n]  BY ChunkIs
    <3>2. c.sector = first + s /\ c.nsect = n  BY <3>1
    <3>3. s \in Nat /\ n \in Nat /\ s + n <= l  BY <1>2
    <3> HIDE DEF c, s, n, l
    <3>4. ~(c.sector + c.nsect > Sectors)
      BY <3>2, <3>3, <1>1, SectorsAssumption DEF l
    <3>5. {<<c.sector + k, IF k < n THEN s + k ELSE -1>> : k \in 0 .. c.nsect - 1}
            = {<<first + s + k, s + k>> : k \in 0 .. n - 1}
      <4>1. \A k \in 0 .. n - 1 : k < n /\ c.sector + k = first + s + k
        BY <3>2, <3>3
      <4>2. \A k \in 0 .. n - 1 : <<c.sector + k, IF k < n THEN s + k ELSE -1>>
                                    = <<first + s + k, s + k>>
        BY <4>1
      <4> QED BY <3>2, <4>2
    <3> QED BY <3>4, <3>5 DEF c, s, n
  <2> HIDE DEF of, asked
  <2> QED BY <1>1, <2>0, <2>1
<1>4. ASSUME NEW m \in UNION {of(i) : i \in 1 .. Len(segs)}
      PROVE  m \in {<<first + p, p>> : p \in 0 .. l - 1}
  <2>1. PICK i \in 1 .. Len(segs) : m \in of(i)  OBVIOUS
  <2>2. PICK k \in 0 .. segs[i] - 1 : m = <<first + st(i) + k, st(i) + k>>  BY <2>1
  <2>3. st(i) \in Nat /\ segs[i] \in Nat /\ st(i) + segs[i] <= l  BY <1>2
  <2> DEFINE p == st(i) + k
  <2> HIDE DEF st, l
  <2>a. k \in Nat /\ k < segs[i]  BY <2>3
  <2>b. p \in Nat /\ p < l
    <3> DEFINE s == st(i)
               n == segs[i]
    <3>1. s \in Nat /\ n \in Nat /\ s + n <= l /\ k \in Nat /\ k < n /\ l \in Nat
      BY <1>1, <2>3, <2>a
    <3> HIDE DEF s, n
    <3>2. s + k \in Nat /\ s + k < l  BY <3>1
    <3> QED BY <3>2 DEF s
  <2>c. first + st(i) + k = first + p  BY <2>3, <2>a
  <2> HIDE DEF p
  <2>4. p \in 0 .. l - 1 /\ first + st(i) + k = first + p  BY <1>1, <2>b, <2>c
  <2>5. m = <<first + p, p>>  BY <2>2, <2>4 DEF p
  <2> QED BY <2>4, <2>5
<1>5. ASSUME NEW p \in 0 .. l - 1
      PROVE  <<first + p, p>> \in UNION {of(i) : i \in 1 .. Len(segs)}
  <2>1. PICK i \in 1 .. Len(segs) : st(i) <= p /\ p < st(i) + segs[i]  BY StartsCover
  <2>2. st(i) \in Nat /\ segs[i] \in Nat  BY <1>2
  <2> DEFINE k == p - st(i)
  <2>a. p \in Int  BY <1>1
  <2> HIDE DEF st, l
  <2>3. k \in 0 .. segs[i] - 1 /\ first + st(i) + k = first + p /\ st(i) + k = p
    BY <2>a, <2>1, <2>2
  <2> HIDE DEF k
  <2>4. <<first + p, p>> = <<first + st(i) + k, st(i) + k>>  BY <2>3
  <2>5. <<first + p, p>> \in of(i)  BY <2>3, <2>4
  <2> HIDE DEF of
  <2> QED BY <2>5
<1> HIDE DEF l, of
<1>6. UNION {of(i) : i \in 1 .. Len(segs)} = {<<first + p, p>> : p \in 0 .. l - 1}
  BY <1>4, <1>5
<1> QED BY <1>3, <1>6 DEF l

DataInv == uneven \in BOOLEAN /\ B!DataKept

\* An empty disk holds what it should.
LEMMA DataInit == B!Init => DataInv
  BY DEF B!Init, B!BytesInit, DataInv, B!DataKept

\* A write puts the bytes where they belong ...
LEMMA DataWritten ==
  ASSUME NEW segs \in Seq(Nat), Evenly(segs), NEW first \in Nat,
         first + B!Length(segs) <= Sectors,
         data = wanted, B!Write(first, segs)
  PROVE  data' = wanted'
<1> DEFINE l == B!Length(segs)
           moved == B!sbull_transfer(first, segs)
<1>1. moved = {<<first + p, p>> : p \in 0 .. l - 1} /\ l \in Nat  BY Moved, Starts
<1>2. data' = [s \in DOMAIN data |->
                  IF \E m \in moved : m[1] = s
                    THEN LET m == CHOOSE m \in moved : m[1] = s IN
                           IF m[2] = -1 THEN B!Past ELSE <<writes', m[2]>>
                    ELSE data[s]]
  BY DEF B!Write
<1>3. wanted' = [s \in DOMAIN wanted |->
                  IF s \in first .. first + l - 1
                    THEN <<writes', s - first>> ELSE wanted[s]]
  BY DEF B!Write
<1> HIDE DEF moved, l
<1>4. ASSUME NEW s, \E m \in moved : m[1] = s
      PROVE  /\ s \in first .. first + l - 1
             /\ (CHOOSE m \in moved : m[1] = s) = <<s, s - first>>
  <2> DEFINE c == CHOOSE m \in moved : m[1] = s
  <2>1. c \in moved /\ c[1] = s  BY <1>4
  <2> HIDE DEF c
  <2>2. PICK p \in 0 .. l - 1 : c = <<first + p, p>>  BY <1>1, <2>1
  <2>3. s = first + p  BY <2>1, <2>2
  <2>4. p = s - first /\ s \in first .. first + l - 1  BY <1>1, <2>3
  <2> QED BY <2>2, <2>3, <2>4 DEF c
<1>5. ASSUME NEW s \in first .. first + l - 1
      PROVE  \E m \in moved : m[1] = s
  <2> DEFINE p == s - first
  <2>1. p \in 0 .. l - 1 /\ first + p = s  BY <1>1
  <2> HIDE DEF p
  <2>2. <<first + p, p>> \in moved  BY <1>1, <2>1
  <2> QED BY <2>1, <2>2
<1>6. ASSUME NEW s \in DOMAIN data PROVE data'[s] = wanted'[s]
  <2>1. CASE \E m \in moved : m[1] = s
    <3> DEFINE m == CHOOSE m \in moved : m[1] = s
    <3>1. s \in first .. first + l - 1 /\ m = <<s, s - first>>  BY <1>4, <2>1
    <3>2. m[2] = s - first /\ ~(m[2] = -1)  BY <1>1, <3>1
    <3>3. data'[s] = IF m[2] = -1 THEN B!Past ELSE <<writes', m[2]>>  BY <1>2, <2>1
    <3>4. wanted'[s] = <<writes', s - first>>  BY <1>3, <3>1
    <3> HIDE DEF m
    <3> QED BY <3>2, <3>3, <3>4
  <2>2. CASE ~ \E m \in moved : m[1] = s
    <3>1. s \notin first .. first + l - 1  BY <1>5, <2>2
    <3> QED BY <1>2, <1>3, <2>2, <3>1
  <2> QED BY <2>1, <2>2
<1>7. DOMAIN data' = DOMAIN data /\ DOMAIN wanted' = DOMAIN data
  <2>1. DOMAIN data' = DOMAIN data  BY <1>2
  <2>2. DOMAIN wanted' = DOMAIN wanted  BY <1>3
  <2> QED BY <2>1, <2>2
<1>8. data' = [s \in DOMAIN data' |-> data'[s]]  BY <1>2
<1>9. wanted' = [s \in DOMAIN wanted' |-> wanted'[s]]  BY <1>3
<1> QED BY <1>6, <1>7, <1>8, <1>9

\* ... and a read finds them there.
LEMMA DataRead ==
  ASSUME NEW segs \in Seq(Nat), Evenly(segs), NEW first \in Nat,
         first + B!Length(segs) <= Sectors,
         data = wanted, B!Read(first, segs)
  PROVE  ~misread'
<1>1. B!sbull_transfer(first, segs) = {<<first + p, p>> : p \in 0 .. B!Length(segs) - 1}
  BY Moved
<1> DEFINE moved == B!sbull_transfer(first, segs)
           l == B!Length(segs)
<1>2. misread' = ~ \A p \in 0 .. l - 1 :
                    \E m \in moved : m[2] = p /\ data[m[1]] = wanted[first + p]
  BY DEF B!Read
<1>3. moved = {<<first + p, p>> : p \in 0 .. l - 1}  BY <1>1
<1> HIDE DEF moved, l
<1>4. ASSUME NEW p \in 0 .. l - 1
      PROVE  \E m \in moved : m[2] = p /\ data[m[1]] = wanted[first + p]
  <2> DEFINE m == <<first + p, p>>
  <2>1. m \in moved /\ m[1] = first + p /\ m[2] = p  BY <1>3
  <2> HIDE DEF m
  <2> QED BY <2>1
<1> QED BY <1>2, <1>4

\* What is on the disk after a step is what should be there.
LEMMA DataStep == DataInv /\ B!Next => DataInv'
<1> SUFFICES ASSUME DataInv, B!Next PROVE DataInv'
  OBVIOUS
<1>1. CASE B!Request
  <2>0. PICK segs \in Segments : \E first \in 0 .. Sectors - B!Length(segs) :
          B!Write(first, segs) \/ B!Read(first, segs)
    BY <1>1 DEF B!Request
  <2>1. PICK first \in 0 .. Sectors - B!Length(segs) :
          B!Write(first, segs) \/ B!Read(first, segs)
    BY <2>0
  <2>2. request_mode' = request_mode  BY <1>1 DEF B!Request
  <2>3. segs \in Seq(Nat)
    <3>1. segs \in Seq(Nat \ {0})  BY SegmentsAre
    <3>2. Len(segs) \in Nat /\ segs \in [1 .. Len(segs) -> Nat]  BY <3>1
    <3> QED BY <3>2
  <2>4. first \in Nat /\ first + B!Length(segs) <= Sectors
    <3>1. B!Length(segs) \in Nat  BY <2>3, Starts
    <3> QED BY <3>1, SectorsAssumption
  <2>5. uneven' = (uneven \/ \E i \in DOMAIN segs : segs[i] # segs[1])
    BY <2>1 DEF B!Write, B!Read, B!Note
  <2>6. uneven' \in BOOLEAN  BY <2>5
  <2>7. ASSUME request_mode' = "simple" \/ ~uneven' PROVE data' = wanted' /\ ~misread'
    <3>1. Evenly(segs) /\ (request_mode = "simple" \/ ~uneven)
      BY <2>2, <2>5, <2>7 DEF Evenly
    <3>2. data = wanted /\ ~misread  BY <3>1 DEF DataInv, B!DataKept
    <3>3. CASE B!Write(first, segs)
      <4>1. data' = wanted'  BY <2>3, <2>4, <3>1, <3>2, <3>3, DataWritten
      <4>2. misread' = misread  BY <3>3 DEF B!Write
      <4> QED BY <3>2, <4>1, <4>2
    <3>4. CASE B!Read(first, segs)
      <4>1. ~misread'  BY <2>3, <2>4, <3>1, <3>2, <3>4, DataRead
      <4>2. data' = data /\ wanted' = wanted  BY <3>4 DEF B!Read
      <4> QED BY <3>2, <4>1, <4>2
    <3> QED BY <2>1, <3>3, <3>4
  <2> QED BY <2>6, <2>7 DEF DataInv, B!DataKept
<1>2. CASE B!setup_device  BY <1>2 DEF B!setup_device, DataInv, B!DataKept
<1>3. CASE B!sbull_exit  BY <1>3 DEF B!sbull_exit, B!bytes, DataInv, B!DataKept
<1>4. CASE B!sbull_invalidate
  BY <1>4 DEF B!sbull_invalidate, B!InvalidateStart, B!InvalidateMark, B!bytes,
              DataInv, B!DataKept
<1>5. ASSUME NEW u \in Files, B!sbull_open(u) PROVE DataInv'
  <2>1. CASE B!OpenSync(u)  BY <2>1 DEF B!OpenSync, B!bytes, DataInv, B!DataKept
  <2>2. CASE B!OpenCheck(u)  BY <2>2 DEF B!OpenCheck, DataInv, B!DataKept
  <2> QED BY <1>5, <2>1, <2>2 DEF B!sbull_open
<1>6. ASSUME NEW u \in Files, B!sbull_release(u) PROVE DataInv'
  BY <1>6 DEF B!sbull_release, B!bytes, DataInv, B!DataKept
<1> QED BY <1>1, <1>2, <1>3, <1>4, <1>5, <1>6 DEF B!Next

-----------------------------------------------------------------------------
(***************************************************************************)
(* tiny_serial: what was written is sent once, in order.                   *)
(***************************************************************************)
SerialTypes ==
  /\ fifosize \in Int
  /\ xmit \in [0..(Size - 1) -> Nat] /\ xhead \in 0..(Size - 1) /\ xtail \in 0..(Size - 1)
  /\ written \in Nat /\ dropped \in Nat /\ tx \in Seq(Nat)

\* The characters that wait in the buffer.
SerialPending == IF xhead >= xtail THEN xhead - xtail ELSE xhead - xtail + Size

\* Where the i-th of them stands, from 0 on.
SerialPlace(i) == IF xtail + i < Size THEN xtail + i ELSE xtail + i - Size

\* The characters that wait are the last that were written, in order, and what was
\* sent was written before them, in order too.
SerialInOrder ==
  /\ \A i \in 0..(SerialPending - 1) :
       xmit[SerialPlace(i)] = written - SerialPending + 1 + i
  /\ \A i \in 1..Len(tx) : tx[i] <= written - SerialPending
  /\ \A i, j \in 1..Len(tx) : i < j => tx[i] < tx[j]
  /\ written = Len(tx) + SerialPending + dropped

SerialInv == SerialTypes /\ SerialInOrder

\* What the remainders of tiny_serial's places come to.
LEMMA SerialRemainder ==
  ASSUME NEW d \in (1 - Size)..(2 * Size - 1)
  PROVE  d % Size = IF d < 0 THEN d + Size ELSE IF d < Size THEN d ELSE d - Size
BY SerialAssumption

\* uart_circ_chars_pending counts the characters that wait.
LEMMA SerialCount ==
  SerialTypes => /\ S!Pending = SerialPending
                 /\ SerialPending \in 0..(Size - 1)
<1> SUFFICES ASSUME SerialTypes
             PROVE  S!Pending = SerialPending /\ SerialPending \in 0..(Size - 1)
  OBVIOUS
<1> DEFINE d == xhead - xtail
<1>1. d \in (1 - Size)..(Size - 1) /\ Size \in Nat \ {0}  BY SerialAssumption DEF SerialTypes
<1>2. SerialPending = IF d < 0 THEN d + Size ELSE d  BY DEF SerialPending, SerialTypes
<1>3. S!Pending = d % Size  BY DEF S!Pending
<1> HIDE DEF d
<1>4. d \in (1 - Size)..(2 * Size - 1)  BY <1>1
<1>5. d % Size = IF d < 0 THEN d + Size ELSE IF d < Size THEN d ELSE d - Size
  BY <1>4, SerialRemainder
<1> QED BY <1>1, <1>2, <1>3, <1>5

\* The port begins with nothing written.
LEMMA SerialInit == S!Init => SerialInv
<1> SUFFICES ASSUME S!Init PROVE SerialInv
  OBVIOUS
<1>1. SerialTypes  BY SerialAssumption DEF S!Init, SerialTypes
<1>2. SerialPending = 0 /\ Len(tx) = 0  BY DEF S!Init, SerialPending
<1>3. SerialInOrder  BY <1>2 DEF S!Init, SerialInOrder
<1> QED BY <1>1, <1>3 DEF SerialInv

\* A character that is written goes behind those that wait.
LEMMA SerialWrite == SerialInv /\ S!uart_write => SerialInv'
<1> SUFFICES ASSUME SerialInv, S!uart_write PROVE SerialInv'
  OBVIOUS
<1> USE SerialAssumption DEF SerialInv
<1> DEFINE p == SerialPending
           h == xhead + 1
<1>1. p < Size - 1 /\ p \in 0..(Size - 1) /\ p \in Int
  BY SerialCount DEF S!uart_write
<1>2. /\ xmit' = [xmit EXCEPT ![xhead] = written + 1] /\ xhead' = h % Size
      /\ written' = written + 1 /\ UNCHANGED <<fifosize, xtail, dropped, tx>>
  BY DEF S!uart_write, S!port
<1>3. h \in (1 - Size)..(2 * Size - 1) /\ h \in 1..Size  BY DEF SerialTypes
<1>4. xhead' = IF xhead + 1 < Size THEN xhead + 1 ELSE 0
  <2> HIDE DEF h
  <2>1. h % Size = IF h < 0 THEN h + Size ELSE IF h < Size THEN h ELSE h - Size
    BY <1>3, SerialRemainder
  <2> QED BY <1>2, <1>3, <2>1 DEF h
<1>5. SerialTypes'  BY <1>2, <1>4 DEF SerialTypes
<1>6. SerialPending' = p + 1
  <2>1. xtail' = xtail  BY <1>2
  <2> QED BY <1>1, <1>4, <2>1 DEF SerialPending, SerialTypes
<1>7. ASSUME NEW i \in 0..p
      PROVE  /\ SerialPlace(i)' = SerialPlace(i) /\ SerialPlace(i) \in 0..(Size - 1)
             /\ SerialPlace(i) = xhead <=> i = p
  BY <1>1, <1>2 DEF SerialPlace, SerialPending, SerialTypes
<1>8. ASSUME NEW i \in 0..p PROVE xmit'[SerialPlace(i)'] = written - p + 1 + i
  <2>1. CASE i = p  BY <2>1, <1>1, <1>2, <1>7 DEF SerialTypes
  <2>2. CASE i # p
    <3>1. i \in 0..(p - 1)  BY <2>2, <1>1
    <3>2. xmit'[SerialPlace(i)'] = xmit[SerialPlace(i)]
      BY <2>2, <1>2, <1>7 DEF SerialTypes
    <3> QED BY <3>1, <3>2 DEF SerialInOrder
  <2> QED BY <2>1, <2>2
<1>9. SerialInOrder'
  <2> HIDE DEF p
  <2>1. written' - SerialPending' = written - p /\ 0..(SerialPending' - 1) = 0..p
    BY <1>1, <1>2, <1>6 DEF SerialTypes
  <2>2. \A i \in 0..(SerialPending' - 1) :
          xmit'[SerialPlace(i)'] = written' - SerialPending' + 1 + i
    BY <1>8, <2>1
  <2>3. \A i \in 1..Len(tx) : tx[i] <= written - p  BY DEF SerialInOrder, p
  <2>4. Len(tx) \in Nat  BY DEF SerialTypes
  <2>5. written' = Len(tx) + SerialPending' + dropped
    BY <1>1, <1>2, <1>6, <2>4 DEF SerialInOrder, SerialTypes, p
  <2> QED BY <1>2, <2>1, <2>2, <2>3, <2>5 DEF SerialInOrder
<1> QED BY <1>5, <1>9

\* The timer sends the characters that wait from the first on.
LEMMA SerialSend == SerialInv /\ S!tiny_timer => SerialInv'
<1> SUFFICES ASSUME SerialInv, S!tiny_timer PROVE SerialInv'
  OBVIOUS
<1> USE SerialAssumption DEF SerialInv
<1> DEFINE p == SerialPending
<1>1. p \in 0..(Size - 1) /\ p \in Int /\ S!Pending = p
  BY SerialCount
<1>2. UNCHANGED <<fifosize, xmit, xhead, written, dropped>>  BY DEF S!tiny_timer
<1>3. CASE UNCHANGED <<xtail, tx>>
  BY <1>2, <1>3 DEF SerialTypes, SerialInOrder, SerialPending, SerialPlace
<1>4. CASE /\ p # 0 /\ tx' = tx \o [i \in 1..S!Burst |-> xmit[(xtail + i - 1) % Size]]
           /\ xtail' = (xtail + S!Burst) % Size
  <2>a. S!Burst \in 1..p
    <3>1. fifosize \div 2 \in Int  BY DEF SerialTypes
    <3>2. S!Atleast1(fifosize \div 2) \in Nat \ {0}  BY <3>1 DEF S!Atleast1
    <3> QED BY <3>2, <1>1, <1>4 DEF S!Burst
  <2>1. PICK b \in 1..p : /\ tx' = tx \o [i \in 1..b |-> xmit[(xtail + i - 1) % Size]]
                          /\ xtail' = (xtail + b) % Size
    BY <1>4, <2>a
  <2> DEFINE seg == [i \in 1..b |-> xmit[(xtail + i - 1) % Size]]
  <2>2. tx' = tx \o seg  BY <2>1
  <2>3. xtail' = (xtail + b) % Size  BY <2>1
  <2>b. b \in 1..p /\ b \in Int  BY <1>1
  <2>4. xtail' = IF xtail + b < Size THEN xtail + b ELSE (xtail + b) - Size
    <3> DEFINE d == xtail + b
    <3>1. d \in (1 - Size)..(2 * Size - 1) /\ d \in 0..(2 * Size - 1)
      BY <1>1, <2>b DEF SerialTypes
    <3>2. xtail' = d % Size  BY <2>3
    <3> SUFFICES xtail' = IF d < Size THEN d ELSE d - Size
      OBVIOUS
    <3> HIDE DEF d
    <3>3. d % Size = IF d < 0 THEN d + Size ELSE IF d < Size THEN d ELSE d - Size
      BY <3>1, SerialRemainder
    <3> QED BY <3>1, <3>2, <3>3
  <2>5. ASSUME NEW i \in 1..b PROVE seg[i] = written - p + i
    <3> DEFINE d == xtail + i - 1
               j == i - 1
    <3>1. d \in (1 - Size)..(2 * Size - 1) /\ d \in 0..(2 * Size - 1) /\ j \in 0..(p - 1)
      BY <1>1, <2>b DEF SerialTypes
    <3>2. seg[i] = xmit[d % Size]  OBVIOUS
    <3>3. SerialPlace(j) = IF d < Size THEN d ELSE d - Size
      BY <2>b DEF SerialPlace, SerialTypes
    <3>4. xmit[SerialPlace(j)] = written - p + 1 + j  BY <3>1 DEF SerialInOrder
    <3>5. written - p + 1 + j = written - p + i  BY <1>1, <2>b DEF SerialTypes
    <3> HIDE DEF d, j, seg
    <3>6. d % Size = IF d < 0 THEN d + Size ELSE IF d < Size THEN d ELSE d - Size
      BY <3>1, SerialRemainder
    <3> QED BY <3>1, <3>2, <3>3, <3>4, <3>5, <3>6
  <2>6. seg \in Seq(Nat) /\ Len(seg) = b
    <3>1. written - p \in Nat
      <4>1. Len(tx) \in Nat  BY DEF SerialTypes
      <4> QED BY <4>1, <1>1 DEF SerialInOrder, SerialTypes
    <3>2. \A i \in 1..b : seg[i] \in Nat  BY <2>b, <2>5, <3>1
    <3> QED BY <2>b, <3>2
  <2> HIDE DEF seg
  <2>7. SerialTypes'
    <3>1. tx' \in Seq(Nat)  BY <2>2, <2>6 DEF SerialTypes
    <3> QED BY <1>1, <1>2, <2>b, <2>4, <3>1 DEF SerialTypes
  <2>8. SerialPending' = p - b
    BY <1>1, <1>2, <2>b, <2>4 DEF SerialPending, SerialTypes
  <2>9. ASSUME NEW i \in 0..(p - b - 1)
        PROVE  xmit'[SerialPlace(i)'] = written - (p - b) + 1 + i
    <3> DEFINE j == i + b
    <3>1. j \in 0..(p - 1)  BY <1>1, <2>b
    <3>2. SerialPlace(i)' = SerialPlace(j)
      BY <1>1, <2>b, <2>4 DEF SerialPlace, SerialTypes
    <3>3. xmit[SerialPlace(j)] = written - p + 1 + j  BY <3>1 DEF SerialInOrder
    <3>4. written - p + 1 + j = written - (p - b) + 1 + i  BY <1>1, <2>b DEF SerialTypes
    <3> QED BY <1>2, <3>2, <3>3, <3>4
  <2>10. /\ Len(tx) \in Nat /\ Len(tx') = Len(tx) + b
         /\ \A i \in 1..Len(tx) : tx'[i] = tx[i]
         /\ \A i \in 1..b : tx'[Len(tx) + i] = seg[i]
    BY <2>b, <2>2, <2>6 DEF SerialTypes
  <2>11. ASSUME NEW i \in 1..Len(tx')
         PROVE  \/ i \in 1..Len(tx) /\ tx'[i] = tx[i]
                \/ i > Len(tx) /\ tx'[i] = written - p + (i - Len(tx))
    <3>1. CASE i <= Len(tx)  BY <3>1, <2>10
    <3>2. CASE i > Len(tx)
      <4> DEFINE k == i - Len(tx)
      <4>1. k \in 1..b /\ i = Len(tx) + k  BY <3>2, <2>b, <2>10
      <4> HIDE DEF k
      <4>2. tx'[i] = written - p + k  BY <4>1, <2>5, <2>10
      <4> QED BY <3>2, <4>2 DEF k
    <3> QED BY <3>1, <3>2, <2>10
  <2>12. /\ \A i \in 1..Len(tx) : tx[i] <= written - p
         /\ \A i, j \in 1..Len(tx) : i < j => tx[i] < tx[j]
         /\ written = Len(tx) + p + dropped
         /\ \A i \in 1..Len(tx) : tx[i] \in Int
    BY DEF SerialInOrder, SerialTypes
  <2> HIDE DEF p
  <2>13. written \in Int /\ dropped \in Int /\ written' = written /\ dropped' = dropped
    BY <1>2 DEF SerialTypes
  <2>14. \A i \in 1..Len(tx') : tx'[i] <= written' - SerialPending'
    <3> TAKE i \in 1..Len(tx')
    <3>1. CASE i \in 1..Len(tx) /\ tx'[i] = tx[i]
      BY <3>1, <1>1, <2>b, <2>8, <2>12, <2>13
    <3>2. CASE i > Len(tx) /\ tx'[i] = written - p + (i - Len(tx))
      <4>1. i - Len(tx) <= b  BY <3>2, <2>b, <2>10
      <4> QED BY <3>2, <4>1, <1>1, <2>b, <2>8, <2>10, <2>13
    <3> QED BY <3>1, <3>2, <2>11
  <2>15. \A i, j \in 1..Len(tx') : i < j => tx'[i] < tx'[j]
    <3> SUFFICES ASSUME NEW i \in 1..Len(tx'), NEW j \in 1..Len(tx'), i < j
                 PROVE  tx'[i] < tx'[j]
      OBVIOUS
    <3>1. CASE j \in 1..Len(tx) /\ tx'[j] = tx[j]
      <4>1. i \in 1..Len(tx)  BY <3>1, <2>10
      <4>2. tx'[i] = tx[i]  BY <4>1, <2>10
      <4> QED BY <3>1, <4>1, <4>2, <2>12
    <3>2. CASE j > Len(tx) /\ tx'[j] = written - p + (j - Len(tx))
      <4>1. CASE i \in 1..Len(tx) /\ tx'[i] = tx[i]
        <5>1. tx[i] <= written - p  BY <4>1, <2>12
        <5> QED BY <3>2, <4>1, <5>1, <1>1, <2>10, <2>12, <2>13
      <4>2. CASE i > Len(tx) /\ tx'[i] = written - p + (i - Len(tx))
        BY <3>2, <4>2, <1>1, <2>10, <2>13
      <4> QED BY <4>1, <4>2, <2>11
    <3> QED BY <3>1, <3>2, <2>11
  <2>16. written' = Len(tx') + SerialPending' + dropped'
    BY <1>1, <2>b, <2>8, <2>10, <2>12, <2>13
  <2>17. \A i \in 0..(SerialPending' - 1) :
           xmit'[SerialPlace(i)'] = written' - SerialPending' + 1 + i
    BY <2>8, <2>9, <2>13
  <2> QED BY <2>7, <2>14, <2>15, <2>16, <2>17 DEF SerialInOrder
<1> QED BY <1>1, <1>3, <1>4 DEF S!tiny_timer, S!tiny_tx_chars

\* Every step of tiny_serial keeps the order.
LEMMA SerialStep == SerialInv /\ S!Next => SerialInv'
<1> SUFFICES ASSUME SerialInv, S!Next PROVE SerialInv'
  OBVIOUS
<1>1. CASE S!tiny_startup
  BY <1>1 DEF S!tiny_startup, S!xbuf, S!chars, SerialInv, SerialTypes, SerialInOrder,
              SerialPending, SerialPlace
<1>2. CASE S!tiny_shutdown
  <2>1. /\ xhead' = 0 /\ xtail' = 0 /\ dropped' = dropped + SerialPending
        /\ UNCHANGED <<fifosize, xmit, written, tx>>
        /\ SerialPending \in 0..(Size - 1)
    BY <1>2, SerialCount DEF S!tiny_shutdown, SerialInv
  <2>2. SerialTypes'  BY <2>1, SerialAssumption DEF SerialInv, SerialTypes
  <2>3. SerialPending' = 0  BY <2>1 DEF SerialPending
  <2>4. Len(tx) \in Nat /\ \A i \in 1..Len(tx) : tx[i] \in Int
    BY DEF SerialInv, SerialTypes
  <2>5. SerialInOrder'
    BY <2>1, <2>3, <2>4 DEF SerialInv, SerialInOrder, SerialTypes
  <2> QED BY <2>2, <2>5 DEF SerialInv
<1>3. CASE S!uart_control
  <2>1. fifosize' \in Int
    BY <1>3, SerialAssumption DEF S!uart_control, SerialInv, SerialTypes
  <2> QED BY <1>3, <2>1 DEF S!uart_control, S!xbuf, S!chars, SerialInv, SerialTypes,
                           SerialInOrder, SerialPending, SerialPlace
<1> QED BY <1>1, <1>2, <1>3, SerialWrite, SerialSend DEF S!Next

-----------------------------------------------------------------------------
(***************************************************************************)
(* list: the chain of nodes and the members it stands for.                 *)
(***************************************************************************)
\* The nodes from hd on, as the model's Chain has them.
ChainFrom(nd, hd, sz) ==
  LET at[k \in 1..sz] == IF k = 1 THEN hd ELSE nd[at[k - 1]].next
  IN  at

\* The nodes nd are linked both ways in the order of c.
Linked(c, nd, hd, tl, sz) ==
  /\ sz \in Nat /\ c \in [1..sz -> DOMAIN nd]
  /\ \A k, l \in 1..sz : c[k] = c[l] => k = l
  /\ \A n \in DOMAIN nd : \E k \in 1..sz : c[k] = n
  /\ \A k \in 1..sz : /\ nd[c[k]].prev = IF k = 1 THEN Null ELSE c[k - 1]
                      /\ nd[c[k]].next = IF k = sz THEN Null ELSE c[k + 1]
  /\ sz > 0 => hd = c[1] /\ tl = c[sz]
  /\ sz = 0 => tl = Null

\* What satisfies the chain's equation is the chain: there is only one.
LEMMA ChainIs ==
  ASSUME NEW nd, NEW hd, NEW sz \in Nat, NEW c,
         c = [k \in 1..sz |-> IF k = 1 THEN hd ELSE nd[c[k - 1]].next]
  PROVE  ChainFrom(nd, hd, sz) = c
<1> DEFINE a == ChainFrom(nd, hd, sz)
<1>1. a = CHOOSE at : at = [k \in 1..sz |-> IF k = 1 THEN hd ELSE nd[at[k - 1]].next]
  BY DEF ChainFrom
<1>2. a = [k \in 1..sz |-> IF k = 1 THEN hd ELSE nd[a[k - 1]].next]
  BY <1>1
<1> HIDE DEF a
<1> DEFINE Off == {k \in 1..sz : a[k] # c[k]}
<1>3. Off = {}
  <2> SUFFICES ASSUME Off # {} PROVE FALSE
    OBVIOUS
  <2>1. Off \subseteq Nat  OBVIOUS
  <2>2. PICK x \in Off : \A y \in Off : x <= y
    <3> HIDE DEF Off
    <3> QED BY <2>1, LeastNumber
  <2>3. x \in 1..sz /\ a[x] # c[x]  OBVIOUS
  <2>4. a[x] = (IF x = 1 THEN hd ELSE nd[a[x - 1]].next)  BY <1>2, <2>3
  <2>5. c[x] = (IF x = 1 THEN hd ELSE nd[c[x - 1]].next)  BY <2>3
  <2>6. x # 1  BY <2>3, <2>4, <2>5
  <2>7. x - 1 \in 1..sz /\ x - 1 \notin Off  BY <2>2, <2>3, <2>6
  <2>8. a[x - 1] = c[x - 1]  BY <2>7
  <2> QED BY <2>3, <2>4, <2>5, <2>8
<1>4. \A k \in 1..sz : a[k] = c[k]  BY <1>3
<1>5. a = [k \in 1..sz |-> a[k]] /\ c = [k \in 1..sz |-> c[k]]
  BY <1>2
<1>6. a = c  BY <1>4, <1>5
<1> QED BY <1>6 DEF a

\* The order in which nodes are linked is their chain.
LEMMA LinkedChain ==
  ASSUME NEW c, NEW nd, NEW hd, NEW tl, NEW sz, Linked(c, nd, hd, tl, sz)
  PROVE  ChainFrom(nd, hd, sz) = c
<1>1. sz \in Nat /\ c \in [1..sz -> DOMAIN nd]  BY DEF Linked
<1>2. ASSUME NEW k \in 1..sz PROVE c[k] = IF k = 1 THEN hd ELSE nd[c[k - 1]].next
  <2>1. CASE k = 1  BY <1>1, <2>1 DEF Linked
  <2>2. CASE k # 1
    <3> DEFINE j == k - 1
    <3>1. j \in 1..sz /\ j # sz /\ j + 1 = k  BY <1>1, <2>2
    <3> HIDE DEF j
    <3>2. nd[c[j]].next = c[j + 1]  BY <3>1 DEF Linked
    <3> QED BY <2>2, <3>1, <3>2 DEF j
  <2> QED BY <2>1, <2>2
<1>3. c = [k \in 1..sz |-> IF k = 1 THEN hd ELSE nd[c[k - 1]].next]
  BY <1>1, <1>2
<1> QED BY <1>1, <1>3, ChainIs

\* As many nodes are linked as the chain is long.
LEMMA LinkedCount ==
  ASSUME NEW c, NEW nd, NEW hd, NEW tl, NEW sz, Linked(c, nd, hd, tl, sz)
  PROVE  Cardinality(DOMAIN nd) = sz
<1>1. sz \in Nat  BY DEF Linked
<1>2. c \in Bijection(1..sz, DOMAIN nd)
  BY DEF Linked, Bijection, Injection, Surjection, IsInjective
<1>3. IsFiniteSet(1..sz) /\ Cardinality(1..sz) = sz  BY <1>1, FS_Interval
<1> QED BY <1>2, <1>3, FS_Bijection DEF ExistsBijection

\* The chain with a node behind the p-th.
Longer(c, sz, p, n) ==
  [k \in 1..(sz + 1) |-> IF k <= p THEN c[k] ELSE IF k = p + 1 THEN n ELSE c[k - 1]]

\* The chain without its p-th node.
Shorter(c, sz, p) == [k \in 1..(sz - 1) |-> IF k < p THEN c[k] ELSE c[k + 1]]

\* A new node linked behind the p-th is the next in the chain.
LEMMA LinkBehind ==
  ASSUME NEW c, NEW nd, NEW hd, NEW tl, NEW sz, Linked(c, nd, hd, tl, sz),
         Null \notin DOMAIN nd,
         NEW p \in 1..sz, NEW n, n \notin DOMAIN nd, n # Null, NEW d, NEW new,
         DOMAIN new = DOMAIN nd \cup {n},
         new[n].next = nd[c[p]].next, new[n].prev = c[p],
         \A i \in DOMAIN nd :
           /\ i = c[p] => new[i].next = n /\ new[i].prev = nd[i].prev
           /\ i # c[p] /\ i = nd[c[p]].next => new[i].prev = n /\ new[i].next = nd[i].next
           /\ i # c[p] /\ i # nd[c[p]].next => new[i] = nd[i]
  PROVE  Linked(Longer(c, sz, p, n), new, hd, IF c[p] = tl THEN n ELSE tl, sz + 1)
<1> DEFINE e == Longer(c, sz, p, n)
           t == IF c[p] = tl THEN n ELSE tl
<1>1. sz \in Nat /\ p \in Nat /\ sz > 0 /\ sz + 1 \in Nat  BY DEF Linked
<1>2. \A k \in 1..sz : c[k] \in DOMAIN nd /\ c[k] # n /\ c[k] # Null  BY DEF Linked
<1>3. /\ \A k \in 1..(sz + 1) : k <= p => e[k] = c[k] /\ k \in 1..sz
      /\ e[p + 1] = n /\ p + 1 \in 1..(sz + 1)
      /\ \A k \in 1..(sz + 1) : k > p + 1 => e[k] = c[k - 1] /\ k - 1 \in 1..sz
      /\ e = [k \in 1..(sz + 1) |-> e[k]]
  BY <1>1 DEF Longer
<1> HIDE DEF e
<1>4. e \in [1..(sz + 1) -> DOMAIN new]
  <2>1. \A k \in 1..(sz + 1) : e[k] \in DOMAIN new
    BY <1>1, <1>2, <1>3
  <2> QED BY <1>3, <2>1
<1>5. \A k, l \in 1..sz : c[k] = c[l] => k = l  BY DEF Linked
<1>6. \A k, l \in 1..(sz + 1) : e[k] = e[l] => k = l
  <2> SUFFICES ASSUME NEW k \in 1..(sz + 1), NEW l \in 1..(sz + 1), e[k] = e[l] PROVE k = l
    OBVIOUS
  <2>1. CASE k <= p
    <3>1. CASE l <= p  BY <2>1, <3>1, <1>3, <1>5
    <3>2. CASE l = p + 1  BY <2>1, <3>2, <1>2, <1>3
    <3>3. CASE l > p + 1
      <4>1. k = l - 1  BY <2>1, <3>3, <1>3, <1>5
      <4> QED BY <2>1, <3>3, <4>1, <1>1
    <3> QED BY <3>1, <3>2, <3>3, <1>1
  <2>2. CASE k = p + 1
    <3>1. CASE l <= p  BY <2>2, <3>1, <1>2, <1>3
    <3>2. CASE l > p + 1  BY <2>2, <3>2, <1>2, <1>3
    <3> QED BY <2>2, <3>1, <3>2, <1>1
  <2>3. CASE k > p + 1
    <3>1. CASE l <= p
      <4>1. l = k - 1  BY <2>3, <3>1, <1>3, <1>5
      <4> QED BY <2>3, <3>1, <4>1, <1>1
    <3>2. CASE l = p + 1  BY <2>3, <3>2, <1>2, <1>3
    <3>3. CASE l > p + 1
      <4>1. k - 1 = l - 1  BY <2>3, <3>3, <1>3, <1>5
      <4> QED BY <4>1
    <3> QED BY <3>1, <3>2, <3>3, <1>1
  <2> QED BY <2>1, <2>2, <2>3, <1>1
<1>7. \A m \in DOMAIN new : \E k \in 1..(sz + 1) : e[k] = m
  <2> SUFFICES ASSUME NEW m \in DOMAIN new PROVE \E k \in 1..(sz + 1) : e[k] = m
    OBVIOUS
  <2>1. CASE m = n  BY <2>1, <1>3
  <2>2. CASE m # n
    <3>1. PICK k \in 1..sz : c[k] = m  BY <2>2 DEF Linked
    <3>2. CASE k <= p  BY <3>1, <3>2, <1>1, <1>3
    <3>3. CASE k > p
      <4> DEFINE j == k + 1
      <4>1. j \in 1..(sz + 1) /\ j > p + 1 /\ j - 1 = k  BY <3>3, <1>1
      <4> HIDE DEF j
      <4> QED BY <3>1, <4>1, <1>3
    <3> QED BY <3>2, <3>3, <1>1
  <2> QED BY <2>1, <2>2
<1>8. \A k \in 1..sz : /\ nd[c[k]].prev = IF k = 1 THEN Null ELSE c[k - 1]
                       /\ nd[c[k]].next = IF k = sz THEN Null ELSE c[k + 1]
  BY DEF Linked
<1>9. ASSUME NEW k \in 1..(sz + 1)
      PROVE  /\ new[e[k]].prev = IF k = 1 THEN Null ELSE e[k - 1]
             /\ new[e[k]].next = IF k = sz + 1 THEN Null ELSE e[k + 1]
  \* The node behind the p-th, if there is one.
  <2>a. nd[c[p]].next = IF p = sz THEN Null ELSE c[p + 1]  BY <1>8
  <2>1. CASE k < p
    <3>1. k \in 1..sz /\ k + 1 \in 1..sz /\ k # sz /\ k # sz + 1 /\ k <= p /\ k + 1 <= p
          /\ k + 1 \in 1..(sz + 1)
      BY <2>1, <1>1
    <3>2. e[k] = c[k] /\ e[k + 1] = c[k + 1]  BY <3>1, <1>3
    <3>3. c[k] # c[p]  BY <2>1, <3>1, <1>1, <1>5
    <3>4. c[k] # nd[c[p]].next
      <4>1. CASE p = sz  BY <4>1, <2>a, <3>1, <1>2
      <4>2. CASE p # sz
        <5>1. p + 1 \in 1..sz /\ p + 1 # k  BY <4>2, <2>1, <1>1
        <5> QED BY <4>2, <5>1, <2>a, <3>1, <1>5
      <4> QED BY <4>1, <4>2
    <3>5. new[c[k]] = nd[c[k]]  BY <3>1, <3>3, <3>4, <1>2
    <3>6. k # 1 => k - 1 \in 1..(sz + 1) /\ k - 1 <= p  BY <3>1, <1>1
    <3>7. k # 1 => e[k - 1] = c[k - 1]  BY <3>6, <1>3
    <3> QED BY <3>1, <3>2, <3>5, <3>7, <1>8
  <2>2. CASE k = p
    <3>1. k \in 1..sz /\ k # sz + 1 /\ e[k] = c[p] /\ e[k + 1] = n
      BY <2>2, <1>1, <1>3
    <3>2. new[c[p]].next = n /\ new[c[p]].prev = nd[c[p]].prev  BY <1>2
    <3>6. k # 1 => k - 1 \in 1..(sz + 1) /\ k - 1 <= p  BY <2>2, <3>1, <1>1
    <3>7. k # 1 => e[k - 1] = c[k - 1]  BY <3>6, <1>3
    <3> QED BY <2>2, <3>1, <3>2, <3>7, <1>8
  <2>3. CASE k = p + 1
    <3>1. e[k] = n /\ k # 1 /\ e[k - 1] = c[p]
      <4>1. p \in 1..(sz + 1) /\ p <= p /\ k - 1 = p  BY <2>3, <1>1
      <4> QED BY <2>3, <4>1, <1>1, <1>3
    <3>2. k # sz + 1 => e[k + 1] = c[p + 1] /\ p # sz
      <4> SUFFICES ASSUME k # sz + 1 PROVE e[k + 1] = c[p + 1] /\ p # sz
        OBVIOUS
      <4> DEFINE j == k + 1
      <4>1. j \in 1..(sz + 1) /\ j > p + 1 /\ j - 1 = p + 1 /\ p # sz  BY <2>3, <1>1
      <4> HIDE DEF j
      <4>2. e[j] = c[p + 1]  BY <4>1, <1>3
      <4> QED BY <4>1, <4>2 DEF j
    <3>3. k = sz + 1 => p = sz  BY <2>3, <1>1
    <3> QED BY <3>1, <3>2, <3>3, <2>a
  <2>4. CASE k > p + 1
    <3> DEFINE j == k - 1
    <3>1. j \in 1..sz /\ j + 1 = k /\ j > p /\ j # 1 /\ k # 1 /\ (j = sz <=> k = sz + 1)
      BY <2>4, <1>1
    <3>2. e[k] = c[j]  BY <2>4, <1>3
    <3> HIDE DEF j
    <3>3. c[j] # c[p]  BY <3>1, <1>1, <1>5
    <3>4. new[c[j]].next = nd[c[j]].next  BY <3>1, <3>3, <1>2
    <3>5. k # sz + 1 => e[k + 1] = c[j + 1]
      <4> SUFFICES ASSUME k # sz + 1 PROVE e[k + 1] = c[j + 1]
        OBVIOUS
      <4> DEFINE i == k + 1
      <4>1. i \in 1..(sz + 1) /\ i > p + 1 /\ i - 1 = j + 1  BY <2>4, <3>1, <1>1
      <4> HIDE DEF i
      <4>2. e[i] = c[j + 1]  BY <4>1, <1>3
      <4> QED BY <4>2 DEF i
    <3>6. new[e[k]].next = IF k = sz + 1 THEN Null ELSE e[k + 1]
      BY <3>1, <3>2, <3>4, <3>5, <1>8
    <3>7. CASE j = p + 1
      <4>1. p # sz /\ c[j] = nd[c[p]].next  BY <3>1, <3>7, <2>a, <1>1
      <4>2. new[c[j]].prev = n  BY <3>1, <3>3, <4>1, <1>2
      <4>3. e[k - 1] = n  BY <3>1, <3>7, <1>3 DEF j
      <4> QED BY <3>1, <3>2, <3>6, <4>2, <4>3
    <3>8. CASE j # p + 1
      <4>1. c[j] # nd[c[p]].next
        <5>1. CASE p = sz  BY <5>1, <2>a, <3>1, <1>2
        <5>2. CASE p # sz
          <6>1. p + 1 \in 1..sz  BY <5>2, <1>1
          <6> QED BY <5>2, <6>1, <2>a, <3>1, <3>8, <1>5
        <5> QED BY <5>1, <5>2
      <4>2. new[c[j]].prev = c[j - 1]  BY <3>1, <3>3, <4>1, <1>2, <1>8
      <4>3. j \in 1..(sz + 1) /\ j > p + 1 /\ j = k - 1  BY <3>1, <3>8, <1>1
      <4>4. e[j] = c[j - 1]  BY <4>3, <1>3
      <4> QED BY <3>1, <3>2, <3>6, <4>2, <4>3, <4>4
    <3> QED BY <3>7, <3>8
  <2> QED BY <2>1, <2>2, <2>3, <2>4, <1>1
<1>10. hd = e[1] /\ t = e[sz + 1]
  <2>1. hd = c[1] /\ tl = c[sz]  BY <1>1 DEF Linked
  <2>2. 1 \in 1..(sz + 1) /\ 1 <= p  BY <1>1
  <2>3. e[1] = c[1]  BY <2>2, <1>3
  <2>4. CASE p = sz  BY <2>1, <2>3, <2>4, <1>3
  <2>5. CASE p # sz
    <3> DEFINE j == sz + 1
    <3>1. j \in 1..(sz + 1) /\ j > p + 1 /\ j - 1 = sz  BY <2>5, <1>1
    <3> HIDE DEF j
    <3>2. e[j] = c[sz]  BY <3>1, <1>3
    <3>3. c[p] # tl  BY <2>1, <2>5, <1>1, <1>5
    <3> QED BY <2>1, <2>3, <3>2, <3>3 DEF j
  <2> QED BY <2>4, <2>5
<1> HIDE DEF t
<1>11. Linked(e, new, hd, t, sz + 1)
  BY <1>1, <1>4, <1>6, <1>7, <1>9, <1>10 DEF Linked
<1> QED BY <1>11 DEF e, t

\* The chain closes where a node is taken out of it.
LEMMA UnlinkAt ==
  ASSUME NEW c, NEW nd, NEW hd, NEW tl, NEW sz, Linked(c, nd, hd, tl, sz),
         Null \notin DOMAIN nd,
         NEW p \in 1..sz, NEW new, DOMAIN new = DOMAIN nd \ {c[p]},
         \A i \in DOMAIN new :
           /\ i = nd[c[p]].prev => new[i].next = nd[c[p]].next /\ new[i].prev = nd[i].prev
           /\ i # nd[c[p]].prev /\ i = nd[c[p]].next
                => new[i].prev = nd[c[p]].prev /\ new[i].next = nd[i].next
           /\ i # nd[c[p]].prev /\ i # nd[c[p]].next => new[i] = nd[i]
  PROVE  Linked(Shorter(c, sz, p), new, IF c[p] = hd THEN nd[c[p]].next ELSE hd,
                IF c[p] = tl THEN nd[c[p]].prev ELSE tl, sz - 1)
<1> DEFINE e == Shorter(c, sz, p)
           h == IF c[p] = hd THEN nd[c[p]].next ELSE hd
           t == IF c[p] = tl THEN nd[c[p]].prev ELSE tl
<1>1. sz \in Nat /\ p \in Nat /\ sz > 0 /\ sz - 1 \in Nat  BY DEF Linked
<1>2. \A k \in 1..sz : c[k] \in DOMAIN nd /\ c[k] # Null  BY DEF Linked
<1>3. /\ \A k \in 1..(sz - 1) : k < p => e[k] = c[k] /\ k \in 1..sz
      /\ \A k \in 1..(sz - 1) : k >= p => e[k] = c[k + 1] /\ k + 1 \in 1..sz
      /\ e = [k \in 1..(sz - 1) |-> e[k]]
  BY <1>1 DEF Shorter
<1> HIDE DEF e
<1>5. \A k, l \in 1..sz : c[k] = c[l] => k = l  BY DEF Linked
<1>4. e \in [1..(sz - 1) -> DOMAIN new]
  <2>1. \A k \in 1..(sz - 1) : e[k] \in DOMAIN new
    <3> TAKE k \in 1..(sz - 1)
    <3>1. CASE k < p  BY <3>1, <1>1, <1>2, <1>3, <1>5
    <3>2. CASE k >= p
      <4>1. k + 1 # p /\ k + 1 \in 1..sz /\ e[k] = c[k + 1]  BY <3>2, <1>1, <1>3
      <4> QED BY <4>1, <1>2, <1>5
    <3> QED BY <3>1, <3>2, <1>1
  <2> QED BY <1>3, <2>1
<1>6. \A k, l \in 1..(sz - 1) : e[k] = e[l] => k = l
  <2> SUFFICES ASSUME NEW k \in 1..(sz - 1), NEW l \in 1..(sz - 1), e[k] = e[l] PROVE k = l
    OBVIOUS
  <2>1. CASE k < p /\ l < p  BY <2>1, <1>3, <1>5
  <2>2. CASE k < p /\ l >= p
    <3>1. k = l + 1  BY <2>2, <1>3, <1>5
    <3> QED BY <2>2, <3>1, <1>1
  <2>3. CASE k >= p /\ l < p
    <3>1. l = k + 1  BY <2>3, <1>3, <1>5
    <3> QED BY <2>3, <3>1, <1>1
  <2>4. CASE k >= p /\ l >= p
    <3>1. k + 1 = l + 1  BY <2>4, <1>3, <1>5
    <3> QED BY <3>1
  <2> QED BY <2>1, <2>2, <2>3, <2>4, <1>1
<1>7. \A m \in DOMAIN new : \E k \in 1..(sz - 1) : e[k] = m
  <2> SUFFICES ASSUME NEW m \in DOMAIN new PROVE \E k \in 1..(sz - 1) : e[k] = m
    OBVIOUS
  <2>1. PICK k \in 1..sz : c[k] = m  BY DEF Linked
  <2>2. k # p  BY <2>1
  <2>3. CASE k < p
    <3>1. k \in 1..(sz - 1)  BY <2>3, <1>1
    <3> QED BY <2>1, <2>3, <3>1, <1>3
  <2>4. CASE k > p
    <3> DEFINE j == k - 1
    <3>1. j \in 1..(sz - 1) /\ j >= p /\ j + 1 = k  BY <2>4, <1>1
    <3> HIDE DEF j
    <3> QED BY <2>1, <3>1, <1>3
  <2> QED BY <2>2, <2>3, <2>4, <1>1
<1>8. \A k \in 1..sz : /\ nd[c[k]].prev = IF k = 1 THEN Null ELSE c[k - 1]
                       /\ nd[c[k]].next = IF k = sz THEN Null ELSE c[k + 1]
  BY DEF Linked
\* The neighbours of the p-th.
<1>a. /\ nd[c[p]].prev = IF p = 1 THEN Null ELSE c[p - 1]
      /\ nd[c[p]].next = IF p = sz THEN Null ELSE c[p + 1]
  BY <1>8
<1>b. ASSUME NEW k \in 1..sz
      PROVE  /\ c[k] = nd[c[p]].prev <=> k = p - 1
             /\ c[k] = nd[c[p]].next <=> k = p + 1
  <2>1. c[k] = nd[c[p]].prev <=> k = p - 1
    <3>1. CASE p = 1  BY <3>1, <1>a, <1>2
    <3>2. CASE p # 1
      <4>1. p - 1 \in 1..sz  BY <3>2, <1>1
      <4> QED BY <3>2, <4>1, <1>a, <1>5
    <3> QED BY <3>1, <3>2
  <2>2. c[k] = nd[c[p]].next <=> k = p + 1
    <3>1. CASE p = sz  BY <3>1, <1>a, <1>2, <1>1
    <3>2. CASE p # sz
      <4>1. p + 1 \in 1..sz  BY <3>2, <1>1
      <4> QED BY <3>2, <4>1, <1>a, <1>5
    <3> QED BY <3>1, <3>2
  <2> QED BY <2>1, <2>2
\* What becomes of the links of the k-th node.
<1>c. ASSUME NEW k \in 1..sz, k # p
      PROVE  /\ new[c[k]].next = IF k = p - 1 THEN nd[c[p]].next ELSE nd[c[k]].next
             /\ new[c[k]].prev = IF k = p + 1 THEN nd[c[p]].prev ELSE nd[c[k]].prev
  <2>1. c[k] \in DOMAIN new  BY <1>c, <1>2, <1>5
  <2>2. CASE k = p - 1
    <3>1. k # p + 1  BY <2>2, <1>1
    <3> QED BY <2>1, <2>2, <3>1, <1>b
  <2>3. CASE k # p - 1  BY <2>1, <2>3, <1>b
  <2> QED BY <2>2, <2>3
<1>9. ASSUME NEW k \in 1..(sz - 1)
      PROVE  /\ new[e[k]].prev = IF k = 1 THEN Null ELSE e[k - 1]
             /\ new[e[k]].next = IF k = sz - 1 THEN Null ELSE e[k + 1]
  <2>1. CASE k < p
    <3>1. k \in 1..sz /\ k # p /\ k # p + 1 /\ k # sz /\ e[k] = c[k]  BY <2>1, <1>1, <1>3
    <3>2. k # 1 => e[k - 1] = c[k - 1]
      <4> SUFFICES ASSUME k # 1 PROVE e[k - 1] = c[k - 1]
        OBVIOUS
      <4>1. k - 1 \in 1..(sz - 1) /\ k - 1 < p  BY <2>1, <1>1
      <4> QED BY <4>1, <1>3
    <3>3. new[e[k]].prev = IF k = 1 THEN Null ELSE e[k - 1]
      BY <3>1, <3>2, <1>c, <1>8
    <3>4. CASE k = p - 1
      <4>1. new[e[k]].next = nd[c[p]].next  BY <3>1, <3>4, <1>c
      <4>2. CASE k = sz - 1
        <5>1. p = sz  BY <3>4, <4>2, <1>1
        <5> QED BY <3>3, <4>1, <4>2, <5>1, <1>a
      <4>3. CASE k # sz - 1
        <5> DEFINE j == k + 1
        <5>1. j \in 1..(sz - 1) /\ j >= p /\ j = p /\ p # sz  BY <3>4, <4>3, <1>1
        <5> HIDE DEF j
        <5>2. e[j] = c[p + 1]  BY <5>1, <1>3
        <5>3. e[k + 1] = c[p + 1]  BY <5>2 DEF j
        <5> QED BY <3>3, <4>1, <4>3, <5>1, <5>3, <1>a
      <4> QED BY <4>2, <4>3
    <3>5. CASE k # p - 1
      <4> DEFINE j == k + 1
      <4>1. j \in 1..(sz - 1) /\ j < p /\ k # sz - 1  BY <2>1, <3>5, <1>1
      <4> HIDE DEF j
      <4>2. e[j] = c[j]  BY <4>1, <1>3
      <4>3. e[k + 1] = c[k + 1]  BY <4>2 DEF j
      <4> QED BY <3>1, <3>3, <3>5, <4>1, <4>3, <1>c, <1>8
    <3> QED BY <3>4, <3>5
  <2>2. CASE k >= p
    <3> DEFINE j == k + 1
    <3>1. j \in 1..sz /\ j # p /\ j # p - 1 /\ j # 1 /\ j > p /\ (j = sz <=> k = sz - 1)
          /\ j - 1 = k /\ j \in Nat
      BY <2>2, <1>1
    <3>2. e[k] = c[j]  BY <2>2, <1>3
    <3> HIDE DEF j
    <3>3. k # sz - 1 => e[k + 1] = c[j + 1]
      <4> SUFFICES ASSUME k # sz - 1 PROVE e[k + 1] = c[j + 1]
        OBVIOUS
      <4>1. j \in 1..(sz - 1) /\ j >= p  BY <3>1, <1>1
      <4>2. e[j] = c[j + 1]  BY <4>1, <1>3
      <4> QED BY <4>2 DEF j
    <3>4. new[c[j]].next = IF j = sz THEN Null ELSE c[j + 1]
      BY <3>1, <1>c, <1>8
    <3>5. new[e[k]].next = IF k = sz - 1 THEN Null ELSE e[k + 1]
      BY <3>1, <3>2, <3>3, <3>4
    <3>6. CASE j = p + 1
      <4>1. new[c[j]].prev = nd[c[p]].prev /\ k = p  BY <3>1, <3>6, <1>c, <1>1
      <4>2. p # 1 => e[p - 1] = c[p - 1]
        <5> SUFFICES ASSUME p # 1 PROVE e[p - 1] = c[p - 1]
          OBVIOUS
        <5>1. p - 1 \in 1..(sz - 1) /\ p - 1 < p  BY <1>1
        <5> QED BY <5>1, <1>3
      <4> QED BY <3>2, <3>5, <4>1, <4>2, <1>a
    <3>7. CASE j # p + 1
      <4>1. new[c[j]].prev = c[k] /\ k # 1  BY <3>1, <3>7, <1>c, <1>8, <1>1
      <4> DEFINE i == k - 1
      <4>2. i \in 1..(sz - 1) /\ i >= p /\ i + 1 = k  BY <2>2, <3>1, <3>7, <1>1
      <4> HIDE DEF i
      <4>3. e[i] = c[k]  BY <4>2, <1>3
      <4>4. e[k - 1] = c[k]  BY <4>3 DEF i
      <4> QED BY <3>2, <3>5, <4>1, <4>4
    <3> QED BY <3>6, <3>7
  <2> QED BY <2>1, <2>2, <1>1
<1>10. hd = c[1] /\ tl = c[sz]  BY <1>1 DEF Linked
<1>11. sz - 1 > 0 => h = e[1] /\ t = e[sz - 1]
  <2> SUFFICES ASSUME sz - 1 > 0 PROVE h = e[1] /\ t = e[sz - 1]
    OBVIOUS
  <2> DEFINE j == sz - 1
  <2>1. 1 \in 1..j /\ j \in 1..j /\ 1 \in 1..sz /\ sz \in 1..sz /\ j + 1 = sz
        /\ j \in 1..sz
    BY <1>1
  <2>2. h = e[1]
    <3>1. CASE p = 1
      <4>1. e[1] = c[1 + 1] /\ p # sz  BY <3>1, <2>1, <1>1, <1>3
      <4> QED BY <3>1, <4>1, <1>10, <1>a
    <3>2. CASE p # 1
      <4>1. e[1] = c[1]  BY <3>2, <2>1, <1>1, <1>3
      <4>2. c[p] # hd  BY <3>2, <2>1, <1>5, <1>10
      <4> QED BY <4>1, <4>2, <1>10
    <3> QED BY <3>1, <3>2
  <2> HIDE DEF j
  <2>3. j = sz - 1  BY DEF j
  <2>4. t = e[j]
    <3>1. CASE p = sz
      <4>1. j < p  BY <3>1, <2>1, <1>1
      <4>2. e[j] = c[j]  BY <4>1, <2>1, <2>3, <1>3
      <4>3. nd[c[p]].prev = c[p - 1]  BY <3>1, <2>1, <2>3, <1>a, <1>1
      <4> QED BY <3>1, <4>2, <4>3, <2>3, <1>10
    <3>2. CASE p # sz
      <4>1. j >= p  BY <3>2, <2>1, <1>1
      <4>2. e[j] = c[sz]  BY <4>1, <2>1, <2>3, <1>3
      <4>3. c[p] # tl  BY <3>2, <2>1, <1>5, <1>10
      <4> QED BY <4>2, <4>3, <1>10
    <3> QED BY <3>1, <3>2
  <2> QED BY <2>2, <2>4 DEF j
<1>12. sz - 1 = 0 => t = Null
  <2> SUFFICES ASSUME sz - 1 = 0 PROVE t = Null
    OBVIOUS
  <2>1. p = 1 /\ sz = 1  BY <1>1
  <2> QED BY <2>1, <1>10, <1>a
<1> HIDE DEF h, t
<1>13. Linked(e, new, h, t, sz - 1)
  BY <1>1, <1>4, <1>6, <1>7, <1>9, <1>11, <1>12 DEF Linked
<1> QED BY <1>13 DEF e, h, t

\* Where a node's links lead.
Ends == (1..MaxNodes) \cup {Null}

\* The nodes are linked both ways along the chain, and what they hold differs, but
\* for null pointers.
ListInv ==
  /\ DOMAIN node \subseteq 1..MaxNodes
  /\ \A i \in DOMAIN node : node[i] \in [data : Data \cup {Null}, next : Ends, prev : Ends]
  /\ Linked(L!Chain, node, head, tail, size)
  /\ \A k, l \in 1..size :
       L!members[k] = L!members[l] /\ L!members[k] # Null => k = l

\* The model's chain.
LEMMA ListChain == L!Chain = ChainFrom(node, head, size)
BY DEF L!Chain, ChainFrom

\* Before the first call.
LEMMA ListInit == L!Init => ListInv
<1> SUFFICES ASSUME L!Init PROVE ListInv
  OBVIOUS
<1> DEFINE c == [k \in 1..0 |-> IF k = 1 THEN head ELSE node[head].next]
<1>1. /\ node = [i \in {} |-> Null] /\ head = Null /\ tail = Null /\ size = 0
      /\ DOMAIN node = {}
  BY DEF L!Init, L!Empty
<1>2. 1..0 = {} /\ DOMAIN c = {}  OBVIOUS
<1>3. c \in [1..size -> DOMAIN node]  BY <1>1, <1>2
<1>4. Linked(c, node, head, tail, size)
  BY <1>1, <1>2, <1>3 DEF Linked
<1> HIDE DEF c
<1>5. L!Chain = c  BY <1>4, LinkedChain, ListChain
<1> QED BY <1>1, <1>2, <1>4, <1>5 DEF ListInv

\* What list_findPos finds: the node of the data, or none.
LEMMA ListFinds ==
  ASSUME ListInv, NEW d
  PROVE  \/ /\ L!list_findPos(d) = Null
            /\ d = Null \/ \A k \in 1..size : L!members[k] # d
         \/ \E k \in 1..size : /\ d # Null /\ L!members[k] = d
                               /\ L!list_findPos(d) = L!Chain[k]
<1> DEFINE found == {k \in DOMAIN L!Chain : node[L!Chain[k]].data = d}
<1>1. size \in Nat /\ DOMAIN L!Chain = 1..size  BY DEF ListInv, Linked
<1>2. L!list_findPos(d) = IF d = Null \/ found = {} THEN Null ELSE L!Chain[L!Min(found)]
  BY DEF L!list_findPos
<1>3. \A k \in 1..size : L!members[k] = node[L!Chain[k]].data  BY DEF L!members
<1>4. CASE d = Null \/ found = {}
  <2>1. d = Null \/ \A k \in 1..size : L!members[k] # d  BY <1>1, <1>3, <1>4
  <2> QED BY <1>2, <1>4, <2>1
<1>5. CASE d # Null /\ found # {}
  <2>1. found \subseteq Nat  BY <1>1
  <2>2. \E x \in found : \A y \in found : x <= y
    <3> HIDE DEF found
    <3> QED BY <1>5, <2>1, LeastNumber
  <2>3. L!Min(found) \in found
    <3> HIDE DEF found
    <3> QED BY <2>2 DEF L!Min
  <2> DEFINE k == L!Min(found)
  <2>4. L!list_findPos(d) = L!Chain[k]  BY <1>2, <1>5
  <2> HIDE DEF k
  <2>5. k \in 1..size /\ node[L!Chain[k]].data = d  BY <2>3, <1>1 DEF k
  <2> QED BY <2>4, <2>5, <1>3, <1>5
<1> QED BY <1>4, <1>5

\* The chain that a step makes, and the members on it.
LEMMA ListNext ==
  ASSUME NEW e, Linked(e, node', head', tail', size')
  PROVE  L!Chain' = e /\ L!members' = [k \in 1..size' |-> node'[e[k]].data]
<1>1. ChainFrom(node', head', size') = e  BY LinkedChain
<1>2. L!Chain' = e  BY <1>1, ListChain DEF L!Chain, ChainFrom
<1> QED BY <1>2 DEF L!members

\* What is put in goes behind the member the caller names.
LEMMA ListInsert ==
  ASSUME ListInv, NEW d \in Data \cup {Null}, NEW ref, L!Insert(d, ref)
  PROVE  /\ ListInv' /\ size' = size + 1
         /\ d = Null \/ \A k \in 1..size : L!members[k] # d
         /\ \E p \in 0..size :
              /\ IF size = 0 THEN p = 0 ELSE p # 0 /\ ref # Null /\ L!members[p] = ref
              /\ L!members' = Longer(L!members, size, p, d)
<1> DEFINE c == L!Chain
           m == L!members
           free == (1..MaxNodes) \ DOMAIN node
           n == L!Min(free)
<1>1. Linked(c, node, head, tail, size) /\ DOMAIN node \subseteq 1..MaxNodes
  BY DEF ListInv
<1>2. size \in Nat /\ c \in [1..size -> DOMAIN node]  BY <1>1 DEF Linked
<1>3. /\ m = [k \in 1..size |-> node[c[k]].data]
      /\ \A k, l \in 1..size : m[k] = m[l] /\ m[k] # Null => k = l
  BY DEF ListInv, L!members
<1>4. d = Null \/ \A k \in 1..size : m[k] # d
  <2>1. L!list_findPos(d) = Null  BY DEF L!Insert
  <2>2. \A k \in 1..size : c[k] # Null  BY <1>1, <1>2, NodesAssumption
  <2> QED BY <2>1, <2>2, ListFinds
<1>5. size' = size + 1 /\ size + 1 \in Nat  BY <1>2 DEF L!Insert
<1>6. n \in free
  <2>1. DOMAIN node # 1..MaxNodes  BY DEF L!Insert
  <2>2. free # {} /\ free \subseteq Nat
    <3>1. DOMAIN node \subseteq 1..MaxNodes  BY <1>1
    <3>2. PICK x \in 1..MaxNodes : x \notin DOMAIN node  BY <2>1, <3>1, Zenon
    <3>3. x \in free  BY <3>2
    <3>4. free \subseteq Nat  BY NodesAssumption
    <3> QED BY <3>3, <3>4
  <2> HIDE DEF free
  <2>3. \E x \in free : \A y \in free : x <= y  BY <2>2, LeastNumber
  <2> QED BY <2>3 DEF L!Min
<1>7. /\ size = 0 => /\ node' = [i \in {n} |-> [data |-> d, next |-> Null, prev |-> Null]]
                     /\ head' = n /\ tail' = n
      /\ size # 0 => /\ L!list_findPos(ref) # Null
                     /\ L!Link(n, L!list_findPos(ref), d)
                     /\ head' = head
  BY DEF L!Insert
<1> HIDE DEF n, c, m
<1>8. n \in 1..MaxNodes /\ n \notin DOMAIN node /\ n # Null  BY <1>6, NodesAssumption
\* Enough: the new chain is the old one with n behind its p-th node.
<1>9. ASSUME NEW p \in 0..size,
             Linked(Longer(c, size, p, n), node', head', tail', size'),
             DOMAIN node' = DOMAIN node \cup {n},
             node'[n].data = d,
             \A i \in DOMAIN node : node'[i].data = node[i].data,
             \A i \in DOMAIN node' :
               node'[i] \in [data : Data \cup {Null}, next : Ends, prev : Ends]
      PROVE  ListInv' /\ L!members' = Longer(m, size, p, d)
  <2> DEFINE e == Longer(c, size, p, n)
  <2>1. L!Chain' = e /\ L!members' = [k \in 1..size' |-> node'[e[k]].data]
    BY <1>9, ListNext
  <2>2. ASSUME NEW k \in 1..(size + 1)
        PROVE  node'[e[k]].data = IF k <= p THEN m[k] ELSE IF k = p + 1 THEN d ELSE m[k - 1]
    <3>1. CASE k <= p
      <4>1. e[k] = c[k] /\ k \in 1..size  BY <3>1, <1>2 DEF Longer
      <4> QED BY <3>1, <4>1, <1>2, <1>3, <1>9
    <3>2. CASE k = p + 1
      <4>1. e[k] = n /\ ~(k <= p)  BY <3>2, <1>2 DEF Longer
      <4> QED BY <3>2, <4>1, <1>9
    <3>3. CASE k > p + 1
      <4> DEFINE j == k - 1
      <4>1. e[k] = c[j] /\ j \in 1..size /\ ~(k <= p) /\ k # p + 1
        BY <3>3, <1>2 DEF Longer
      <4> HIDE DEF j
      <4>2. node'[e[k]].data = m[j]  BY <4>1, <1>2, <1>3, <1>9
      <4> QED BY <4>1, <4>2 DEF j
    <3> QED BY <3>1, <3>2, <3>3, <1>2
  <2>3. L!members' = Longer(m, size, p, d)  BY <2>1, <2>2, <1>5 DEF Longer
  <2>4. \A k \in 1..(size + 1) :
          L!members'[k] = IF k <= p THEN m[k] ELSE IF k = p + 1 THEN d ELSE m[k - 1]
    BY <2>3 DEF Longer
  <2>5. \A k, l \in 1..size' : L!members'[k] = L!members'[l] /\ L!members'[k] # Null => k = l
    <3> SUFFICES ASSUME NEW k \in 1..(size + 1), NEW l \in 1..(size + 1),
                        L!members'[k] = L!members'[l], L!members'[k] # Null
                 PROVE  k = l
      BY <1>5
    <3> DEFINE x == L!members'
    <3>0. x[k] = x[l] /\ x[k] # Null  OBVIOUS
    <3>a. \A i \in 1..(size + 1) :
            \/ i <= p /\ x[i] = m[i] /\ i \in 1..size
            \/ i = p + 1 /\ x[i] = d
            \/ i > p + 1 /\ x[i] = m[i - 1] /\ i - 1 \in 1..size
      BY <2>4, <1>2
    <3> HIDE DEF x
    <3>b. \/ k <= p /\ x[k] = m[k] /\ k \in 1..size
          \/ k = p + 1 /\ x[k] = d
          \/ k > p + 1 /\ x[k] = m[k - 1] /\ k - 1 \in 1..size
      BY <3>a
    <3>c. \/ l <= p /\ x[l] = m[l] /\ l \in 1..size
          \/ l = p + 1 /\ x[l] = d
          \/ l > p + 1 /\ x[l] = m[l - 1] /\ l - 1 \in 1..size
      BY <3>a
    <3>1. CASE k <= p /\ x[k] = m[k] /\ k \in 1..size
      <4>1. l # p + 1  BY <3>0, <3>1, <3>c, <1>4, <1>2
      <4>2. CASE l <= p /\ x[l] = m[l] /\ l \in 1..size  BY <3>0, <3>1, <4>2, <1>3
      <4>3. CASE l > p + 1 /\ x[l] = m[l - 1] /\ l - 1 \in 1..size
        <5>1. k = l - 1  BY <3>0, <3>1, <4>3, <1>3
        <5> QED BY <3>1, <4>3, <5>1
      <4> QED BY <3>c, <4>1, <4>2, <4>3
    <3>2. CASE k = p + 1 /\ x[k] = d
      <4>1. CASE l <= p /\ x[l] = m[l] /\ l \in 1..size  BY <3>0, <3>2, <4>1, <1>4
      <4>2. CASE l > p + 1 /\ x[l] = m[l - 1] /\ l - 1 \in 1..size
        BY <3>0, <3>2, <4>2, <1>4
      <4> QED BY <3>2, <3>c, <4>1, <4>2
    <3>3. CASE k > p + 1 /\ x[k] = m[k - 1] /\ k - 1 \in 1..size
      <4>1. CASE l <= p /\ x[l] = m[l] /\ l \in 1..size
        <5>1. l = k - 1  BY <3>0, <3>3, <4>1, <1>3
        <5> QED BY <3>3, <4>1, <5>1
      <4>2. CASE l = p + 1 /\ x[l] = d  BY <3>0, <3>3, <4>2, <1>4
      <4>3. CASE l > p + 1 /\ x[l] = m[l - 1] /\ l - 1 \in 1..size
        <5>1. k - 1 = l - 1  BY <3>0, <3>3, <4>3, <1>3
        <5> QED BY <5>1
      <4> QED BY <3>c, <4>1, <4>2, <4>3
    <3> QED BY <3>b, <3>1, <3>2, <3>3
  <2>6. Linked(L!Chain', node', head', tail', size')  BY <2>1, <1>9
  <2>7. DOMAIN node' \subseteq 1..MaxNodes  BY <1>1, <1>8, <1>9
  <2> QED BY <2>3, <2>5, <2>6, <2>7, <1>9 DEF ListInv
<1>10. CASE size = 0
  <2>1. /\ node' = [i \in {n} |-> [data |-> d, next |-> Null, prev |-> Null]]
        /\ head' = n /\ tail' = n
    BY <1>7, <1>10
  <2>2. DOMAIN node = {}
    <3>1. 1..size = {}  BY <1>10
    <3> QED BY <1>1, <3>1 DEF Linked
  <2> DEFINE e == Longer(c, size, 0, n)
  <2>3. \A k \in 1..1 : k = 1  OBVIOUS
  <2>4. e = [k \in 1..1 |-> n]  BY <1>10, <2>3 DEF Longer
  <2> HIDE DEF e
  <2>5. e \in [1..1 -> DOMAIN node']  BY <2>1, <2>4
  <2>6. Linked(e, node', head', tail', 1)
    BY <2>1, <2>3, <2>4, <2>5 DEF Linked
  <2>7. 0 \in 0..size /\ size' = 1  BY <1>5, <1>10
  <2>8. Linked(Longer(c, size, 0, n), node', head', tail', size')  BY <2>6, <2>7 DEF e
  <2>9. ListInv' /\ L!members' = Longer(m, size, 0, d)
    BY <2>1, <2>2, <2>7, <2>8, <1>9 DEF Ends
  <2> QED BY <1>4, <1>5, <1>10, <2>7, <2>9 DEF m
<1>11. CASE size # 0
  <2>1. L!list_findPos(ref) # Null /\ L!Link(n, L!list_findPos(ref), d) /\ head' = head
    BY <1>7, <1>11
  <2>2. PICK p \in 1..size : ref # Null /\ m[p] = ref /\ L!list_findPos(ref) = c[p]
    BY <2>1, ListFinds DEF m, c
  <2>3. L!Link(n, c[p], d)  BY <2>1, <2>2
  <2>a. /\ c[p] \in DOMAIN node /\ n # c[p]
        /\ node[c[p]].next \in Ends /\ node[c[p]].next # n /\ node[c[p]].next # c[p]
    <3>1. node[c[p]].next = IF p = size THEN Null ELSE c[p + 1]  BY <1>1 DEF Linked
    <3>2. p # size => p + 1 \in 1..size /\ p + 1 # p  BY <1>2
    <3>3. c[p] \in DOMAIN node /\ c[p] # Null  BY <1>1, <1>2, NodesAssumption
    <3>4. p # size => c[p + 1] \in DOMAIN node /\ c[p + 1] # c[p]
      BY <3>2, <1>1, <1>2 DEF Linked
    <3> QED BY <3>1, <3>3, <3>4, <1>1, <1>8 DEF Ends
  <2>b. \A i \in DOMAIN node : node[i] \in [data : Data \cup {Null}, next : Ends, prev : Ends]
    BY DEF ListInv
  <2>4. /\ DOMAIN node' = DOMAIN node \cup {n}
        /\ node'[n] = [data |-> d, next |-> node[c[p]].next, prev |-> c[p]]
        /\ tail' = IF c[p] = tail THEN n ELSE tail
    BY <2>3, <2>a DEF L!Link
  <2>5. ASSUME NEW i \in DOMAIN node
        PROVE  /\ i = c[p] => /\ node'[i].next = n /\ node'[i].prev = node[i].prev
                              /\ node'[i].data = node[i].data
               /\ i # c[p] /\ i = node[c[p]].next
                    => /\ node'[i].prev = n /\ node'[i].next = node[i].next
                       /\ node'[i].data = node[i].data
               /\ i # c[p] /\ i # node[c[p]].next => node'[i] = node[i]
               /\ node'[i] \in [data : Data \cup {Null}, next : Ends, prev : Ends]
    <3>1. i # n /\ n \in Ends  BY <1>8 DEF Ends
    <3>2. node[i] \in [data : Data \cup {Null}, next : Ends, prev : Ends]  BY <2>b
    <3>3. CASE i = c[p]
      <4>1. node'[i] = [node[i] EXCEPT !.next = n]  BY <2>3, <2>a, <3>3 DEF L!Link
      <4> QED BY <3>1, <3>2, <3>3, <4>1
    <3>4. CASE i # c[p] /\ i = node[c[p]].next
      <4>1. node'[i] = [node[i] EXCEPT !.prev = n]  BY <2>3, <2>a, <3>1, <3>4 DEF L!Link
      <4> QED BY <3>1, <3>2, <3>4, <4>1
    <3>5. CASE i # c[p] /\ i # node[c[p]].next
      <4>1. node'[i] = node[i]  BY <2>3, <2>a, <3>1, <3>5 DEF L!Link
      <4> QED BY <3>2, <3>5, <4>1
    <3> QED BY <3>3, <3>4, <3>5
  <2>c. \A i \in DOMAIN node' :
          node'[i] \in [data : Data \cup {Null}, next : Ends, prev : Ends]
    <3>1. node'[n] \in [data : Data \cup {Null}, next : Ends, prev : Ends]
      BY <2>4, <2>a, <1>1 DEF Ends
    <3> QED BY <2>4, <2>5, <3>1
  <2>6. Null \notin DOMAIN node  BY <1>1, NodesAssumption
  <2>7. node'[n].next = node[c[p]].next /\ node'[n].prev = c[p] /\ node'[n].data = d
    BY <2>4
  <2>8. Linked(Longer(c, size, p, n), node', head, IF c[p] = tail THEN n ELSE tail, size + 1)
    BY <1>1, <1>8, <2>4, <2>5, <2>6, <2>7, LinkBehind
  <2>9. Linked(Longer(c, size, p, n), node', head', tail', size')
    BY <1>5, <2>1, <2>4, <2>8
  <2>10. p \in 0..size /\ p # 0  BY <1>2
  <2>11. ListInv' /\ L!members' = Longer(m, size, p, d)
    BY <2>4, <2>5, <2>7, <2>9, <2>10, <2>c, <1>9
  <2> QED BY <1>4, <1>5, <1>11, <2>2, <2>10, <2>11 DEF m
<1> QED BY <1>10, <1>11

\* What is taken out was a member, and the others stay in their order.
LEMMA ListRemove ==
  ASSUME ListInv, NEW d, L!list_remove(d)
  PROVE  /\ ListInv'
         /\ \E p \in 1..size : /\ d # Null /\ L!members[p] = d
                               /\ L!members' = Shorter(L!members, size, p)
<1> DEFINE c == L!Chain
           m == L!members
<1>1. Linked(c, node, head, tail, size) /\ DOMAIN node \subseteq 1..MaxNodes
  BY DEF ListInv
<1>2. size \in Nat /\ c \in [1..size -> DOMAIN node]  BY <1>1 DEF Linked
<1>3. /\ m = [k \in 1..size |-> node[c[k]].data]
      /\ \A k, l \in 1..size : m[k] = m[l] /\ m[k] # Null => k = l
  BY DEF ListInv, L!members
<1>4. /\ L!list_findPos(d) # Null /\ L!Unlink(L!list_findPos(d))
      /\ size' = size - 1
  BY DEF L!list_remove
<1>5. PICK p \in 1..size : d # Null /\ m[p] = d /\ L!list_findPos(d) = c[p]
  BY <1>4, ListFinds
<1>6. L!Unlink(c[p])  BY <1>4, <1>5
<1> HIDE DEF c, m
<1>7. /\ DOMAIN node' = DOMAIN node \ {c[p]}
      /\ head' = IF c[p] = head THEN node[c[p]].next ELSE head
      /\ tail' = IF c[p] = tail THEN node[c[p]].prev ELSE tail
  BY <1>6 DEF L!Unlink
<1>a. node[c[p]].prev \in Ends /\ node[c[p]].next \in Ends  BY <1>2 DEF ListInv
<1>8. ASSUME NEW i \in DOMAIN node'
      PROVE  /\ node'[i].data = node[i].data
             /\ i = node[c[p]].prev
                  => node'[i].next = node[c[p]].next /\ node'[i].prev = node[i].prev
             /\ i # node[c[p]].prev /\ i = node[c[p]].next
                  => node'[i].prev = node[c[p]].prev /\ node'[i].next = node[i].next
             /\ i # node[c[p]].prev /\ i # node[c[p]].next => node'[i] = node[i]
             /\ node'[i] \in [data : Data \cup {Null}, next : Ends, prev : Ends]
  <2>1. i \in DOMAIN node  BY <1>7
  <2>2. node[i] \in [data : Data \cup {Null}, next : Ends, prev : Ends]
    BY <2>1 DEF ListInv
  <2>3. node'[i] = IF i = node[c[p]].prev THEN [node[i] EXCEPT !.next = node[c[p]].next]
                   ELSE IF i = node[c[p]].next
                     THEN [node[i] EXCEPT !.prev = node[c[p]].prev] ELSE node[i]
    BY <1>6, <1>7 DEF L!Unlink
  <2> QED BY <2>2, <2>3, <1>a
<1>9. Null \notin DOMAIN node  BY <1>1, NodesAssumption
<1> DEFINE e == Shorter(c, size, p)
<1>10. Linked(e, node', head', tail', size')
  <2>1. Linked(Shorter(c, size, p), node', IF c[p] = head THEN node[c[p]].next ELSE head,
               IF c[p] = tail THEN node[c[p]].prev ELSE tail, size - 1)
    BY <1>1, <1>7, <1>8, <1>9, UnlinkAt
  <2> QED BY <2>1, <1>4, <1>7
<1>11. L!Chain' = e /\ L!members' = [k \in 1..size' |-> node'[e[k]].data]
  BY <1>10, ListNext
<1>12. e \in [1..(size - 1) -> DOMAIN node']  BY <1>4, <1>10 DEF Linked
<1>13. ASSUME NEW k \in 1..(size - 1)
       PROVE  node'[e[k]].data = IF k < p THEN m[k] ELSE m[k + 1]
  <2>1. e[k] \in DOMAIN node'  BY <1>12
  <2>2. node'[e[k]].data = node[e[k]].data  BY <1>8, <2>1
  <2>3. e[k] = IF k < p THEN c[k] ELSE c[k + 1]  BY DEF Shorter
  <2>4. k \in 1..size /\ k + 1 \in 1..size  BY <1>2
  <2> HIDE DEF e
  <2> QED BY <2>2, <2>3, <2>4, <1>3
<1>14. L!members' = Shorter(m, size, p)
  <2> HIDE DEF e
  <2> QED BY <1>4, <1>11, <1>13 DEF Shorter
<1>15. \A k, l \in 1..size' : L!members'[k] = L!members'[l] /\ L!members'[k] # Null => k = l
  <2> SUFFICES ASSUME NEW k \in 1..(size - 1), NEW l \in 1..(size - 1),
                      L!members'[k] = L!members'[l], L!members'[k] # Null
               PROVE  k = l
    BY <1>4
  <2>1. \A i \in 1..(size - 1) :
          \/ i < p /\ L!members'[i] = m[i] /\ i \in 1..size
          \/ i >= p /\ L!members'[i] = m[i + 1] /\ i + 1 \in 1..size
    BY <1>2, <1>14 DEF Shorter
  <2>2. \E i, j \in 1..size : /\ i = k \/ i = k + 1
                              /\ j = l \/ j = l + 1
                              /\ i = k <=> k < p
                              /\ j = l <=> l < p
                              /\ m[i] = L!members'[k] /\ m[j] = L!members'[l]
    <3>1. PICK i \in 1..size : /\ i = k \/ i = k + 1
                               /\ i = k <=> k < p
                               /\ m[i] = L!members'[k]
      BY <2>1
    <3>2. PICK j \in 1..size : /\ j = l \/ j = l + 1
                               /\ j = l <=> l < p
                               /\ m[j] = L!members'[l]
      BY <2>1
    <3> QED BY <3>1, <3>2
  <2>3. PICK i \in 1..size, j \in 1..size : /\ i = k \/ i = k + 1
                                            /\ j = l \/ j = l + 1
                                            /\ i = k <=> k < p
                                            /\ j = l <=> l < p
                                            /\ m[i] = L!members'[k] /\ m[j] = L!members'[l]
    BY <2>2
  <2>4. i = j  BY <2>3, <1>3
  <2> QED BY <2>3, <2>4
<1>16. DOMAIN node' \subseteq 1..MaxNodes  BY <1>1, <1>7
<1>17. ListInv'  BY <1>8, <1>10, <1>11, <1>15, <1>16 DEF ListInv
<1> QED BY <1>5, <1>14, <1>17 DEF m

\* Deleting leaves nothing.
LEMMA ListDeletes ==
  ASSUME ListInv, L!list_delete
  PROVE  ListInv' /\ L!members' = <<>>
<1> DEFINE c == [k \in 1..0 |-> head]
<1>1. /\ node' = [i \in {} |-> Null] /\ head' = Null /\ tail' = Null /\ size' = 0
      /\ DOMAIN node' = {}
  BY DEF L!list_delete, L!Empty
<1>2. 1..0 = {} /\ DOMAIN c = {}  OBVIOUS
<1>3. c \in [1..size' -> DOMAIN node']  BY <1>1, <1>2
<1>4. Linked(c, node', head', tail', size')
  BY <1>1, <1>2, <1>3 DEF Linked
<1> HIDE DEF c
<1>5. L!Chain' = c /\ L!members' = [k \in 1..size' |-> node'[c[k]].data]
  BY <1>4, ListNext
<1>6. L!members' = <<>>  BY <1>1, <1>2, <1>5
<1> QED BY <1>1, <1>2, <1>4, <1>5, <1>6 DEF ListInv

\* Every call of list keeps the links.
LEMMA ListStep == ListInv /\ L!Next => ListInv'
<1> SUFFICES ASSUME ListInv, L!Next PROVE ListInv'
  OBVIOUS
<1>1. ASSUME NEW d \in Data \cup {Null}, NEW ref,
             L!list_append(d) \/ L!list_insert(d, ref)
      PROVE  ListInv'
  <2>1. L!Insert(d, L!list_tail) \/ L!Insert(d, ref)
    BY <1>1 DEF L!list_append, L!list_insert
  <2> QED BY <2>1, ListInsert
<1>2. ASSUME NEW d \in Data \cup {Null}, L!list_append(d) PROVE ListInv'  BY <1>1, <1>2
<1>3. ASSUME NEW d, L!list_remove(d) PROVE ListInv'  BY <1>3, ListRemove
<1>4. CASE L!list_delete  BY <1>4, ListDeletes
<1> QED BY <1>1, <1>2, <1>3, <1>4 DEF L!Next

\* What the links and the count amount to.
LEMMA ListKeeps == ListInv => L!ListLinked
<1> SUFFICES ASSUME ListInv PROVE L!ListLinked
  OBVIOUS
<1> DEFINE c == L!Chain
<1>1. Linked(c, node, head, tail, size)  BY DEF ListInv
<1>2. Cardinality(DOMAIN node) = size  BY <1>1, LinkedCount
<1>3. L!Cardinality(DOMAIN node) = Cardinality(DOMAIN node)
  BY DEF L!Cardinality, Cardinality
<1> HIDE DEF c
<1>4. DOMAIN c = 1..size  BY <1>1 DEF Linked
<1>5. DOMAIN node = {c[k] : k \in DOMAIN c}
  <2>1. \A k \in DOMAIN c : c[k] \in DOMAIN node  BY <1>1, <1>4 DEF Linked
  <2>2. \A n \in DOMAIN node : \E k \in DOMAIN c : c[k] = n  BY <1>1, <1>4 DEF Linked
  <2> QED BY <2>1, <2>2
<1>6. \A k \in DOMAIN c : /\ node[c[k]].prev = IF k = 1 THEN Null ELSE c[k - 1]
                          /\ node[c[k]].next = IF k = size THEN Null ELSE c[k + 1]
  BY <1>1, <1>4 DEF Linked
<1>7. size > 0 => tail = c[size]  BY <1>1 DEF Linked
<1> QED BY <1>2, <1>3, <1>5, <1>6, <1>7 DEF L!ListLinked, c

\* The members are a sequence.
LEMMA ListIsSeq ==
  ListInv => /\ size \in Nat /\ L!members = [k \in 1..size |-> L!members[k]]
             /\ L!members \in Seq({L!members[k] : k \in 1..size})
             /\ Len(L!members) = size /\ DOMAIN L!members = 1..size
<1> SUFFICES ASSUME ListInv
             PROVE  /\ size \in Nat /\ L!members = [k \in 1..size |-> L!members[k]]
                    /\ L!members \in Seq({L!members[k] : k \in 1..size})
                    /\ Len(L!members) = size /\ DOMAIN L!members = 1..size
  OBVIOUS
<1> DEFINE m == L!members
           Held == {m[k] : k \in 1..size}
<1>1. size \in Nat  BY DEF ListInv, Linked
<1>2. m = [k \in 1..size |-> m[k]]  BY DEF L!members
<1> HIDE DEF m
<1>3. \A k \in 1..size : m[k] \in Held  OBVIOUS
<1> HIDE DEF Held
<1>4. m \in [1..size -> Held]  BY <1>2, <1>3
<1>5. m \in Seq(Held) /\ Len(m) = size  BY <1>1, <1>4
<1> QED BY <1>1, <1>2, <1>4, <1>5 DEF m, Held

\* A sequence with an element behind its p-th.
LEMMA InsertIs ==
  ASSUME NEW Held, NEW m \in Seq(Held), NEW p \in 0..Len(m), NEW d
  PROVE  /\ L!Abstract!InsertAt(m, p + 1, d) = Longer(m, Len(m), p, d)
         /\ p = Len(m) => Append(m, d) = Longer(m, Len(m), p, d)
<1> DEFINE More == Held \cup {d}
           a == SubSeq(m, 1, (p + 1) - 1)
           b == SubSeq(m, p + 1, Len(m))
           e == Longer(m, Len(m), p, d)
<1>1. m \in Seq(More) /\ d \in More /\ Len(m) \in Nat  OBVIOUS
<1> HIDE DEF More
<1>2. a \in Seq(More) /\ Len(a) = p /\ \A k \in 1..p : a[k] = m[k]
  BY <1>1
<1>3. b \in Seq(More) /\ Len(b) = Len(m) - p /\ \A k \in 1..(Len(m) - p) : b[k] = m[p + k]
  BY <1>1
<1>4. L!Abstract!InsertAt(m, p + 1, d) = (a \o <<d>>) \o b
  BY DEF L!Abstract!InsertAt
<1> HIDE DEF a, b
<1>5. /\ a \o <<d>> \in Seq(More) /\ Len(a \o <<d>>) = p + 1
      /\ \A k \in 1..p : (a \o <<d>>)[k] = m[k]
      /\ (a \o <<d>>)[p + 1] = d
  BY <1>1, <1>2
<1> DEFINE f == a \o <<d>>
<1> HIDE DEF f
<1>6. /\ f \in Seq(More) /\ Len(f) = p + 1
      /\ \A k \in 1..p : f[k] = m[k]
      /\ f[p + 1] = d
  BY <1>5 DEF f
<1> DEFINE g == f \o b
<1>7. /\ g \in Seq(More) /\ Len(g) = Len(m) + 1
      /\ \A k \in 1..(p + 1) : g[k] = f[k]
      /\ \A k \in 1..(Len(m) - p) : g[p + 1 + k] = b[k]
  <2>1. Len(f) \in Nat /\ Len(b) \in Nat /\ p \in Nat  BY <1>1, <1>3, <1>6
  <2>2. g \in Seq(More) /\ Len(g) = Len(f) + Len(b)  BY <1>3, <1>6, ConcatProperties
  <2>3. \A k \in 1..(Len(f) + Len(b)) :
          g[k] = IF k <= Len(f) THEN f[k] ELSE b[k - Len(f)]
    BY <1>3, <1>6, ConcatProperties
  <2> HIDE DEF g
  <2>4. \A k \in 1..(p + 1) : g[k] = f[k]  BY <2>1, <2>3, <1>6
  <2>5. ASSUME NEW k \in 1..(Len(m) - p) PROVE g[p + 1 + k] = b[k]
    <3> DEFINE j == p + 1 + k
    <3>1. j \in 1..(Len(f) + Len(b)) /\ ~(j <= Len(f)) /\ j - Len(f) = k
      BY <2>1, <1>1, <1>3, <1>6
    <3> HIDE DEF j
    <3>2. g[j] = b[k]  BY <3>1, <2>3
    <3> QED BY <3>2 DEF j
  <2> QED BY <2>1, <2>2, <2>4, <2>5, <1>1, <1>3, <1>6
<1> HIDE DEF g
<1>8. e = [k \in 1..(Len(m) + 1) |-> e[k]]
      /\ \A k \in 1..(Len(m) + 1) :
           /\ k <= p => e[k] = m[k]
           /\ k = p + 1 => e[k] = d
           /\ k > p + 1 => e[k] = m[k - 1]
  BY <1>1 DEF Longer
<1> HIDE DEF e
<1>9. e \in Seq(More) /\ Len(e) = Len(m) + 1
  <2>1. \A k \in 1..(Len(m) + 1) : e[k] \in More
    BY <1>1, <1>8
  <2> QED BY <1>1, <1>8, <2>1
<1>10. ASSUME NEW k \in 1..(Len(m) + 1) PROVE g[k] = e[k]
  <2>1. CASE k <= p  BY <2>1, <1>6, <1>7, <1>8
  <2>2. CASE k = p + 1  BY <2>2, <1>6, <1>7, <1>8
  <2>3. CASE k > p + 1
    <3> DEFINE j == k - (p + 1)
    <3>1. j \in 1..(Len(m) - p) /\ p + 1 + j = k /\ p + j = k - 1  BY <2>3, <1>1
    <3> HIDE DEF j
    <3>2. g[k] = m[k - 1]  BY <3>1, <1>3, <1>7
    <3> QED BY <2>3, <3>2, <1>8
  <2> QED BY <2>1, <2>2, <2>3, <1>1
<1>11. g = e  BY <1>7, <1>9, <1>10, SeqEqual
<1>12. p = Len(m) => Append(m, d) = e
  <2> SUFFICES ASSUME p = Len(m) PROVE Append(m, d) = e
    OBVIOUS
  <2>1. Append(m, d) \in Seq(More) /\ Len(Append(m, d)) = Len(m) + 1  BY <1>1
  <2>2. \A k \in 1..(Len(m) + 1) : Append(m, d)[k] = e[k]
    BY <1>1, <1>8
  <2> QED BY <2>1, <2>2, <1>9, SeqEqual
<1> QED BY <1>4, <1>11, <1>12 DEF e, f, g

\* A sequence without its p-th element.
LEMMA RemoveIs ==
  ASSUME NEW Held, NEW m \in Seq(Held), NEW p \in 1..Len(m)
  PROVE  L!Abstract!RemoveAt(m, p) = Shorter(m, Len(m), p)
<1> DEFINE a == SubSeq(m, 1, p - 1)
           b == SubSeq(m, p + 1, Len(m))
           e == Shorter(m, Len(m), p)
<1>1. Len(m) \in Nat  OBVIOUS
<1>2. a \in Seq(Held) /\ Len(a) = p - 1 /\ \A k \in 1..(p - 1) : a[k] = m[k]
  BY <1>1
<1>3. b \in Seq(Held) /\ Len(b) = Len(m) - p /\ \A k \in 1..(Len(m) - p) : b[k] = m[p + k]
  BY <1>1
<1>4. L!Abstract!RemoveAt(m, p) = a \o b  BY DEF L!Abstract!RemoveAt
<1> HIDE DEF a, b
<1> DEFINE g == a \o b
<1>5. /\ g \in Seq(Held) /\ Len(g) = Len(m) - 1
      /\ \A k \in 1..(p - 1) : g[k] = a[k]
      /\ \A k \in 1..(Len(m) - p) : g[(p - 1) + k] = b[k]
  <2>1. Len(a) \in Nat /\ Len(b) \in Nat /\ p \in Nat  BY <1>1, <1>2, <1>3
  <2>2. g \in Seq(Held) /\ Len(g) = Len(a) + Len(b)  BY <1>2, <1>3, ConcatProperties
  <2>3. \A k \in 1..(Len(a) + Len(b)) :
          g[k] = IF k <= Len(a) THEN a[k] ELSE b[k - Len(a)]
    BY <1>2, <1>3, ConcatProperties
  <2> HIDE DEF g
  <2>4. \A k \in 1..(p - 1) : g[k] = a[k]  BY <2>1, <2>3, <1>2
  <2>5. ASSUME NEW k \in 1..(Len(m) - p) PROVE g[(p - 1) + k] = b[k]
    <3> DEFINE j == (p - 1) + k
    <3>1. j \in 1..(Len(a) + Len(b)) /\ ~(j <= Len(a)) /\ j - Len(a) = k
      BY <2>1, <1>1, <1>2, <1>3
    <3> HIDE DEF j
    <3>2. g[j] = b[k]  BY <3>1, <2>3
    <3> QED BY <3>2 DEF j
  <2> QED BY <2>1, <2>2, <2>4, <2>5, <1>1, <1>2, <1>3
<1> HIDE DEF g
<1>6. e = [k \in 1..(Len(m) - 1) |-> e[k]]
      /\ \A k \in 1..(Len(m) - 1) : e[k] = IF k < p THEN m[k] ELSE m[k + 1]
  BY <1>1 DEF Shorter
<1> HIDE DEF e, g
<1>7. e \in Seq(Held) /\ Len(e) = Len(m) - 1
  <2>1. \A k \in 1..(Len(m) - 1) : e[k] \in Held
    BY <1>1, <1>6
  <2> QED BY <1>1, <1>6, <2>1
<1>8. ASSUME NEW k \in 1..(Len(m) - 1) PROVE g[k] = e[k]
  <2>1. CASE k < p  BY <2>1, <1>2, <1>5, <1>6
  <2>2. CASE k >= p
    <3> DEFINE j == k - (p - 1)
    <3>1. j \in 1..(Len(m) - p) /\ (p - 1) + j = k /\ p + j = k + 1  BY <2>2, <1>1
    <3> HIDE DEF j
    <3>2. g[k] = m[k + 1]  BY <3>1, <1>3, <1>5
    <3> QED BY <2>2, <3>2, <1>6
  <2> QED BY <2>1, <2>2, <1>1
<1>9. g = e  BY <1>5, <1>7, <1>8, SeqEqual
<1> QED BY <1>4, <1>9 DEF e, g

\* Where the specification finds a member: there is one place only.
LEMMA MemberAt ==
  ASSUME ListInv, NEW p \in 1..size, NEW d, d # Null, L!members[p] = d
  PROVE  L!Abstract!Has(d) /\ L!Abstract!At(d) = p
<1> DEFINE m == L!members
<1>1. DOMAIN m = 1..size /\ Len(m) = size  BY ListIsSeq
<1>2. \A i \in 1..size : m[i] = d => i = p  BY DEF ListInv
<1>3. m[p] = d  OBVIOUS
<1> HIDE DEF m
<1>4. L!Abstract!Has(d)
  BY <1>1, <1>3 DEF L!Abstract!Has, L!Abstract!Contains, m
<1>5. L!Abstract!At(d) = CHOOSE i \in DOMAIN m : m[i] = d  BY DEF L!Abstract!At, m
<1> QED BY <1>1, <1>2, <1>3, <1>4, <1>5

\* A new member is new to the specification too.
LEMMA MemberNew ==
  ASSUME ListInv, NEW d, d = Null \/ \A k \in 1..size : L!members[k] # d
  PROVE  ~L!Abstract!Has(d)
<1>1. Len(L!members) = size  BY ListIsSeq
<1> QED BY <1>1 DEF L!Abstract!Has, L!Abstract!Contains

\* An empty list is the empty sequence.
LEMMA ListEmpty == ListInv /\ size = 0 => L!members = <<>>
<1> SUFFICES ASSUME ListInv, size = 0 PROVE L!members = <<>>
  OBVIOUS
<1> DEFINE m == L!members
           Held == {L!members[k] : k \in 1..size}
<1>1. m \in Seq(Held) /\ Len(m) = 0  BY ListIsSeq
<1> HIDE DEF m, Held
<1>2. m = <<>>  BY <1>1, EmptySeq
<1> QED BY <1>2 DEF m

\* Every call of list is one of the specification.
LEMMA ListMaps == ListInv /\ L!Next => L!Abstract!Next
<1> SUFFICES ASSUME ListInv, L!Next PROVE L!Abstract!Next
  OBVIOUS
<1> DEFINE m == L!members
           Held == {L!members[k] : k \in 1..size}
<1>1. size \in Nat /\ m \in Seq(Held) /\ Len(m) = size  BY ListIsSeq
<1>2. size = 0 => m = <<>>  BY ListEmpty
<1>3. \A k \in 1..size : m[k] = node[L!Chain[k]].data  BY DEF L!members
<1>4. Linked(L!Chain, node, head, tail, size)  BY DEF ListInv
<1> HIDE DEF Held
\* What putting in does to the sequence.
<1>5. ASSUME NEW d \in Data \cup {Null}, NEW ref, L!Insert(d, ref)
      PROVE  /\ ~L!Abstract!Has(d)
             /\ \E p \in 0..size :
                  /\ IF size = 0 THEN p = 0 ELSE p # 0 /\ ref # Null /\ m[p] = ref
                  /\ m' = L!Abstract!InsertAt(m, p + 1, d)
                  /\ p = size => m' = Append(m, d)
  <2>1. ~L!Abstract!Has(d)  BY <1>5, ListInsert, MemberNew
  <2>2. PICK p \in 0..size :
          /\ IF size = 0 THEN p = 0 ELSE p # 0 /\ ref # Null /\ m[p] = ref
          /\ m' = Longer(m, size, p, d)
    BY <1>5, ListInsert
  <2> DEFINE q == m'
  <2>3. q = Longer(m, size, p, d)  BY <2>2
  <2> HIDE DEF q, m
  <2>4. /\ L!Abstract!InsertAt(m, p + 1, d) = Longer(m, size, p, d)
        /\ p = size => Append(m, d) = Longer(m, size, p, d)
    BY <1>1, InsertIs
  <2>5. /\ IF size = 0 THEN p = 0 ELSE p # 0 /\ ref # Null /\ m[p] = ref
        /\ q = L!Abstract!InsertAt(m, p + 1, d)
        /\ p = size => q = Append(m, d)
    BY <2>2, <2>3, <2>4
  <2> QED BY <2>1, <2>5 DEF q
<1>6. ASSUME NEW d \in Data \cup {Null}, NEW ref \in Data, L!list_insert(d, ref)
      PROVE  L!Abstract!Next
  <2>1. L!Insert(d, ref) /\ call' = <<"insert", d, ref>>  BY <1>6 DEF L!list_insert
  <2>2. PICK p \in 0..size :
          /\ IF size = 0 THEN p = 0 ELSE p # 0 /\ ref # Null /\ m[p] = ref
          /\ m' = L!Abstract!InsertAt(m, p + 1, d)
          /\ p = size => m' = Append(m, d)
    BY <2>1, <1>5
  <2>3. ~L!Abstract!Has(d)  BY <2>1, <1>5
  <2>4. CASE size = 0
    <3>1. m' = Append(m, d) /\ m = <<>>  BY <2>2, <2>4, <1>2
    <3>2. Append(<<>>, d) = <<d>>  OBVIOUS
    <3>3. m' = <<d>>
      <4> DEFINE q == m'
      <4>1. q = Append(m, d)  BY <3>1
      <4> HIDE DEF q, m
      <4>2. q = <<d>>  BY <4>1, <3>1, <3>2
      <4> QED BY <4>2 DEF q
    <3> QED BY <2>1, <2>3, <3>1, <3>3 DEF L!Abstract!Next, L!Abstract!AddBehind
  <2>5. CASE size # 0
    <3>1. p \in 1..size /\ ref # Null /\ m[p] = ref  BY <2>2, <2>5, <1>1
    <3>2. L!Abstract!Has(ref) /\ L!Abstract!At(ref) = p  BY <3>1, MemberAt
    <3>3. m' = L!Abstract!InsertAt(m, L!Abstract!At(ref) + 1, d)  BY <2>2, <3>2
    <3> QED BY <2>1, <2>3, <3>2, <3>3 DEF L!Abstract!Next, L!Abstract!AddBehind
  <2> QED BY <2>4, <2>5
<1>7. ASSUME NEW d \in Data \cup {Null}, L!list_append(d)
      PROVE  L!Abstract!Next
  <2> DEFINE ref == L!list_tail
  <2>1. L!Insert(d, ref) /\ call' = <<"append", d>>  BY <1>7 DEF L!list_append
  <2>2. PICK p \in 0..size :
          /\ IF size = 0 THEN p = 0 ELSE p # 0 /\ ref # Null /\ m[p] = ref
          /\ m' = L!Abstract!InsertAt(m, p + 1, d)
          /\ p = size => m' = Append(m, d)
    BY <2>1, <1>5
  <2>3. ~L!Abstract!Has(d)  BY <2>1, <1>5
  <2>4. p = size
    <3>1. CASE size = 0  BY <2>2, <3>1
    <3>2. CASE size # 0
      <4>1. p \in 1..size /\ size \in 1..size /\ ref # Null /\ m[p] = ref
        BY <2>2, <3>2, <1>1
      <4>2. tail = L!Chain[size] /\ L!Chain[size] \in DOMAIN node
        BY <4>1, <3>2, <1>1, <1>4 DEF Linked
      <4>3. DOMAIN node \subseteq 1..MaxNodes  BY DEF ListInv
      <4>4. tail # Null  BY <4>2, <4>3, NodesAssumption
      <4>5. ref = m[size]  BY <4>1, <4>2, <4>4, <1>3 DEF L!list_tail
      <4> QED BY <4>1, <4>5 DEF ListInv
    <3> QED BY <3>1, <3>2
  <2>5. m' = Append(m, d)  BY <2>2, <2>4
  <2> QED BY <2>1, <2>3, <2>5 DEF L!Abstract!Next, L!Abstract!AddLast
<1>8. ASSUME NEW d \in Data, L!list_remove(d) PROVE L!Abstract!Next
  <2>1. PICK p \in 1..size : d # Null /\ m[p] = d /\ m' = Shorter(m, size, p)
    BY <1>8, ListRemove
  <2>2. L!Abstract!Has(d) /\ L!Abstract!At(d) = p  BY <2>1, MemberAt
  <2>3. L!Abstract!RemoveAt(m, p) = Shorter(m, size, p)
    <3> HIDE DEF m
    <3> QED BY <1>1, RemoveIs
  <2>4. m' = L!Abstract!RemoveAt(m, L!Abstract!At(d))  BY <2>1, <2>2, <2>3
  <2>5. call' = <<"remove", d>>  BY <1>8 DEF L!list_remove
  <2> QED BY <2>2, <2>4, <2>5 DEF L!Abstract!Next, L!Abstract!Take
<1>9. CASE L!list_delete
  <2>1. call' = <<"delete">> /\ \A i \in DOMAIN node : node[i].data # Null
    BY <1>9 DEF L!list_delete
  <2>2. \A k \in 1..size : m[k] # Null  BY <2>1, <1>3, <1>4 DEF Linked
  <2>3. ~L!Abstract!Contains(m, Null)  BY <2>2, <1>1 DEF L!Abstract!Contains
  <2>5. m' = <<>>  BY <1>9, ListDeletes
  <2> QED BY <2>1, <2>3, <2>5 DEF L!Abstract!Next, L!Abstract!Clear
<1> QED BY <1>6, <1>7, <1>8, <1>9 DEF L!Next

-----------------------------------------------------------------------------
(***************************************************************************)
(* The programs together: each behaviour runs one of them.                 *)
(***************************************************************************)
DevicesInv ==
  /\ program = "usb" => UsbInv
  /\ program = "sbull" => SbullInv /\ DataInv
  /\ program = "tty" => TtyInv
  /\ program = "serial" => SerialInv
  /\ program = "list" => ListInv
  /\ program = "player" => PlayerInv

\* Whichever program is chosen begins right.
LEMMA DevicesInit == Init => DevicesInv
BY UsbInit, SbullInit, DataInit, TtyInit, SerialInit, ListInit, PlayerInit
DEF Init, DevicesInv

\* And goes on right: a step is one of the chosen program's.
LEMMA DevicesStep == DevicesInv /\ [Next]_vars => DevicesInv'
<1> SUFFICES ASSUME DevicesInv, [Next]_vars PROVE DevicesInv'
  OBVIOUS
<1>1. CASE StepUsb  BY <1>1, UsbStep DEF StepUsb, DevicesInv
<1>2. CASE StepSbull  BY <1>2, SbullStep, DataStep DEF StepSbull, DevicesInv
<1>3. CASE StepTty  BY <1>3, TtyStep DEF StepTty, DevicesInv
<1>4. CASE StepSerial  BY <1>4, SerialStep DEF StepSerial, DevicesInv
<1>a. CASE StepList  BY <1>a, ListStep DEF StepList, DevicesInv
<1>5. CASE PlayerDoes(P!Next)  BY <1>5, PlayerStep DEF PlayerDoes, DevicesInv
<1>6. CASE UNCHANGED vars
  <2>1. UNCHANGED <<program, fault, usb, sbull, tty, serial, list, player>>  BY <1>6 DEF vars
  <2>2. program = "usb" => UsbInv'
    BY <2>1 DEF DevicesInv, usb, UsbInv, UsbTypes, UsbFlags, UsbBus, UsbCount, BusRef,
                Bound, U!Holders
  <2>3. program = "sbull" => SbullInv' /\ DataInv'
    BY <2>1 DEF DevicesInv, sbull, SbullInv, SbullTypes, SbullIdle, OpenDisks, DataInv,
                B!DataKept
  <2>4. program = "tty" => TtyInv'
    BY <2>1 DEF DevicesInv, tty, TtyInv, TtyTypes, TtyCalls, T!TimerWhileOpen
  <2>5. program = "player" => PlayerInv'
    BY <2>1 DEF DevicesInv, player, PlayerInv, PlayerTypes, PlayerFlags, PlayerTurns,
                PlayerStops, P!PadsCanLink
  <2>6. program = "serial" => SerialInv'
    BY <2>1 DEF DevicesInv, serial, SerialInv, SerialTypes, SerialInOrder, SerialPending,
                SerialPlace
  <2>7. program = "list" => ListInv'
    <3>1. UNCHANGED <<node, head, tail, size, L!Chain, L!members>>
      BY <2>1 DEF list, L!Chain, L!members
    <3> QED BY <3>1, Zenon DEF DevicesInv, ListInv, Linked
  <2> QED BY <2>1, <2>2, <2>3, <2>4, <2>5, <2>6, <2>7 DEF DevicesInv
<1> QED BY <1>1, <1>2, <1>3, <1>4, <1>5, <1>6, <1>a DEF Next

\* So what each program keeps holds in all of its behaviours.
LEMMA DevicesKeep == Spec => []DevicesInv
BY DevicesInit, DevicesStep, PTL DEF Spec

\* The object of usb-skeleton lives exactly as long as the bus or a file refers to
\* it, however many files there are and whenever the device is unplugged.
THEOREM ObjectOutlivesUsers == Spec => []ObjectHeld
<1>1. DevicesInv => ObjectHeld
  <2>1. UsbInv => U!ObjectHeld
    <3>a. U!Cardinality(U!Holders) = Cardinality(U!Holders)
      BY DEF U!Cardinality, Cardinality
    <3> SUFFICES ASSUME UsbInv, fault = "none"
                 PROVE  /\ kref = Cardinality(U!Holders)
                                  + (IF intfdata \/ probing # "idle" \/ bye = "put" THEN 1 ELSE 0)
                        /\ dev = "none" <=> kref = 0
      BY <3>a, Zenon DEF UsbInv, U!ObjectHeld
    <3>1. BusRef = IF intfdata \/ probing # "idle" \/ bye = "put" THEN 1 ELSE 0
      BY DEF BusRef, Bound
    <3>2. UsbCount  BY DEF UsbInv
    <3> QED BY <3>1, <3>2, Zenon DEF UsbCount
  <2> QED BY <2>1 DEF DevicesInv, ObjectHeld
<1> QED BY <1>1, DevicesKeep, PTL

\* No timer of sbull is pending and no handler of it runs while the disk is open or
\* gone, for any number of users.
THEOREM MediumKept == Spec => []InvalidatedIdle
<1>1. DevicesInv => InvalidatedIdle
  <2>1. SbullInv => B!InvalidatedIdle
    <3> SUFFICES ASSUME SbullInv, invalidate # "idle" PROVE users = 0 /\ disk = "ready"
      BY DEF B!InvalidatedIdle
    <3>1. disk = "ready" /\ OpenDisks = {}  BY DEF SbullInv, SbullIdle, OpenDisks
    <3> QED BY <3>1, FS_EmptySet DEF SbullInv, SbullTypes
  <2> QED BY <2>1 DEF DevicesInv, InvalidatedIdle
<1> QED BY <1>1, DevicesKeep, PTL

\* The timer of tiny_tty is pending only while the port is counted open.
THEOREM TimerEndsWithPort == Spec => []TimerWhileOpen
<1>1. DevicesInv => TimerWhileOpen  BY DEF DevicesInv, TtyInv, TimerWhileOpen
<1> QED BY <1>1, DevicesKeep, PTL

\* The two threads of the player never work on the pipeline at the same time,
\* though only parts of that work are under the lock.
THEOREM OneThreadBuilds == Spec => []OneBuilder
<1>1. DevicesInv => OneBuilder
  BY DEF DevicesInv, PlayerInv, PlayerTurns, OneBuilder, P!OneBuilder
<1> QED BY <1>1, DevicesKeep, PTL

\* A pipeline built for a new channel can link its pads, as no flag is left from the
\* one before.
THEOREM NewPipelineLinks == Spec => []PadsCanLink
<1>1. DevicesInv => PadsCanLink  BY DEF DevicesInv, PlayerInv, PadsCanLink
<1> QED BY <1>1, DevicesKeep, PTL

\* What was written to sbull's disk is what it holds and what a read returns, until it
\* was closed by everyone and came back empty, whatever segments the bios have, as
\* long as no bio with unequal ones was moved by sbull_xfer_bio.
THEOREM WrittenIsRead == Spec => []DataKept
<1>1. DevicesInv => DataKept  BY DEF DevicesInv, DataInv, DataKept
<1> QED BY <1>1, DevicesKeep, PTL

\* Each character written to tiny_serial is sent once and in order, or waits, or was
\* dropped at the shutdown, for every size of the buffer and of the fifo.
THEOREM CharsInOrder == Spec => []CharsSent
<1>1. DevicesInv => CharsSent
  <2>1. SerialInv => S!CharsSent
    <3> SUFFICES ASSUME SerialInv PROVE S!CharsSent
      OBVIOUS
    <3>1. S!Pending = SerialPending  BY SerialCount DEF SerialInv
    <3>2. DOMAIN tx = 1 .. Len(tx)  BY DEF SerialInv, SerialTypes
    <3> QED BY <3>1, <3>2 DEF S!CharsSent, SerialInv, SerialInOrder
  <2> QED BY <2>1 DEF DevicesInv, CharsSent
<1> QED BY <1>1, DevicesKeep, PTL

\* The links back of list mirror the links forward and every node is on the chain, for
\* any number of nodes.
THEOREM ListKept == Spec => []ListLinked
<1>1. DevicesInv => ListLinked  BY ListKeeps DEF DevicesInv, ListLinked
<1> QED BY <1>1, DevicesKeep, PTL

\* The linked list implements the sequence that list.h describes: each call does to the
\* members what it says of the call.
THEOREM ListIsSequence == Spec => ListImplemented
<1>1. Init => L!Abstract!Init
  <2>1. L!Init => L!members = <<>>  BY ListInit, ListEmpty DEF L!Init, L!Empty
  <2> QED BY <2>1 DEF Init, L!Init, L!Abstract!Init
<1>2. DevicesInv /\ [Next]_vars => [L!Abstract!Next]_<<L!members, call>>
  <2> SUFFICES ASSUME DevicesInv, [Next]_vars
               PROVE  L!Abstract!Next \/ UNCHANGED <<L!members, call>>
    OBVIOUS
  <2>1. CASE StepList  BY <2>1, ListMaps DEF StepList, DevicesInv
  <2>2. CASE UNCHANGED list
    <3>1. UNCHANGED <<node, head, tail, size, call>>  BY <2>2 DEF list
    <3> QED BY <3>1 DEF L!members, L!Chain
  <2>3. StepList \/ UNCHANGED list
    BY DEF Next, StepUsb, StepSbull, StepTty, StepSerial, PlayerDoes, vars
  <2> QED BY <2>1, <2>2, <2>3
<1> QED BY <1>1, <1>2, DevicesKeep, PTL DEF Spec, ListImplemented, L!ListImplemented
=============================================================================

------------------------------ MODULE MCDevices ------------------------------
(***************************************************************************)
(* The small drivers and programs, one of them in each behaviour.          *)
(***************************************************************************)
EXTENDS Integers, Sequences, FiniteSets

CONSTANTS Files, MaxUrbs, Sectors, MaxWrites, MaxCount,
          Size, FifoSizes, MaxChars, Data, Null, MaxNodes, MaxZaps

VARIABLES
  program, fault,
  plugged, intfdata, minor, probing, bye, dev, kref, bkl, fpc, urbs, buffers, sent,
  request_mode, disk, users, media_change, invalidate, bd_sem, file,
  data, wanted, writes, uneven, misread,
  tiny, open_count, sem, driver_data, timer, mcr, tpc,
  started, rxtimer, fifosize, x_char, stopped, xmit, xhead, xtail,
  written, dropped, tx,
  node, head, tail, size, call,
  next, running, zaps, built, playing, linked, pads, owner

(* Files and opens are by processes, which are not the bus.                *)
ASSUME FilesAssumption == IsFiniteSet(Files) /\ "nobody" \notin Files /\ "usbcore" \notin Files

(* The transmit buffer has a place, and a fifo a size.                     *)
ASSUME SerialAssumption == Size \in Nat \ {0} /\ FifoSizes \subseteq Int

(* The null pointer is not a node.                                         *)
ASSUME NodesAssumption == MaxNodes \in Nat /\ Null \notin 1 .. MaxNodes

(* The disk's capacity is a number of sectors.                             *)
ASSUME SectorsAssumption == Sectors \in Nat

Segments == {<<1>>, <<1, 1>>, <<2, 1>>, <<1, 2>>}

U == INSTANCE UsbSkel
B == INSTANCE Sbull WITH Users <- Files
T == INSTANCE TinyTty WITH Openers <- Files
S == INSTANCE TinySerial
L == INSTANCE DList
P == INSTANCE Player

usb    == <<plugged, intfdata, minor, probing, bye, dev, kref, bkl, fpc, urbs, buffers, sent>>
sbull  == <<request_mode, disk, users, media_change, invalidate, bd_sem, file,
            data, wanted, writes, uneven, misread>>
tty    == <<tiny, open_count, sem, driver_data, timer, mcr, tpc>>
serial == <<started, rxtimer, fifosize, x_char, stopped, xmit, xhead, xtail,
            written, dropped, tx>>
list   == <<node, head, tail, size, call>>
player == <<next, running, zaps, built, playing, linked, pads, owner>>
vars   == <<program, fault, usb, sbull, tty, serial, list, player>>

Init ==
  /\ program \in {"usb", "sbull", "tty", "serial", "list", "player"}
  /\ U!Init /\ B!Init /\ T!Init /\ S!Init /\ L!Init /\ P!Init

StepUsb ==
  /\ program = "usb" /\ U!Next
  /\ UNCHANGED <<program, sbull, tty, serial, list, player>>

StepSbull ==
  /\ program = "sbull" /\ B!Next
  /\ UNCHANGED <<program, usb, tty, serial, list, player>>

StepTty ==
  /\ program = "tty" /\ T!Next
  /\ UNCHANGED <<program, usb, sbull, serial, list, player>>

StepSerial ==
  /\ program = "serial" /\ S!Next
  /\ UNCHANGED <<program, fault, usb, sbull, tty, list, player>>

StepList ==
  /\ program = "list" /\ L!Next
  /\ UNCHANGED <<program, fault, usb, sbull, tty, serial, player>>

PlayerDoes(action) ==
  /\ program = "player" /\ action
  /\ UNCHANGED <<program, fault, usb, sbull, tty, serial, list>>

Next == StepUsb \/ StepSbull \/ StepTty \/ StepSerial \/ StepList \/ PlayerDoes(P!Next)

(* The player's threads go on with their calls.                            *)
Fairness == /\ WF_vars(PlayerDoes(P!main))
            /\ WF_vars(PlayerDoes(P!handle_channel_zapping))

Spec == Init /\ [][Next]_vars /\ Fairness

(* usb-skeleton: the object lives as long as somebody holds it.            *)
ObjectHeld == program = "usb" => U!ObjectHeld

(* sbull: no timer and no handler of it while the disk is open or gone.    *)
InvalidatedIdle == program = "sbull" => B!InvalidatedIdle

(* sbull: what was written is read again until the medium changes.         *)
DataKept == program = "sbull" => B!DataKept

(* tiny_tty: the timer is pending only while the port is counted open.     *)
TimerWhileOpen == program = "tty" => T!TimerWhileOpen

(* tiny_tty: "number of times this port has been opened".                  *)
OpensCounted == program = "tty" => T!OpensCounted

(* tiny_serial: each character written is sent once and in order.          *)
CharsSent == program = "serial" => S!CharsSent

(* list: the links back mirror the links forward, and no node is lost.     *)
ListLinked == program = "list" => L!ListLinked

(* list: every call does to the members what list.h says of it.            *)
ListImplemented == L!ListImplemented

(* player: one thread at a time works on the pipeline.                     *)
OneBuilder == program = "player" => P!OneBuilder

(* player: the pads of a new pipeline can be linked.                       *)
PadsCanLink == program = "player" => P!PadsCanLink

(* player: a change of channel ends, and so does the program after 'q'.    *)
CallsEnd == P!CallsEnd
=============================================================================

------------------------------- MODULE UsbSkel -------------------------------
(***************************************************************************)
(* usb-skeleton: a device object that probe, every open file and nobody    *)
(* else hold by a reference count, on a bus where the device is unplugged  *)
(* between any two steps.                                                  *)
(*                                                                         *)
(* The character layer calls open with the big kernel lock held, which     *)
(* disconnect takes as well.  A step that uses a freed object, or frees a  *)
(* buffer twice, sets `fault` and ends the behaviour.                      *)
(***************************************************************************)
EXTENDS Integers, FiniteSets

CONSTANTS
  Files,    \* processes, each with at most one open file
  MaxUrbs   \* bound: write requests in flight

VARIABLES
  plugged,  \* the device is on the bus
  dev,      \* struct usb_skel: "none" or "there"
  kref,     \* its count
  intfdata, \* usb_get_intfdata is the object
  minor,    \* usb_register_dev has given a minor
  probing,  \* probe's step: "idle", "init", "set"
  bye,      \* disconnect's step: "idle", "locked", "put"
  bkl,      \* who holds the kernel lock
  fpc,      \* each file's step
  urbs,     \* submitted write requests
  buffers,  \* write buffers allocated and not freed
  sent,     \* whose transfer bulk_in_buffer, one for all, holds
  fault     \* "none", "freed", "twice", "null"

bus  == <<plugged, intfdata, minor, probing, bye>>
vars == <<bus, dev, kref, bkl, fpc, urbs, buffers, sent, fault>>

Nobody == "nobody"
Core   == "usbcore"

Init ==
  /\ plugged = FALSE /\ dev = "none" /\ kref = 0
  /\ intfdata = FALSE /\ minor = FALSE
  /\ probing = "idle" /\ bye = "idle" /\ bkl = Nobody
  /\ fpc = [f \in Files |-> "closed"]
  /\ urbs = 0 /\ buffers = 0 /\ sent = Nobody
  /\ fault = "none"

Goto(f, step) == fpc' = [fpc EXCEPT ![f] = step]

(* Any use of the object.                                                  *)
Use == fault' = IF dev = "none" THEN "freed" ELSE fault

(* kref_put: the last reference calls skel_delete.                         *)
Put ==
  /\ Use
  /\ kref' = kref - 1
  /\ dev' = IF kref' = 0 THEN "none" ELSE dev

-----------------------------------------------------------------------------
(* Plugging in and out                                                     *)

(* skel_probe up to the two endpoints; an allocation that fails or an      *)
(* endpoint that is missing puts the object again.                         *)
ProbeInit ==
  /\ ~plugged /\ probing = "idle" /\ bye = "idle" /\ dev = "none"
  /\ plugged' = TRUE
  /\ \/ dev' = "there" /\ kref' = 1 /\ probing' = "init"
     \/ UNCHANGED <<dev, kref, probing>>
  /\ UNCHANGED <<intfdata, minor, bye, bkl, fpc, urbs, buffers, sent, fault>>

ProbeSet ==
  /\ probing = "init"
  /\ intfdata' = TRUE /\ probing' = "set"
  /\ UNCHANGED <<plugged, minor, bye, dev, kref, bkl, fpc, urbs, buffers, sent, fault>>

(* usb_register_dev: from here on it can be opened.                        *)
ProbeRegister ==
  /\ probing = "set" /\ probing' = "idle"
  /\ \/ minor' = TRUE /\ UNCHANGED <<intfdata, dev, kref, fault>>
     \/ intfdata' = FALSE /\ Put /\ UNCHANGED minor
  /\ UNCHANGED <<plugged, bye, bkl, fpc, urbs, buffers, sent>>

skel_probe == ProbeInit \/ ProbeSet \/ ProbeRegister

\* Mutant: the kernel lock is not taken.
DisconnectUnlocked ==
  /\ plugged /\ probing = "idle" /\ bye = "idle"
  /\ plugged' = FALSE
  /\ IF intfdata THEN bye' = "locked" ELSE UNCHANGED bye
  /\ UNCHANGED <<intfdata, minor, probing, dev, kref, bkl, fpc, urbs, buffers, sent, fault>>

(* A device that was probed is taken away by disconnect, which waits for   *)
(* the kernel lock.                                                        *)
Disconnect ==
  /\ plugged /\ probing = "idle" /\ bye = "idle"
  /\ plugged' = FALSE
  /\ IF intfdata THEN bkl = Nobody /\ bkl' = Core /\ bye' = "locked" ELSE UNCHANGED <<bkl, bye>>
  /\ UNCHANGED <<intfdata, minor, probing, dev, kref, fpc, urbs, buffers, sent, fault>>

(* The object is no longer found and the minor given back.                 *)
DisconnectHide ==
  /\ bye = "locked" /\ bye' = "put"
  /\ intfdata' = FALSE /\ minor' = FALSE
  /\ bkl' = IF bkl = Core THEN Nobody ELSE bkl
  /\ UNCHANGED <<plugged, probing, dev, kref, fpc, urbs, buffers, sent, fault>>

DisconnectPut ==
  /\ bye = "put" /\ bye' = "idle"
  /\ Put
  /\ UNCHANGED <<plugged, intfdata, minor, probing, bkl, fpc, urbs, buffers, sent>>

skel_disconnect == Disconnect \/ DisconnectHide \/ DisconnectPut

-----------------------------------------------------------------------------
(* Open and release                                                        *)

(* usb_find_interface and usb_get_intfdata, then kref_get, with the lock.  *)
OpenFind(f) ==
  /\ fpc[f] = "closed" /\ bkl = Nobody /\ minor
  /\ IF intfdata THEN bkl' = f /\ Goto(f, "found") ELSE UNCHANGED <<bkl, fpc>>
  /\ UNCHANGED <<bus, dev, kref, urbs, buffers, sent, fault>>

OpenGet(f) ==
  /\ fpc[f] = "found"
  /\ Use
  /\ kref' = kref + 1
  /\ bkl' = Nobody
  /\ Goto(f, "open")
  /\ UNCHANGED <<bus, dev, urbs, buffers, sent>>

skel_open(f) == OpenFind(f) \/ OpenGet(f)

skel_release(f) ==
  /\ fpc[f] = "open"
  /\ Put
  /\ Goto(f, "closed")
  /\ UNCHANGED <<bus, bkl, urbs, buffers, sent>>

-----------------------------------------------------------------------------
(* Read and write                                                          *)

(* The bulk transfer, into the one buffer of the device; it fails when the *)
(* device is gone or does not answer in time.                              *)
ReadTransfer(f) ==
  /\ fpc[f] = "open"
  /\ Use
  /\ \/ plugged /\ sent' = f /\ Goto(f, "copy")
     \/ UNCHANGED <<sent, fpc>>
  /\ UNCHANGED <<bus, dev, kref, bkl, urbs, buffers>>

ReadCopy(f) ==
  /\ fpc[f] = "copy"
  /\ Use
  /\ Goto(f, "open")
  /\ UNCHANGED <<bus, dev, kref, bkl, urbs, buffers, sent>>

skel_read(f) == ReadTransfer(f) \/ ReadCopy(f)

(* The request, its buffer and the copy from user space.  Without a        *)
(* request the error path looks into it; a copy that faults frees the      *)
(* buffer by usb_buffer_free and by kfree.                                 *)
WriteAlloc(f) ==
  /\ fpc[f] = "open" /\ urbs < MaxUrbs
  /\ \/ dev = "none" /\ fault' = "freed" /\ UNCHANGED <<fpc, buffers>>
     \/ dev = "there" /\ fault' \in {"null", "twice"} /\ UNCHANGED <<fpc, buffers>>
     \/ dev = "there" /\ buffers' = buffers + 1 /\ Goto(f, "submit") /\ UNCHANGED fault
     \/ UNCHANGED <<fpc, buffers, fault>>                   \* no buffer
  /\ UNCHANGED <<bus, dev, kref, bkl, urbs, sent>>

(* A device that is gone takes no request: the error path again.           *)
WriteSubmit(f) ==
  /\ fpc[f] = "submit"
  /\ \/ plugged /\ urbs' = urbs + 1 /\ Use /\ UNCHANGED buffers
     \/ /\ buffers' = buffers - 1 /\ UNCHANGED urbs
        /\ fault' = IF dev = "none" THEN "freed" ELSE "twice"
  /\ Goto(f, "open")
  /\ UNCHANGED <<bus, dev, kref, bkl, sent>>

skel_write(f) == WriteAlloc(f) \/ WriteSubmit(f)

(* Completion, also of the requests that unplugging has unlinked, frees    *)
(* the buffer and does not touch the object.                               *)
skel_write_bulk_callback ==
  /\ urbs > 0
  /\ urbs' = urbs - 1 /\ buffers' = buffers - 1
  /\ UNCHANGED <<bus, dev, kref, bkl, fpc, sent, fault>>

Next ==
  /\ fault = "none"
  /\ \/ skel_probe \/ skel_disconnect \/ skel_write_bulk_callback
     \/ \E f \in Files : \/ skel_open(f) \/ skel_release(f)
                         \/ skel_read(f) \/ skel_write(f)

-----------------------------------------------------------------------------
Holders ==
  {f \in Files : fpc[f] \in {"open", "copy", "submit"}}

(* The device object lives exactly as long as someone holds it: probe or   *)
(* the bus until disconnect has put it, and every open file.               *)
ObjectHeld ==
  /\ fault # "freed"
  /\ fault = "none" =>
       /\ kref = Cardinality(Holders)
                 + (IF intfdata \/ probing # "idle" \/ bye = "put" THEN 1 ELSE 0)
       /\ dev = "none" <=> kref = 0

=============================================================================

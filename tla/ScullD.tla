------------------------------- MODULE ScullD -------------------------------
(***************************************************************************)
(* sculld: scullp registered with the driver model, as devices of the ldd   *)
(* bus.                                                                    *)
(***************************************************************************)
EXTENDS ScullPages

(* Quanta of PAGE_SIZE << order.  The order of the device is that of its   *)
(* first item; a later item is cleared memory, of order 0.                 *)
Quantum == 2^dev.order
Blocks  == <<Quantum, 1>>

(* While the order is 0, or there is no later item, every block is one     *)
(* quantum long.                                                           *)
Regular == dev.order = 0 \/ Len(list) = 1

sculld_trim == Trim

sculld_open(t) == Open(t, sculld_trim)
sculld_release(t) == Release(t)
sculld_ioctl(t) == SetParam(t)

sculld_defer_op(t) == Queue(t)
sculld_do_deferred_op(t) == Complete(t)

sculld_read(t) ==
  \/ Enter(t, Quantum)
  \/ Read(t, Quantum, sculld_defer_op(t))

sculld_write(t) ==
  \/ Enter(t, Quantum)
  \/ Write(t, Quantum, Blocks, Blocks, sculld_defer_op(t))

sculld_vma_open(t) == VmaOpen(t) \/ StoreVmas(t)
sculld_vma_close(t) == VmaClose(t)

sculld_mmap(t) == Mmap(t, dev.order = 0)

(* The copy lost the line that sets page from the address.                 *)
sculld_vma_nopage(t) == PageFault(t, FALSE)

(* Each device is registered with the bus by sculld_register_dev after its *)
(* cdev; a failed allocation leaves the driver registered.                 *)
sculld_init ==
  \/ Load("live", {"driver", "ldevs"})
  \/ /\ "driver" \notin reg
     /\ LoadFails({"driver"})

sculld_cleanup ==
  /\ phase = "live" /\ Unused
  /\ Unload(sculld_trim, {})

Next ==
  \/ sculld_init \/ sculld_cleanup
  \/ \E t \in Threads :
       \/ sculld_open(t) \/ sculld_release(t)
       \/ sculld_ioctl(t) \/ sculld_read(t) \/ sculld_write(t)
       \/ sculld_do_deferred_op(t)
       \/ Interrupted(t, sculld_defer_op(t))
       \/ sculld_mmap(t) \/ sculld_vma_open(t) \/ sculld_vma_close(t)
       \/ sculld_vma_nopage(t)
=============================================================================

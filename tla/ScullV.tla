------------------------------- MODULE ScullV -------------------------------
(***************************************************************************)
(* scullv: the memory device on vmalloc areas, which can be mapped.        *)
(***************************************************************************)
EXTENDS ScullPages

(* Quanta of PAGE_SIZE << order.  The order of the device is that of its   *)
(* first item; a later item is cleared memory, of order 0.                 *)
Quantum == 2^dev.order
Blocks  == <<Quantum, 1>>

(* While the order is 0, or there is no later item, every block is one     *)
(* quantum long.                                                           *)
Regular == dev.order = 0 \/ Len(list) = 1

scullv_trim == Trim

scullv_open(t) == Open(t, scullv_trim)
scullv_release(t) == Release(t)
scullv_ioctl(t) == SetParam(t)

scullv_defer_op(t) == Queue(t)
scullv_do_deferred_op(t) == Complete(t)

scullv_read(t) ==
  \/ Enter(t, Quantum)
  \/ Read(t, Quantum, scullv_defer_op(t))

scullv_write(t) ==
  \/ Enter(t, Quantum)
  \/ Write(t, Quantum, Blocks, Blocks, scullv_defer_op(t))

scullv_vma_open(t) == VmaOpen(t) \/ StoreVmas(t)
scullv_vma_close(t) == VmaClose(t)

scullv_mmap(t) == Mmap(t, TRUE)
scullv_vma_nopage(t) == PageFault(t, TRUE)

(* The device is complete when it goes live.                               *)
scullv_init ==
  \/ Load("live", {})
  \/ LoadFails({})

scullv_cleanup ==
  /\ phase = "live" /\ Unused
  /\ Unload(scullv_trim, {})

Next ==
  \/ scullv_init \/ scullv_cleanup
  \/ \E t \in Threads :
       \/ scullv_open(t) \/ scullv_release(t)
       \/ scullv_ioctl(t) \/ scullv_read(t) \/ scullv_write(t)
       \/ scullv_do_deferred_op(t)
       \/ Interrupted(t, scullv_defer_op(t))
       \/ scullv_mmap(t) \/ scullv_vma_open(t) \/ scullv_vma_close(t)
       \/ scullv_vma_nopage(t)
=============================================================================

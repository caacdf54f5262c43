------------------------------- MODULE ScullP -------------------------------
(***************************************************************************)
(* scullp: the memory device on whole pages, which can be mapped.          *)
(***************************************************************************)
EXTENDS ScullPages

(* Quanta of PAGE_SIZE << order.  The order of the device is that of its   *)
(* first item; a later item is cleared memory, of order 0.                 *)
Quantum == 2^dev.order
Blocks  == <<Quantum, 1>>

(* While the order is 0, or there is no later item, every block is one     *)
(* quantum long.                                                           *)
Regular == dev.order = 0 \/ Len(list) = 1

scullp_trim == Trim

scullp_open(t) == Open(t, scullp_trim)
scullp_release(t) == Release(t)
scullp_ioctl(t) == SetParam(t)

scullp_defer_op(t) == Queue(t)
scullp_do_deferred_op(t) == Complete(t)

scullp_read(t) ==
  \/ Enter(t, Quantum)
  \/ Read(t, Quantum, scullp_defer_op(t))

scullp_write(t) ==
  \/ Enter(t, Quantum)
  \/ Write(t, Quantum, Blocks, Blocks, scullp_defer_op(t))

scullp_vma_open(t) == VmaOpen(t) \/ StoreVmas(t)
scullp_vma_close(t) == VmaClose(t)

\* Mutant: any order may be mapped.
scullp_mmap_any(t) == Mmap(t, TRUE)

\* Only order 0 may be mapped.
scullp_mmap(t) == Mmap(t, dev.order = 0)
scullp_vma_nopage(t) == PageFault(t, TRUE)

(* The device is complete when it goes live.                               *)
scullp_init ==
  \/ Load("live", {})
  \/ LoadFails({})

scullp_cleanup ==
  /\ phase = "live" /\ Unused
  /\ Unload(scullp_trim, {})

Next ==
  \/ scullp_init \/ scullp_cleanup
  \/ \E t \in Threads :
       \/ scullp_open(t) \/ scullp_release(t)
       \/ scullp_ioctl(t) \/ scullp_read(t) \/ scullp_write(t)
       \/ scullp_do_deferred_op(t)
       \/ Interrupted(t, scullp_defer_op(t))
       \/ scullp_mmap(t) \/ scullp_vma_open(t) \/ scullp_vma_close(t)
       \/ scullp_vma_nopage(t)
=============================================================================

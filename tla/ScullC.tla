------------------------------- MODULE ScullC -------------------------------
(***************************************************************************)
(* scullc: the memory device on objects of one slab cache.                 *)
(***************************************************************************)
EXTENDS ScullPages

(* The size parameter is the quantum, of any length; the cache was made    *)
(* with the quantum of the time and its objects never change.              *)
Quantum == dev.order

(* While no quantum exceeds the cache's objects.                           *)
Regular == dev.order <= cache /\ param.size <= cache

scullc_trim == Trim

scullc_open(t) == Open(t, scullc_trim)
scullc_release(t) == Release(t)
scullc_ioctl(t) == SetParam(t)

scullc_defer_op(t) == Queue(t)
scullc_do_deferred_op(t) == Complete(t)

scullc_read(t) ==
  \/ Enter(t, Quantum)
  \/ Read(t, Quantum, scullc_defer_op(t))

scullc_write(t) ==
  \/ Enter(t, Quantum)
  \/ Write(t, Quantum, <<cache, cache>>, <<param.size, param.size>>,
           scullc_defer_op(t))

(* The devices are live before there is a cache; when it cannot be made,   *)
(* scullc_cleanup frees the devices under whoever has opened one.          *)
scullc_init ==
  \/ Load("coming", {})
  \/ LoadFails({})

scullc_init_cache ==
  /\ phase = "coming" /\ fault = "none"
  /\ \/ /\ phase' = "live" /\ cache' = param.size /\ reg' = reg \cup {"cache"}
        /\ UNCHANGED <<param, device, files, call, vma, work, fault, stale>>
     \/ /\ Unused
        /\ Unload(scullc_trim, {})
     \/ ~Unused /\ Crash("wild")

scullc_cleanup ==
  /\ phase = "live" /\ Unused
  /\ Unload(scullc_trim, {})

Next ==
  \/ scullc_init \/ scullc_init_cache \/ scullc_cleanup
  \/ \E t \in Threads :
       \/ scullc_open(t) \/ scullc_release(t)
       \/ scullc_ioctl(t) \/ scullc_read(t) \/ scullc_write(t)
       \/ scullc_do_deferred_op(t)
       \/ Interrupted(t, scullc_defer_op(t))
=============================================================================

---------------------------- MODULE MCScullPages ----------------------------
(***************************************************************************)
(* The four memory drivers, one of them loaded in each behaviour.          *)
(***************************************************************************)
EXTENDS Integers, Sequences, FiniteSets, TLC

CONSTANTS Threads, Drivers, Orders, Quanta, Qsets, FewOrders, FewQsets, Counts, MaxPos,
          MaxVmas, MaxWork, Smp

VARIABLES driver, phase, reg, param, cache, dev, list, used, files, call, vma,
          work, fault, stale

(* Any processes, offsets and lengths; orders, lengths of an array, and,   *)
(* for scullc, a quantum that is not 0.                                    *)
ASSUME PagesAssumption ==
  /\ IsFiniteSet(Threads)
  /\ Drivers \subseteq {"scullc", "scullp", "sculld", "scullv"}
  /\ Orders \subseteq Nat /\ Orders # {} /\ FewOrders \subseteq Nat /\ FewOrders # {}
  /\ Quanta \subseteq Nat \ {0} /\ Quanta # {}
  /\ Qsets \subseteq Nat /\ Qsets \ {0} # {}
  /\ FewQsets \subseteq Nat /\ FewQsets \ {0} # {}
  /\ Counts \subseteq Nat /\ MaxPos \in Int

(* Both parameters of scullp have many values; of the others, which are    *)
(* the same code, only the one that their allocator makes different.       *)
C == INSTANCE ScullC WITH Sizes <- Quanta, Qsets <- FewQsets
P == INSTANCE ScullP WITH Sizes <- Orders
D == INSTANCE ScullD WITH Sizes <- FewOrders, Qsets <- FewQsets
V == INSTANCE ScullV WITH Sizes <- Orders, Qsets <- FewQsets

vars == <<driver, P!vars>>

Init ==
  /\ driver \in Drivers
  /\ CASE driver = "scullc" -> C!Init
       [] driver = "scullp" -> P!Init
       [] driver = "sculld" -> D!Init
       [] driver = "scullv" -> V!Init

StepC == driver = "scullc" /\ C!Next /\ UNCHANGED driver
StepP == driver = "scullp" /\ P!Next /\ UNCHANGED driver
StepD == driver = "sculld" /\ D!Next /\ UNCHANGED driver
StepV == driver = "scullv" /\ V!Next /\ UNCHANGED driver

Next == StepC \/ StepP \/ StepD \/ StepV

Spec == Init /\ [][Next]_vars

Symmetry == Permutations(Threads)

\* Bounds: no read or write while an asynchronous request waits, which has no part in
\* the device; and after a call with old sizes, one page and no such request.
CallBound ==
  /\ work # {} => \A t \in Threads : call[t].op # "io"
  /\ stale => used <= 1 /\ work = {}

(* No call, trim or page fault goes outside the block or the array it was  *)
(* given, on two conditions: no read or write has gone on with sizes that  *)
(* a trim changed after it had read them, before its down() (see           *)
(* WholeSetFreed), and the blocks are of one length: the order is 0 or     *)
(* there is no later list item (see WritesInQuantum), for scullc the       *)
(* quantum and its parameter have not grown beyond the objects of the      *)
(* cache.                                                                  *)
AccessesInBlock ==
  fault = "wild" => \/ stale
                    \/ ~IF driver = "scullc" THEN C!Regular ELSE P!Regular

(* Every page allocated for a quantum is in the list, so that the next     *)
(* trim finds it, and a module that is not loaded has left no page, until  *)
(* a read or write has gone on with sizes that a trim changed after it had *)
(* read them; and such a module has nothing registered, but for the driver *)
(* that a failed sculld_init leaves.                                       *)
NothingLost ==
  /\ ~stale => used = P!Pages(list)
  /\ phase = "unloaded" => /\ ~stale => used = 0
                           /\ reg \subseteq IF driver = "sculld" THEN {"driver"} ELSE {}

(* "This code frees a whole quantum-set" (scullp_trim, scullp/main.c:493): *)
(* every page allocated and not freed is in an array of the list.  It is   *)
(* false of the code after a call with sizes that a trim has changed.      *)
WholeSetFreed == used = P!Pages(list)

(* "write only up to the end of this quantum" (scullp_write,               *)
(* scullp/main.c:252), which is an access inside the quantum's block.  It  *)
(* is false of the code: the blocks of later items are allocated with the  *)
(* order that nothing has set, 0.                                          *)
WritesInQuantum == fault # "wild"

Mapped == \E t \in Threads : vma[t] > 0 /\ call[t].op = "none"

(* "keep track of how many times the device is mapped, to avoid releasing  *)
(* it": while a mapping stays, no quantum is freed and no size changes.    *)
MappedKept ==
  [][Mapped /\ Mapped' =>
       /\ dev'.order = dev.order /\ dev'.qset = dev.qset
       /\ \A i \in DOMAIN list : \A s \in DOMAIN list[i] :
            list[i][s] # 0 => list'[i][s] = list[i][s]]_vars

(* Each page of a mapping is the one where a read or write with the sizes  *)
(* of the device keeps the bytes at that offset.  (scullv maps at any      *)
(* order and then shows others; with arrays of no length there is no       *)
(* place.)                                                                 *)
MappingShowsFile ==
  Mapped /\ dev.qset # 0 /\ ~(driver = "scullv" /\ dev.order # 0) =>
    \A off \in 0..(dev.size - 1) :
      P!Nopage(off) = P!Place(off, 2^dev.order, dev.qset)
=============================================================================

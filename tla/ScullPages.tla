----------------------------- MODULE ScullPages -----------------------------
(***************************************************************************)
(* What the memory drivers scullc, scullp, sculld and scullv have in       *)
(* common: each is a copy of the same code around another allocator.  This *)
(* module holds the state of one device and the steps of the copies; the   *)
(* modules ScullC, ScullP, ScullD and ScullV give each driver's own        *)
(* operations.                                                             *)
(*                                                                         *)
(* The bytes of a page are one cell, so offsets count pages.  A section    *)
(* under dev->sem is one step: the only state that is read or written      *)
(* outside it is the geometry, the count of mappings and the parameters,   *)
(* and those reads and writes are steps of their own.  A call goes on with *)
(* the geometry it has read when a trim has changed it since: `stale`      *)
(* remembers that one did.  A wild access or a NULL pointer sets `fault`   *)
(* and ends the behaviour.                                                 *)
(***************************************************************************)
EXTENDS Integers, Sequences, FiniteSets, FiniteSetsExt

CONSTANTS
  Threads,  \* processes, each with at most one open file
  Sizes,    \* values of the size parameter (an order, for scullc a quantum)
  Qsets,    \* values of the qset parameter
  Counts,   \* lengths of a read or a write
  MaxPos,   \* bound: no call reaches beyond this offset
  MaxVmas,  \* bound: mappings of one process
  MaxWork,  \* bound: requests that wait for their completion
  Smp       \* TRUE: vmas++ and vmas-- are a load and a store on their own

VARIABLES
  phase,    \* the module: "unloaded", "coming" while init runs, "live"
  reg,      \* what init has registered and allocated
  param,    \* scullX_order or scullc_quantum, and scullX_qset
  cache,    \* size of the objects of scullc_cache, 0 when there is none
  dev,      \* the fields of the device: order, qset, size, vmas
  list,     \* list items: the data array of each, <<>> for a NULL one
  used,     \* pages allocated for quanta and not freed
  files,    \* threads with the device open
  call,     \* what each thread is in the middle of
  vma,      \* mappings of each thread
  work,     \* threads whose asynchronous request waits for its completion
  fault,    \* "none"; "oops": a NULL or a 0 divisor was used; "wild": a
            \* byte or a slot outside its block or array was
  stale     \* ghost: a read or write has gone on with sizes that a trim had
            \* changed since it read them

vars == <<phase, reg, param, cache, dev, list, used, files, call, vma, work,
          fault, stale>>

Default == [size |-> Min(Sizes), qset |-> Min(Qsets \ {0})]
NoCall  == [op |-> "none"]
NoDev   == [order |-> Default.size, qset |-> Default.qset, size |-> 0, vmas |-> 0]

Init ==
  /\ phase = "unloaded" /\ reg = {} /\ param = Default /\ cache = 0
  /\ dev = NoDev /\ list = << <<>> >> /\ used = 0
  /\ files = {} /\ call = [t \in Threads |-> NoCall]
  /\ vma = [t \in Threads |-> 0] /\ work = {}
  /\ fault = "none" /\ stale = FALSE

device == <<dev, list, used>>
module == <<phase, reg, param, cache>>
Ready(t) == fault = "none" /\ t \in files /\ call[t] = NoCall
Crash(kind) == fault' = kind /\ UNCHANGED <<module, device, files, call, vma, work, stale>>

(* The pages that the quanta of the items hold.                            *)
Pages(items) ==
  MapThenSumSet(LAMBDA p : items[p[1]][p[2]],
    UNION {{i} \X DOMAIN items[i] : i \in DOMAIN items})

-----------------------------------------------------------------------------
(* The list                                                                *)

(* follow: the list after the walk to its n-th item.                       *)
Follow(n) ==
  IF n <= Len(list) THEN list ELSE list \o [i \in 1..(n - Len(list)) |-> <<>>]

\* Mutant: the count of mappings is not looked at.
TrimMapped ==
  /\ list' = << <<>> >>
  /\ used' = used - Pages([i \in DOMAIN list |->
                             SubSeq(list[i], 1, Min({dev.qset, Len(list[i])}))])
  /\ dev' = [dev EXCEPT !.size = 0, !.order = param.size, !.qset = param.qset]

\* Mutant: the new geometry is set before the items are walked.
TrimNewFirst ==
  IF dev.vmas # 0
  THEN UNCHANGED device
  ELSE /\ list' = << <<>> >>
       /\ used' = used - Pages([i \in DOMAIN list |->
                                  SubSeq(list[i], 1, Min({param.qset, Len(list[i])}))])
       /\ dev' = [dev EXCEPT !.size = 0, !.order = param.size, !.qset = param.qset]

(* trim(dev): refused while mapped; else frees the first dev->qset quanta  *)
(* of every item, where no array is shorter.                               *)
Trim ==
  IF dev.vmas # 0
  THEN UNCHANGED device
  ELSE /\ list' = << <<>> >>
       /\ used' = used - Pages([i \in DOMAIN list |->
                                  SubSeq(list[i], 1, Min({dev.qset, Len(list[i])}))])
       /\ dev' = [dev EXCEPT !.size = 0, !.order = param.size, !.qset = param.qset]

(* A trim would look for quanta beyond the end of an array.                *)
Overruns ==
  dev.vmas = 0 /\ \E i \in DOMAIN list : list[i] # <<>> /\ Len(list[i]) < dev.qset

-----------------------------------------------------------------------------
(* Open and release                                                        *)

(* trim: the driver's own trim, for an open with O_WRONLY.                 *)
Open(t, trim) ==
  /\ fault = "none" /\ "cdev" \in reg /\ t \notin files
  /\ \/ Overruns /\ Crash("wild")
     \/ /\ UNCHANGED device \/ (~Overruns /\ trim)
        /\ files' = files \cup {t}
        /\ UNCHANGED <<module, call, vma, work, fault, stale>>

Release(t) ==
  /\ Ready(t)
  /\ files' = files \ {t}
  /\ UNCHANGED <<module, device, call, vma, work, fault, stale>>

(* ioctl: one of the two parameters takes any value (a set whose copy      *)
(* from user space fails stores 0), or both their default.                 *)
SetParam(t) ==
  /\ Ready(t)
  /\ \/ \E s \in Sizes : param' = [param EXCEPT !.size = s]
     \/ \E q \in Qsets : param' = [param EXCEPT !.qset = q]
     \/ param' = Default
  /\ UNCHANGED <<phase, reg, cache, device, files, call, vma, work, fault, stale>>

-----------------------------------------------------------------------------
(* Read and write                                                          *)

(* A read or a write copies the geometry before it takes the semaphore:    *)
(* the quantum, and then or later the length of the arrays.                *)
Enter(t, quantum) ==
  /\ \/ /\ Ready(t)
        /\ call' = [call EXCEPT ![t] = [op |-> "io", quantum |-> quantum,
                                                    qset |-> dev.qset]]
     \/ /\ fault = "none" /\ call[t].op = "io"
        /\ call' = [call EXCEPT ![t].qset = dev.qset]
  /\ UNCHANGED <<module, device, files, vma, work, fault, stale>>

(* The offset of a call: the file's position, which llseek sets to any     *)
(* value that is not negative, or that of an aio request.                  *)
Offsets(n) == 0..(MaxPos - n)

(* The completion of an asynchronous call is queued.                       *)
Queue(t) == Cardinality(work) < MaxWork /\ work' = work \cup {t}

(* The return of a call.  defer: the driver's queueing of an asynchronous  *)
(* one, which is done at once when there is no memory for it.              *)
Return(t, defer) ==
  /\ call' = [call EXCEPT ![t] = NoCall]
  /\ UNCHANGED <<files, vma>>
  /\ UNCHANGED work \/ defer

(* The signal that ends down_interruptible.                                *)
Interrupted(t, defer) ==
  /\ fault = "none" /\ call[t].op = "io"
  /\ Return(t, defer)
  /\ UNCHANGED <<module, device, fault, stale>>

(* Where a device of this geometry keeps offset pos: the item and the slot *)
(* in its array, counted from 1, and the place in the quantum.             *)
Place(pos, quantum, qset) ==
  LET inItem == pos % (quantum * qset)
  IN [item |-> pos \div (quantum * qset) + 1,
      slot |-> inItem \div quantum + 1,
      from |-> inItem % quantum]

\* Mutant: the copy does not stop at the end of the quantum.
InQuantumNot(count, p, quantum) == count

(* "only up to the end of this quantum": what a call moves of its count.   *)
InQuantum(count, p, quantum) == Min({count, quantum - p.from})

(* The semaphore is taken, and the call goes on with what it has copied.   *)
Serving(t, quantum) ==
  /\ fault = "none" /\ call[t].op = "io"
  /\ stale' = (stale \/ <<call[t].quantum, call[t].qset>> # <<quantum, dev.qset>>)
  /\ UNCHANGED module

(* A call that ends badly, with the list it has walked so far.             *)
Dies(kind, items) ==
  /\ fault' = kind /\ list' = items
  /\ UNCHANGED <<dev, used, files, call, vma, work>>

NoGeometry(t) == call[t].quantum * call[t].qset = 0

Read(t, quantum, defer) ==
  /\ Serving(t, quantum)
  /\ \E count \in Counts : \E pos \in Offsets(count) :
       \/ pos > dev.size /\ Return(t, defer) /\ UNCHANGED <<device, fault>>
       \/ pos <= dev.size /\ NoGeometry(t) /\ Dies("oops", list)
       \/ /\ pos <= dev.size /\ ~NoGeometry(t)
          /\ LET p     == Place(pos, call[t].quantum, call[t].qset)
                 items == Follow(p.item)
                 data  == items[p.item]
                 n     == Min({dev.size - pos, InQuantum(count, p, call[t].quantum)})
                 beyond == data # <<>> /\ p.slot > Len(data)
                 there == data # <<>> /\ ~beyond /\ data[p.slot] # 0
             IN \/ p.item > Len(list) /\ Dies("oops", list)   \* kmalloc failed
                \/ beyond /\ Dies("wild", items)
                \/ there /\ p.from + n > data[p.slot] /\ Dies("wild", items)
                \/ /\ ~beyond /\ (there => p.from + n <= data[p.slot])
                   /\ list' = items
                   /\ Return(t, defer) /\ UNCHANGED <<dev, used, fault>>

(* len and clear: the pages allocated for a quantum and the pages zeroed   *)
(* in it, <<in the first item, in a later one>>.  Each allocation may      *)
(* fail; what was allocated before it stays.                               *)
Write(t, quantum, len, clear, defer) ==
  /\ Serving(t, quantum)
  /\ \E count \in Counts : \E pos \in Offsets(count) :
       \/ NoGeometry(t) /\ Dies("oops", list)
       \/ /\ ~NoGeometry(t)
          /\ LET p     == Place(pos, call[t].quantum, call[t].qset)
                 items == Follow(p.item)
                 kind  == Min({p.item, 2})
                 data  == IF items[p.item] # <<>> THEN items[p.item]
                          ELSE [s \in 1..call[t].qset |-> 0]
                 n     == InQuantum(count, p, call[t].quantum)
                 within == p.slot <= Len(data)
                 new   == within /\ data[p.slot] = 0
                 block == IF new THEN len[kind] ELSE data[p.slot]
                 inside == p.from + n <= block /\ (new => clear[kind] <= block)
             IN \/ p.item > Len(list) /\ Dies("oops", list)   \* kmalloc failed
                \/ /\ \/ items[p.item] = <<>> /\ list' = items  \* no array
                      \/ /\ new                               \* no quantum
                         /\ list' = [items EXCEPT ![p.item] = data]
                   /\ Return(t, defer) /\ UNCHANGED <<dev, used, fault>>
                \/ new /\ len[kind] = 0 /\ Dies("oops", items)  \* no cache yet
                \/ ~within /\ Dies("wild", items)
                \/ within /\ block > 0 /\ ~inside /\ Dies("wild", items)
                \/ /\ within /\ block > 0 /\ inside
                   /\ list' = [items EXCEPT ![p.item] = [data EXCEPT ![p.slot] = block]]
                   /\ used' = used + (IF new THEN block ELSE 0)
                   /\ \/ UNCHANGED dev                        \* -EFAULT
                      \/ dev' = [dev EXCEPT !.size = Max({@, pos + n})]
                   /\ Return(t, defer) /\ UNCHANGED fault

(* The delayed work calls aio_complete and frees its record.               *)
Complete(t) ==
  /\ fault = "none" /\ t \in work
  /\ work' = work \ {t}
  /\ UNCHANGED <<module, device, files, call, vma, fault, stale>>

-----------------------------------------------------------------------------
(* Mapping                                                                 *)

(* dev->vmas += d: one instruction on a uniprocessor, else a load, here,   *)
(* and the store of StoreVmas.                                             *)
CountVmas(t, d) ==
  IF Smp
  THEN /\ call' = [call EXCEPT ![t] = [op |-> "vmas", value |-> dev.vmas + d]]
       /\ UNCHANGED dev
  ELSE /\ dev' = [dev EXCEPT !.vmas = @ + d]
       /\ UNCHANGED call

StoreVmas(t) ==
  /\ fault = "none" /\ call[t].op = "vmas"
  /\ dev' = [dev EXCEPT !.vmas = call[t].value]
  /\ call' = [call EXCEPT ![t] = NoCall]
  /\ UNCHANGED <<module, list, used, files, vma, work, fault, stale>>

(* mmap in two steps on a multiprocessor: the test of the order, where the *)
(* driver has one, and vma_open, which fork calls as well.                 *)
Mmap(t, allowed) ==
  /\ Ready(t) /\ vma[t] < MaxVmas /\ allowed
  /\ IF Smp
     THEN /\ call' = [call EXCEPT ![t] = [op |-> "mmap"]]
          /\ UNCHANGED <<dev, vma>>
     ELSE /\ CountVmas(t, 1)
          /\ vma' = [vma EXCEPT ![t] = @ + 1]
  /\ UNCHANGED <<module, list, used, files, work, fault, stale>>

VmaOpen(t) ==
  /\ fault = "none" /\ vma[t] < MaxVmas
  /\ \/ call[t].op = "mmap"
     \/ call[t] = NoCall /\ \E u \in Threads : vma[u] > 0   \* fork
  /\ CountVmas(t, 1)
  /\ vma' = [vma EXCEPT ![t] = @ + 1]
  /\ UNCHANGED <<module, list, used, files, work, fault, stale>>

VmaClose(t) ==
  /\ fault = "none" /\ call[t] = NoCall /\ vma[t] > 0
  /\ CountVmas(t, -1)
  /\ vma' = [vma EXCEPT ![t] = @ - 1]
  /\ UNCHANGED <<module, list, used, files, work, fault, stale>>

(* The block that nopage takes page `off` of the device from.              *)
Nopage(off) == [item |-> off \div dev.qset + 1, slot |-> (off % dev.qset) + 1, from |-> 0]
Present(b) ==
  b.item <= Len(list) /\ b.slot <= Len(list[b.item]) /\ list[b.item][b.slot] > 0

Beyond(b) ==
  b.item <= Len(list) /\ list[b.item] # <<>> /\ b.slot > Len(list[b.item])

(* A page fault in a mapping.  found: the driver turns the address into a  *)
(* page; without it get_page follows the NULL of NOPAGE_SIGBUS.            *)
PageFault(t, found) ==
  /\ fault = "none" /\ vma[t] > 0 /\ dev.qset > 0
  /\ \E off \in 0..(dev.size - 1) :
       \/ Beyond(Nopage(off)) /\ Crash("wild")
       \/ Present(Nopage(off)) /\ ~found /\ Crash("oops")

-----------------------------------------------------------------------------
(* Loading and unloading                                                   *)

(* Init has come as far as the devices: next is the phase it leaves and    *)
(* more what it registered beside region, devices and cdev.                *)
Load(next, more) ==
  /\ phase = "unloaded" /\ fault = "none"
  /\ phase' = next
  /\ reg' = reg \cup {"region", "devices", "cdev"} \cup more
  /\ dev' = [order |-> param.size, qset |-> param.qset, size |-> 0, vmas |-> 0]
  /\ UNCHANGED <<param, cache, list, used, files, call, vma, work, fault, stale>>

(* The allocation of the devices failed: what stays registered is left.    *)
LoadFails(left) ==
  /\ phase = "unloaded" /\ fault = "none"
  /\ reg' = reg \cup left
  /\ UNCHANGED <<phase, param, cache, device, files, call, vma, work, fault, stale>>

(* The module is unloaded only while nothing holds it: a file, a mapping   *)
(* and a queued request do.                                                *)
Unused == \A t \in Threads : t \notin files /\ vma[t] = 0 /\ t \notin work /\ call[t] = NoCall

Unload(trim, left) ==
  /\ fault = "none"
  /\ \/ Overruns /\ Crash("wild")
     \/ /\ ~Overruns /\ trim
        /\ phase' = "unloaded" /\ reg' = left /\ cache' = 0 /\ param' = Default
        /\ UNCHANGED <<files, call, vma, work, fault, stale>>
=============================================================================

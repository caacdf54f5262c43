# Verification of leipocode

TLA+ models of the drivers and libraries in this repository, the TLC runs that
check them on small instances, and TLAPS proofs of the results that matter most
for every instance. Paths below are relative to the repository; `LDD/` stands for
`src/LinuxDeviceDrivers3Ed/`. Line numbers in the modules' comments refer to the
file named in the module's header.

`PROJECT.json` lists the components, the runs, the mutants (for every property, a
plausible bug in one definition that the run must notice), the map from every
definition to the lines it stands for, the findings, the hazards and the theorems.

## 1. The system

The repository collects independent programs, most of them Linux 2.6 device
drivers. They share no state with one another (the scull family shares
`scull_trim`); what is hard in each of them is how the callers of one driver, its
interrupt handlers, timers and deferred work meet on that driver's state.

| Component | State | Operations | Hard behaviour |
|---|---|---|---|
| scullpipe `LDD/scull/pipe.c` | ring buffer and its pointers, open counts, semaphore, two wait queues, async list, global buffer size | open, release, read, write, poll, fasync, size ioctl | sleeping with and without the semaphore, lost wake-ups, wrap-around, an open that resets a ring in use, faulting copies, signals |
| scull access control `LDD/scull/access.c` | availability counter, open count and owner under a spinlock, a wait queue, the list of private devices | open and release of four devices | test-and-set without a lock, tests made before the lock, blocking opens, search-then-insert |
| scull memory device `LDD/scull/main.c` | list of arrays of quanta, geometry, size, file positions, global geometry | open, release, read, write, llseek, trim, ioctls | geometry read before the semaphore, allocation failing half-way, faulting copies, position arithmetic |
| scullc, scullp, sculld, scullv `LDD/scull[cpdv]/` | as above, count of mappings, pending aio | as above, mmap, nopage, aio | trimming under a mapping, count of mappings without a lock, completion after the caller has gone |
| snull `LDD/snull/snull.c` | packet pool, receive queue, status word, queue stop flag, the packet in flight | open, stop, transmit, interrupt, NAPI poll, transmit timeout | pool exhaustion, an interrupt lost on purpose, interrupt against poll, timeout against late completion |
| short `LDD/short/short.c` | a page used as a ring, head and tail, work counters, wait queue | read, write, interrupt, tasklet, workqueue, probing | interrupt against bottom half, overrun of the ring, counting interrupts while they arrive |
| shortprint `LDD/shortprint/shortprint.c` | output ring, `output_active`, timer, work item, wait queues | open, write, interrupt, bottom half, timeout | starting output once, timeout against interrupt, writers waiting for space |
| sbull `LDD/sbull/sbull.c` | sectors, user count, media-change flag, timer | open, release, media check, revalidate, requests, ioctl | timer that fires between close and open, requests in three modes |
| tiny tty, tiny serial `LDD/tty/` | open count, timer, modem bits, counters, table of ports | open, close, write, timer, tiocm ioctls, termios | timer that re-arms itself against the close that deletes it, failed open |
| usb-skeleton `LDD/usb/usb-skeleton.c` | reference count, interface pointer, urbs in flight | probe, open, release, read, write, write callback, disconnect | disconnect in every other operation, who frees last |
| jiq, jit, sleepy `LDD/misc-modules/` | jiq: one buffer description, work item, tasklet and timer for all reads; jit: one timer or tasklet per read; sleepy: a flag and a queue | proc reads, their handlers, read, write | test and sleep that are not one step, rescheduling that must stop, what a signal leaves behind |
| complete, lddbus, pci, skull, simple, silly, seq, faulty, hello `LDD/` | none beyond one call | registration, probing, remapping | none |
| list `src/list/` | doubly linked list with head, tail and cursor | insert, append, remove, delete, next, prev | cursor and ends kept consistent by long call sequences |
| gst-stmfrdk player `src/gst-stmfrdk/src/` | pipeline, its elements, a mutex | create, destroy, switch sink, channel change | error returns with the mutex held, resources half created |
| fd2fp, example, polymorphism, display_binary, script | none | | stand-alone exercises |

What makes each correct:

- **scullpipe**: bytes come out once, in order and as written; no reader or writer
  sleeps on what it waits for; the counts decide when the buffer is freed.
- **access control**: one open, one user, one device per terminal; whoever waits is
  let in; nothing is taken that is not given back.
- **memory device**: a file of bytes, for any geometry; arrays and quanta have the
  sizes by which they are later walked.
- **snull**: no packet is in the pool and in use at once, the pool comes back
  whole, the transmit queue is stopped only while someone will wake it.
- **short, shortprint**: bytes pass the ring in order; work scheduled is work done;
  output is active exactly while something will end it.
- **sbull**: the medium is dropped only when nobody used it for the whole delay.
- **jiq, jit, sleepy**: whoever sleeps has something to come that wakes it; deferred
  work ends with the read it was for.
- **tiny tty**: no timer runs on a freed port. **tiny serial**: every character is sent
  once and in order. **usb-skeleton**: the device is freed once, after its last user.
  **list**: a sequence without duplicates. **player**: one thread at a time builds or
  takes down the pipeline, and a change of channel ends.

## 2. Plan

The order was the most important behaviour first; each module takes its bounds as
CONSTANTS, has one action per step of the code that others can observe, and no
RECURSIVE operators, so that it can be proved about. Done:

1. `ByteFifo` (abstract) and `ScullPipe`, proofs `ScullPipe_proofs` (with the
   refinement).
2. `ScullAccess`, proofs `ScullAccess_proofs`.
3. `MemFile` (abstract) and `ScullMem`, proofs `ScullMem_proofs` (the refinement).
4. `Snull`, proofs `Snull_proofs`.
5. `ScullPages` with `ScullC`, `ScullP`, `ScullD`, `ScullV`: the four later memory
   drivers, composed by `MCScullPages`, proofs `ScullPages_proofs`.
6. `TimeRing` with `Short` and `ShortPrint`, and `WaitEvent` with `Jit` and `Sleepy`,
   and `Jiq`: interrupts, bottom halves and deferred work, composed by `MCPorts`, proofs
   `Ports_proofs`.
7. `UsbSkel`, `Sbull`, `TinyTty`, `TinySerial`, `ListSeq` (abstract) and `DList`,
   `Player`, composed by `MCDevices`, proofs `Devices_proofs`.

The programs of 5 to 7 share nothing, so a composing module picks one of them at the
start of a behaviour and leaves the variables of the others alone: one run asks the
same question of several of them.

`Sums` is a library for the proofs: what the recursive functions behind the folds of the
community modules are.

Left: module unload and configuration of `snull`; what the count of mappings still
guarantees on a multiprocessor (`Smp`), where two changes of it may be lost.

## 3. What is modelled

### ScullPipe and ByteFifo (`LDD/scull/pipe.c`)

State. The fields of `struct scull_pipe` keep their names; pointers into the
buffer are offsets, `alloc` is the size behind `buffer` (0 for NULL) and
`buffersize` what the device believes, as the code keeps the two apart. `mem` holds
the bytes. `sem` is the holder of the semaphore. `inq` and `outq` are the sets of
files on the two wait queues; a wake-up empties a queue. `pc[f]` is the step file
`f`'s call stands at; `count`, `ubuf` and `want` are what the call carries.

Actions. A call is cut where it takes or drops the semaphore, tests the ring
without it, moves a pointer in a way an unlocked test can see, or wakes a queue.

| Code | Steps |
|---|---|
| `scull_p_open` 58-90 | `Open`, `Down`, `OpenSucceeds`/`OpenFails` |
| `scull_p_release` 94-114 | `Release` (fasync removal), `Down`, `ReleaseCounts` |
| `scull_p_read` 118-155 | `Read`, `Down`, `ReadEmpty`, `ReadWait`, `ReadTest`, `ReadWoken`/`ReadSignalled`, `ReadTake`, `ReadWrap`, `ReadWake`, `ReadFaults` |
| `scull_getwritespace`, `scull_p_write` 159-227 | `Write`, `Down`, `WriteFull`, `WriteWait`, `WriteTest`, `WriteWoken`, `WritePut`, `WriteWrap`, `WriteWake`, `WriteFaults` |
| `scull_p_poll` 229-248 | `Poll`, `Down`, `PollTest`, `PollWoken` |
| `scull_p_fasync` 254-259 | `Fasync` |
| `SCULL_P_IOCTSIZE` (main.c 502-504) | `SetBufferSize` |
| a pending signal | `Interrupted`, `ReadSignalled` |

`ReadTake` leaves `rp` at the end of the buffer and `ReadWrap` brings it back: in
between, the unlocked tests of other files see the pointer there, and
`wait_event_interruptible` and `scull_getwritespace` are modelled with both of
their tests, before and after joining the queue.

`ByteFifo` is the promise: a queue of bytes that a write appends a part of its
data to and a read takes a part off, emptied when the last user leaves.
`IsFifo == Fifo!Spec` maps the ring's contents to that queue.

Abstractions. An unlocked evaluation of `spacefree` or of `rp != wp` reads its two
words in one step. A file makes one call at a time; O_NONBLOCK is fixed at open. A
file that is chosen for SIGIO gets it as one of the signals `Interrupted` allows at
any time. The debug proc file and module load and unload are left out.

### ScullAccess (`LDD/scull/access.c`)

A behaviour is about one of the four devices, `kind`, chosen initially: they share
nothing. Steps are cut at each atomic operation of `single`, where a spinlock is
taken, and at each test made without one (`scull_w_available` reads the count and
then the owner). The spinlock's critical sections are cut inside as well (`Grab`,
`Count`), since the sleepers' tests do not take the lock. `Trim` is a step of its own
because the opens call `scull_trim` without the semaphore; a read or write of the
device is the interval in which it holds the semaphore (`BeginIO`, `EndIO`). The
flags of an open are forgotten when it returns.

### ScullMem and MemFile (`LDD/scull/main.c`)

The device is a list of items, each absent (`<<>>`) or an array of `qset` quanta,
each absent or a sequence of `quantum` bytes. `scull_read` and `scull_write` copy
the geometry before `down` (l. 297, 341): that is the step `Read` or `Write`; what
they do holding the semaphore is one step, with one disjunct for each way it can
end (end of file, hole, no memory at each of the three allocations, fault after a
partial copy, success). `scull_follow` is modelled with its side effect: it extends
the list, and may get part of the way. The position of a file goes with it, so
`Release` resets it. `MemFile` is the promise: a file of bytes on which each read
and write takes effect at one instant. A write stores a byte at least, if it was given
one; one of no bytes beyond the end still makes the device reach to where the file
stands (l. 381-382), and so does its write in `MemFile`. `IsFile == File!Spec` maps the
quanta, read at the places of the offsets, to the file's bytes, and the bytes of a write
that waits for the semaphore to its offer.

Left out: the proc files, module load and unload, and the ioctls that only read.

### Snull (`LDD/snull/snull.c`)

Two interfaces, each the other's peer. The code has no threads of its own: the
kernel calls `snull_tx` and `snull_tx_timeout` of an interface one at a time
(`xmit_lock`), and its poll; the interrupt handlers are functions `snull_hw_tx`
calls. So the threads are `<<d, "xmit">>` and `<<d, "poll">>`. Each is cut where it
takes `priv->lock` and wherever it reads or writes shared data without it: the
test after `snull_release_buffer` unlocks, `rx_int_enabled`, the load and the store
of `status |=`, the poll's test for an empty queue and its store that enables
interrupts. The lists are sequences; a buffer's `next` is kept only as far as the
unlocked test at l. 159 can tell, as membership of `bottom`, which follows the buffer
from list to list. `skb[d]` tells what became of the packet remembered in
`priv->skb`, and a free of one already freed is seen in it.

| Code | Steps |
|---|---|
| `snull_get_tx_buffer` 132-147, `snull_enqueue_buf` 163-172 | `Get`, `Enqueue` |
| `snull_release_buffer` 150-161 | `Release`, `ReleaseTest`, `ReleaseWake` |
| `snull_open`, `snull_release` 202-224 | `Open`, `Stop` |
| `snull_hw_tx` 425-504, `snull_tx` 509-532 | `Transmit`, `Get`, `Enqueue`, `CheckEnabled`, `StatusLoad`, `StatusStore`, `RaiseOwn` or `DropInterrupt` |
| the handlers 333-418 | `Interrupt`, then `RegularInterrupt` (and `Release`) or `NapiInterrupt`; `AfterReceive`, `AfterTransmit`, `AfterTimeout` return to the caller |
| `snull_tx_timeout` 537-549 | `Timeout`, `Interrupt`, ..., `AfterTimeout` |
| `snull_poll` 287-327 | `Poll`, `PollDequeue`, `Release`, ..., `PollDone`, `PollComplete`, `PollEnable` |

Abstractions. `tx_packets` is kept modulo `lockup`. The quota only makes the poll's
loop start again. A failed `dev_alloc_skb` has the effect of a reception on
everything that is modelled. An interface has one poll at a time, its last store
included. The early return for a short packet, header rewriting, the statistics,
set_config, change_mtu and module unload are left out.

### ScullPages, ScullC, ScullP, ScullD, ScullV (`LDD/scullc/`, `scullp/`, `sculld/`, `scullv/`)

The four drivers are copies of one another around different allocators, with mmap and
asynchronous reads and writes added. `ScullPages` holds the state of one device and
the copied steps, as operators that take what differs: the quantum, the pages an
allocation gives and clears, the driver's own queueing. Each driver's module has one
definition for each of its functions and says what is its own: scullc's cache, whose
objects keep the size it was made with, and its devices that are live before there is
a cache (`scullc_init_cache`); the order of later list items, which nothing sets
(`Blocks`); the test of the order before a mapping, which scullv lacks; sculld's
registration with the ldd bus and its nopage.

The bytes of a page are one cell, so an offset counts pages and a list item holds, for
each slot, the pages its quantum was allocated with. What runs under `dev->sem` is one
step. The geometry that a call copies before it takes the semaphore is in `call`, and the call
goes on with it whatever a trim has made of the device since: its place, the array and
the quantum it allocates and the length it moves are those of the old sizes. The ghost
`stale` says that a read or write has done so. A NULL pointer ("oops") and an access
outside a block or an array ("wild") end the behaviour. A trim walks `dev->qset` slots of
each item and frees what it finds there (beyond the end of a shorter array the access is
wild, `Overruns`), so `used`, the pages allocated and not freed, can differ from what the
list holds: after a stale write it does.
The count of mappings is one step on one processor and a load and a store with `Smp`.

| Code (`scullp`; the others alike) | Steps |
|---|---|
| `scullp_open`, `scullp_trim`, `scullp_release` | `Open` with `Trim`, `Release` |
| `scullp_read`, `scullp_write`, aio | `Enter`, `Read`/`Write`, `Interrupted`, `Queue`, `Complete` |
| `scullp_ioctl` | `SetParam` |
| `scullp_mmap`, `vma_open`, `vma_close`, `nopage` | `Mmap`, `VmaOpen`, `VmaClose`, `StoreVmas`, `PageFault` |
| `scullp_init`, `scullp_cleanup` | `Load`, `LoadFails`, `Unload` |

### TimeRing, Short, ShortPrint (`LDD/short/short.c`, `LDD/shortprint/shortprint.c`)

`TimeRing` is the page of time stamps both drivers give to their readers: `Put`, `Wake`
and the steps of `short_i_read`, cut at each look at head and tail, as no lock is
taken. A record is written whole, but a read takes any number of bytes, so it may stop
anywhere in one: a record has `U` units, and the tail stands between any two of them.
The ghost `want` is what the reads have yet to return. When an interrupt overruns a tail
between two records the ring looks empty; when it overruns one inside a record, what is
left is the end of the new record, joined to the half of the old one that was read. Both
are modelled, and the ring goes on in order after them. `torn` says that an overrun came
during a copy, or that a read began while another copied: the tail can then pass the head.

`Short` adds the interrupt: the plain and the shared handler write their record
themselves; the top halves for a tasklet and a work queue stamp an entry of `tv` and
schedule the bottom half, `BhStart`, `BhCount`, `BhTime` (one turn of its do-while),
`BhWake`. Loading is cut at each request: `Register`, the two ways to probe the line,
`Install`, `Swap`, each of which can fail. `ShortPrint` adds the output ring and its
writers under `shortp_out_sem`, the work item (`shortp_wait`, `WorkLocked`,
`WorkStamp`), the printer that answers or whose interrupt is lost (`PrinterDone`), the
timeout, whose test of `output_active` is outside the lock (`TimeoutTest`,
`TimeoutLocked`), and a cleanup in three steps. Bytes are numbered as they are accepted,
so that order can be seen.

### WaitEvent, Jit, Jiq, Sleepy (`LDD/misc-modules/`)

`WaitEvent` is `wait_event_interruptible` with both of its tests, for `Jit` and
`Sleepy`. In `Jit` each read of jitimer or jitasklet allocates a `jit_data`, and its
timer or tasklet is pending until the last loop; the read frees it unless a signal is
pending. In `Jiq` the four files share `jiq_data`, the work item, the tasklet and the
timer; a read of the work queue's file goes on the queue before it starts the work
(`PrepareToWait`, `ScheduleWork`), the other two afterwards (`SleepOn`; l. 190, and l. 227,
which the source calls a race), when all that could wake them may be over. Ghosts say whether a signal ended a read and whether two reads
overlapped, as what the code does then is a finding (section 6). `Sleepy` has the flag,
set by a write and cleared by a read. A handler, `jiq_print` and the filling of
`jiq_data` are one step each (one processor).

### UsbSkel (`LDD/usb/usb-skeleton.c`)

One device that is plugged in and out, and files. `kref` counts, `dev` says whether the
object exists, `bkl` who has the big kernel lock, which the character layer takes
around open and disconnect takes itself. Probe, disconnect, open, read and write are
cut wherever the device can be unplugged in between. Using a freed object, freeing a
buffer twice and following NULL set `fault`; the error path of the write does the
latter two (section 6), which ends the behaviour.

### Sbull (`LDD/sbull/sbull.c`)

One disk in one of the three request modes. `sbull_transfer` writes the chunks of a
bio where the code puts them (`Chunk`: with `bio_cur_sectors` for every segment);
`wanted` is what a reader expects and `uneven` says that a bio had segments of
different lengths. The timer's handler is cut where it waits for the lock
(`InvalidateStart`, `InvalidateMark`), an open after the deletion of the timer
(`OpenSync`, `OpenCheck`).

### TinyTty, TinySerial (`LDD/tty/`)

`TinyTty`: the open is cut at its two allocations, which may sleep, and at the
semaphore; the tty layer's behaviour (one tty while it is open, a close also after a
failed open) is external. `TinySerial`: the timer sends bursts from the serial core's
circular buffer, `xhead` and `xtail` modulo `Size`, with the priority character and
the stop bit; the written characters are numbered.

### ListSeq and DList (`src/list/`)

`DList` has the nodes with their links both ways, head, tail and size; each function of
list.h is an action, with failing allocations. `ListSeq` is the promise, a sequence
without duplicates. `ListImplemented` maps the chain from the head to that sequence,
and each call to the call.

### Player (`src/gst-stmfrdk/src/`)

The main thread goes through create, sink, play, wait, stop, destroy (`next["main"]`); the
keyboard task's channel change through the same functions in another order; streaming
threads link pads. `built` tells how far the pipeline is put together, `owner` who has
the recursive lock. Every call of GStreamer may fail, and the code's early returns then
keep the lock.

## 4. The runs

| Run | Instance | What it shows |
|---|---|---|
| `pipe_interleavings` | 3 files, sizes 1 and 2, one byte per call, any order of opens | the semaphore excludes on every path through a sleep; the pointers stay between buffer and end, and in the allocation unless an open has set a size beyond it; counts and the buffer's life are right; no reader sleeps on queued bytes; a call that goes on moves a byte |
| `pipe_fifo` | 2 files, rings of 2 and 3, two-byte writes, with O_NONBLOCK and SIGIO, `QuietSpec` | the ring implements `ByteFifo`, wraps included; waiting calls return; no writer is forgotten |
| `pipe_writer_asleep` | 2 files, ring of 3, `Spec` | **violation**: an open empties a full ring and wakes no writer |
| `access` | 3 processes, 2 users of whom one acts as the other, 2 terminals, all four devices | the single device has one holder and the user devices one user; waiters are woken and let in; one private device per terminal |
| `access_trim` | the user device | **violation**: emptied under a read or write |
| `mem` | 2 files, quanta of 1 or 2, arrays of 2, 3 bytes, writes of two bytes and of none, `QuietSpec` | the device is a file of bytes, each call at one instant |
| `snull` | pools of two buffers and of one, with and without NAPI, no interrupt or every second one dropped, `QuietSpec` | buffers neither lost nor shared; no transmission finds the pool empty; a stopped queue starts again; an skb is freed once; no packet is left behind (without NAPI) |
| `snull_napi` | as above with NAPI and no dropped interrupts | **violation**: a packet is left in the queue with interrupts enabled |
| `pages` | 2 threads, the four drivers, orders 0 and 1 or quanta of 1 and 2 pages, arrays of 1 and 2, 4 pages, one mapping each, one pending request | with regular quanta nothing is accessed outside its block, and no page is lost, a failed load included, both until a call has gone on with sizes a trim changed; a mapped device is not trimmed, and a mapping shows what read and write use |
| `ports` | short: a page of 2 records of 2 units, 2 stamps, 5 interrupts, 2 readers that stop at any unit, up to a torn copy, one of them after the fourth interrupt; shortprint: an output page of 4 bytes, 2 writers, 7 bytes; jit, jiq and sleepy: 2 readers, 2 loops, 3 lines | nobody sleeps on what is there (readers of jiqtasklet and jitimer excepted); data leaves in order; what was taken in goes on to its end; nothing stays installed |
| `devices` | 3 files; 2 urbs; 3 sectors, 2 writes; 4 openings; a buffer of 4, 5 characters; 3 values in 4 nodes; 2 channel changes | the properties of section 3's small drivers, `DList` implements `ListSeq`, channel changes end |
| `tty_close` | as `devices` | **violation**: a close that finds no port leaves the count too high |

Bounds and why they are enough. Three files are needed for a reader, a writer and
one that sleeps or opens meanwhile; two rings of which one (size 1) can hold
nothing and the other one byte show every test of empty and full. The bytes do not
influence control, so `pipe_interleavings` uses the view `Control`, which drops
them; its properties do not depend on them, except the part of `TypeOK` about
`mem`, which `ScullPipe_proofs` proves without bounds. `pipe_fifo` keeps the bytes
and takes the smallest ring in which a two-byte write can wrap. In `access`, two
processes of one user and one of another are the smallest instance in which a
device passes from one user to the other and back while a third waits. In `mem`,
three bytes in quanta of one or two and arrays of two need one or two list items, so
positions cross quanta, arrays and items. In `snull`, a pool of one stops the queue
at each transmission, and a pool of two is the smallest in which a buffer is taken
while another is on its way back.

In `pages`, four pages in arrays of one or two quanta of one or two pages need up to four
list items; two threads are a writer and one that maps, trims or closes. Both parameters
change for scullp only; the others, which are the same code, vary the one that their
allocator makes different (the proofs have any values for each). The constraint
`CallBound` follows no read or write while an asynchronous request waits for its
completion, which has no part in the device, and after a call that went on with old sizes
follows further ones while at most one page is allocated; nothing is claimed of accesses
and pages there, but the mappings' properties are still checked. In `ports`, two records
of two units can be overrun by two interrupts with a reader in the middle of a copy or its
tail inside a record, and five interrupts are the fewest that leave a stamp of two behind
the tail (section 6), which three do not show; two readers can copy at once. The
constraint `UntilTorn` ends a behaviour with the first copy that is torn or overlaps
another, after which the properties claim nothing of that page, and `OneLateReader` lets
only one reader be in a call after the fourth interrupt: what two readers can do to each
other three interrupts show, and what five interrupts do needs one reader. An output page
of four bytes wraps under writes of up to four, and seven bytes take it round almost
twice; a second writer waits for the semaphore or for the end of the output. In `devices`,
three files are one that opens, one that closes and one that stays; four nodes of three
values let a node be used again; five characters in a buffer of four wrap once. MaxIrq,
MaxBytes, MaxChars, MaxWrites, MaxCount, MaxUrbs, MaxZaps, MaxNodes, MaxVmas, MaxWork,
MaxPos, MaxData, MaxSize and MaxClones bound what the environment asks for, not what the
code does with it.

The files, processes and threads are interchangeable in every run that uses
SYMMETRY, and no run with a liveness property uses it. Deadlock is not an error
where the system may stop: an interface that is down, a driver that is unloaded with
something left to run, a fault, a program that has ended or used up what the bounds
allow it.

`QuietSpec` adds the usage under which a property holds, where the code does not
enforce it. For the pipe: a file opens only while no bytes are queued, since
`scull_p_open` sets both pointers to the start (l. 80), and the buffer size changes
only while the pipe is closed, since an open sets `buffersize` without reallocating
(l. 70-78). For the memory device: no open changes the geometry while another call
stands between its copy of the geometry and the semaphore. The safety properties of
`pipe_interleavings` need no such restriction. For snull, where several steps that
race in the code are excluded and each exclusion names one: two updates of one
status word do not overlap; no buffer is taken again while the thread that gave it
back has still to test it; while interrupts are dropped, traffic goes one way; a
timeout comes only while the transmit interrupt is still missing and a buffer is
free; an interface is closed when nothing is on its way to it, and opened when its
pool is not empty; with NAPI nothing is sent to an interface that is down. The
composed runs have no such specification; their properties name the condition
themselves (`Regular` quanta, `stale`, `torn`, `over`, `uneven`, `signalled`, `shared`). Section
6 says what happens otherwise.

Fairness. `WF(Step(f))`: the kernel goes on running a call that can run; users'
calls, signals, faults and ioctls are never forced. `SF(Down(f))`: the waiters of a
semaphore are queued, so one that is free again and again is obtained; opens are
excepted because nothing claimed depends on them. In `ScullAccess`, `SF(TakeLock(p))`:
a spinlock's holders never sleep with it, so a spinner gets it. `Snull` has the same
for the threads that spin on a device's lock, and weak fairness for the poll and the
watchdog, which the kernel calls as long as the interface is scheduled or stopped.
`MCDevices`: weak fairness for the steps of the player's main thread and of a channel
change, two threads that the scheduler runs; nothing is assumed of the keyboard.

## 5. The proofs

### `ScullPipe_proofs`

For any set of files, ring sizes, data and flags, from the assumptions named in
`ScullPipe`. First for `Spec`, without the usage restrictions: `TypeCorrect`,
`Exclusion`, `PointersInRing`, `CountsRight`, `ProgressPerCall` and `NoLostWakeup`.

They follow from one inductive invariant `IInv`, as no part is inductive alone:

- `TypeOK` needs `OpenCounts`: a count is decremented, and is a natural number only
  because it counts the file that closes.
- `SemExcludes` ties the semaphore to the labels; every other part uses it to know
  that only one file stands between taking the semaphore and dropping it.
- `OpenCounts` needs `SemExcludes` and the part of `CallShape` that says a call
  belongs to an open file; it gives that the buffer exists while a call is on it.
- `RingWraps`, that the pointers lie between `buffer` and `end`, at `end` only on the way
  to the wrap, needs the two before, and that a size is positive (`CallShape`). The
  arithmetic of `spacefree`, `Readable` and `Writable` is in lemmas of its own. `RingBounds`
  follows: the pointers are in the allocation unless an open has set a size beyond it.
- `CallsMoveBytes` needs that what a write offers is as long as it says (`CallShape`).
- `ReadersWoken` needs `RingWraps`: bytes become queued only by `WritePut`, after
  which the writer stands at a label from which it wakes the queue; and a file
  joins the queue with a test after it.

Each step lemma has one step per action. The theorems combine `Init => IInv`,
`IInv /\ [Next]_vars => IInv'` and `IInv => P` by temporal reasoning.

`NoLostSpace`: under `QuietSpec`, no writer sleeps while more than the space it waits for
is free, for any files and sizes. `QuietSpec` allows fewer steps than `Spec` (lemma
`QuietIsNext`), so `IInv` is at hand; two facts are added to it. `OpensEmpty`: a call that
is about to reset the pointers finds nothing queued, as bytes are queued only by an
open file. `SizeKept`: while there is a buffer its size is the current setting, so an open
does not change it under a sleeper.

`PipeIsFifo`: `QuietSpec` implements `ByteFifo` under the mapping of `IsFifo`, for any files,
sizes and data: what is queued is what was written, in order, and nothing is lost or
repeated where the ring wraps. The invariant is that of `NoLostSpace` and `Fits`,
that the buffer is as large as the device believes. From the same invariant follows
`PointersStay` (`PointersInBuffer`): with the size set only while the pipe is closed, the
pointers never leave the allocation. Every step maps to one step of
the queue or to none: `WritePut` appends (the i-th slot past the last queued one holds the
i-th byte stored), `ReadTake` takes a prefix, the last close empties, and the steps that
wrap a pointer, sleep, wake or give up change nothing the queue shows. The lemmas are
about slots: the slot of an index, that different indices have different ones, and how
they shift when the read pointer moves.

### `Snull_proofs`

For any two interfaces, any pools of any size, either receive mode and any lockup
count, and for `Spec`, so for every interleaving the usage restrictions of `QuietSpec`
would exclude: `TypeCorrect`, which holds the exclusion by `priv->lock`, and
`PacketsSafe`, that no buffer is lost or has two users. The run `snull` checks both on
three buffers. The assumptions are those named in `Snull`: there are two interfaces,
and the pools are disjoint and hold each interface's buffers once.

The invariant adds two facts to the two properties. `HandHome`: a buffer about to be
queued is from the sender's pool, so that it goes to the peer of its home. `Raises`: who
updates a status word has decided which bit to set, so that the word keeps its type.
`PacketsAccounted` follows from four lemmas, one for each way a buffer moves
(`TakeFree`, `TakeReceived`, `PutFree`, `PutReceived`), which rest on what `Push` and
a pop do to the members of a list, and one for the steps that move none
(`StillAccounted`). Exclusion rests on `LockKept` and `LockDropped`.

Under `QuietSpec`: `PoolsNotEmpty` (`PoolNotEmpty`), `QueuesWoken` (`QueueWoken`),
`SkbsFreedOnce` (`SkbFreedOnce`) and `AllFetched` (`PacketsFetched`). `QuietInv` adds to the
invariant:

- `Control`: which thread can be at which step; `OneUpdate`: of a device, one thread at
  a time has read the status word and not yet stored it, and what it read is what is
  there, so that no bit is lost or comes back.
- `Skbs`: the transmit bit is in a status word, or in a word a handler has read, only from
  the transmission until it is handled, and until then the skb is there to be freed.
  While interrupts are dropped this needs that one side sends (`OneWay`).
- `Queues`: a queue that is not stopped has a free buffer. A stopped one over free
  buffers has a `Waker`, the thread that gave back the first of them, whose buffer nobody
  takes while the queue is stopped, or its transmit interrupt has not been handled, or
  its timeout is in progress.
- `OneQueued`: without NAPI a packet on a receive queue is `Announced` by its own sender,
  which has still to raise the interrupt or whose interrupt is not handled.

### `ScullMem_proofs`

`MemIsFile`: `QuietSpec` implements `MemFile` under the mapping of `IsFile`, for any quanta,
arrays, files and data. It rests on three groups of lemmas. Division: an offset and its
place (item, index, offset in the quantum) determine each other, and the offsets that
follow one in its quantum are the bytes behind it there. The list: what `scull_follow`, an
array and a quantum allocated on the way add changes the byte at no place, and a copy
changes the bytes at its own places only. The calls: `MInv`, that every call between its
copy of the geometry and the semaphore works with the geometry the device has, which is
what `QuietSpec` is for, and that the list is made for it. `StepMaps` then has one step
per action: reads and writes map to the file's at the moment they hold the semaphore,
what fails maps to `Fail`, a trim to `Truncate`.

### `ScullAccess_proofs`

For any processes, users, capabilities and terminals: `TypeCorrect`, `NobodyElse`
(`OneUser`), `NoOpenForgotten` (`WaitersWoken`) and `OnePerTty` (`PrivatePerTty`). The
invariant is the conjunction of seven parts. `Typed` and `OnItsWay` say which labels belong
to which device; `LockOwner` ties the spinlock to the labels; `Counted` relates each
counter to the number of users (`UsersMove` is what a step does to that set's size);
`Granted` carries the test made under the lock to the step that counts, which is what
`OneUser` needs; `NotMissed` extends `WaitersWoken` to an open that has read the count and
not yet the owner, without which it is not inductive; `OneClone` says that no two private
devices have the same key and that a file is on its terminal's.

### `ScullPages_proofs`

For any processes, offsets, lengths, orders, array lengths and, for scullc, any quanta but
0 (`PagesAssumption`), and where `dev->vmas++` is one instruction (`~Smp`, the hypothesis of
each theorem, and what the run checks): `InBlock` (`AccessesInBlock`), `NoneLost`
(`NothingLost`), `MappingsKept` (`MappedKept`) and `MappingsShow` (`MappingShowsFile`). The first
two are claimed until a read or write has gone on with sizes that a trim changed after it
had read them (`stale`); the first also needs an order of 0 or a single list item, for
scullc quanta no larger than the cache's objects. The last two hold after such a call as
well. With `Smp` the count can be wrong, and an unload then leaves pages behind, so that
`NothingLost` needs the hypothesis. The invariant `PagesInv`, which TLC was first asked about on the instance
of the run, says:

- `PagesListed`, as long as nothing is `stale`: each item of the list has an array of the
  device's length or none, also when the setting has changed since; each block is of the
  length allocated today (`PagesBlocks`: an object of the cache for scullc, a page while
  the order is 0 for the others); and `used` is the sum of the blocks in the list. A trim
  walks the first `qset` slots of every array, which are then all of them (`CutIs`), so it
  comes to 0.
- `PagesMapped`: `vmas` is the sum of the processes' mappings, so it is 0 when nobody has
  one; scullp and sculld are mapped only at order 0. A trim is refused while it is not 0.
- `PagesLoaded`: what an unloaded module has left.
- `PagesTypes` and `AccessesInBlock` themselves.

The four drivers are the same code, and the proof uses that: `CSame`, `DSame` and `VSame`
say that each action of scullc, sculld and scullv is that of scullp, so that reads and
writes are followed once (`ReadsStep`, `WritesStep`). Each action comes to one of nine kinds of
step (`Step`), whose effect on the invariant has a lemma each. A wild access is traced
to a block shorter than the quantum (`ShortIrregular`), which contradicts `Regular`.

### `Devices_proofs`

For any set of files (`FilesAssumption`: finite, and the two names the modules use for
nobody and the bus are not files), any capacity of the disk, any size of the circular buffer
but 0, any data and any nodes of which null is none (`SectorsAssumption`,
`SerialAssumption`, `NodesAssumption`) and any bounds, for `Spec` of `MCDevices`:
`ObjectOutlivesUsers` (`ObjectHeld`), `MediumKept` (`InvalidatedIdle`), `TimerEndsWithPort`
(`TimerWhileOpen`), `OneThreadBuilds` (`OneBuilder`), `NewPipelineLinks` (`PadsCanLink`),
`WrittenIsRead` (`DataKept`), `CharsInOrder` (`CharsSent`), `ListKept` (`ListLinked`) and
`ListIsSequence` (`ListImplemented`, the refinement). Each program has an invariant of its own, and `DevicesInv` is their conjunction, each under
its program:

- `UsbInv`: the types; `UsbBus`, that probe and disconnect exclude each other and that an
  open which found the interface keeps the kernel lock, so that disconnect cannot put
  the last reference before it gets its own; `UsbCount`, the count of holders.
- `SbullInv`: `users` is the number of open files, and `SbullIdle`, that an open on its way
  holds `bd_sem` alone and that while one opens or has opened the disk is ready and no
  handler of the timer runs. `DataInv` is `DataKept` itself: the sectors that the segments of
  a request go to are consecutive and together those of the request (`Moved`), which is
  about a sum of segment lengths, the offset at which each begins.
- `TtyInv`: the timer is pending only with the count positive; past the look at the port it
  exists, and the open that allocates the timer has the semaphore and is counted.
- `PlayerInv`: the flags fit the labels; the keyboard task works only while the main loop
  runs, which it ends itself; the stream is stopped before anything is built or taken
  down; and a new pipeline keeps no flag of the last one.
- `SerialInv`: head and tail are places of the buffer, what lies between them is what was
  put there, later characters are larger than earlier ones and than all that was sent,
  and each character written was sent, waits, or found the buffer full.
- `ListInv`: the chain from the head visits every node once and ends at the tail, with the
  links back those of the links forward (`Linked`), and no data is in it twice. The chain
  is a recursive function; `LinkedChain` shows that it is the only enumeration that is
  `Linked`, and each call gives the one of the new list from that of the old: with a node
  put in, at an end or behind another, or with one left out. The same enumerations are the
  sequences of `ListSeq`, and a call's step is a step of it (`ListIsSequence`).

### `Ports_proofs`

For any readers and writers, any page of stamps (`N`, `U`, `T` at least 1), any output page of
more than two bytes, and any number of interrupts, bytes and loops (`SizesAssumption`;
`NamesAssumption`: no writer is called "nobody"), for `Spec` of `MCPorts`: `NobodySleepsOn`
(`SleepersWoken`), `RingsInOrder` (`DataInOrder`), `NothingStalls` (`WorkGoesOn`),
`UnloadLeavesNothing` (`NothingInstalled`). `PortsKept` holds the invariant of the driver whose
behaviour it is:

- short, `ShortLoaded`: which handler can be on a line in which phase of the load, and that
  it is a line that cleanup frees. `StampsKept`: while no interrupt has moved the head past
  the tail with a stamp waiting, there is a k such that the first k interrupts are
  stamped and those of the rest stand in the last entries of the array, all of them
  ahead of the tail, the other entries being old; the bottom half either writes stamp
  k + 1 or repeats one. `PageKept`: the head is at a record; the i-th unit from the tail,
  wherever in a record that is, is the i-th that reads have yet to return (`PageHolds`); and
  the only reader that copies copies no more than is there (`CopiesOldest`), until the ring
  is torn. An overrun keeps this too: the units between the tail and the new head are the
  end of the record just written.
- shortprint, `PrintCalls`: one writer is in its call, and the space it saw can only have
  grown. `OutHolds`: the i-th byte from the tail is the i-th that was accepted and not
  printed. `OutGoing`: `OutputGoing`, and that an unloaded module has nothing under way.
  `OutWoken`: a writer sleeps before at least M - M div 2 bytes. That needs M > 2: the work
  item takes the free space of an empty ring for 0 and wakes nobody at its last byte,
  so whoever sleeps must have been woken before, by a byte that was not the last. The
  driver's page has 4096 bytes.
- jit, `JitOwners` and `JitOwned`: a reader in its call has a jit_data to itself, and every
  one has its reader as long as no signal ended a read.
- jiq, `JiqAlone`: without overlapping reads `jiq_data` is that of the only reader, and what
  is pending is what its file starts, and only from the step on that starts it.
- sleepy: `SleepersWoken` is inductive.

`NobodySleepsOn` speaks of the readers of jiqwq, not of those of jiqtasklet and jitimer, which
can sleep on (section 6).

### `Sums`

A set of natural numbers that is not empty has a least one, and of some subsets of a finite
set one is smallest. From these: the recursion of `MapThenSumSet` has a solution, on
every finite set (`SumExists`), its value does not depend on the order in which the
terms are picked nor on what else is summed beside them (`SumsAgree`), and it adds up: one
term changed changes the sum by the difference (`SumChange`), zeros add nothing
(`SumZeros`), a sum of natural numbers is one and bounds each of them (`SumNat`).

### Only model-checked

Liveness (`ReadsReturn`, `WritesReturn`, `WaitersServed`, `QueueStarts`, `CallsEnd`), which is
outside what the prover handles, as is ENABLED. Every safety property of a passing run,
and every refinement, is a theorem.

## 6. Findings

Shown by a run:

- `scull/pipe.c:80`: an open of a pipe in use throws away the queued bytes and does not
  wake writers that wait for the space (`pipe_writer_asleep`).
- `scull/access.c:122` (and 63, 190, 293): `scull_trim` runs without the semaphore that
  `main.c:60-61` requires (`access_trim`).
- `snull.c:322`: a packet can be left in the queue with receive interrupts enabled
  and no poll scheduled (`snull_napi`).
- `tty/tiny_tty.c:97`: an open clears `driver_data` before it has the semaphore, so that
  another file's close counts nothing down (`tty_close`).

Stated as an invariant that no cfg lists, since TLC refutes it at once when it is added to
the cfg named:

- `PointersInBuffer` (`pipe_writer_asleep.cfg`, with the sizes 2 and 3): an open of a pipe in
  use sets `buffersize` and `end` from the current setting without reallocating, and the
  pointers leave the allocation (`scull/pipe.c:78`). `RingBounds` names this condition, and
  `PointersStay` proves the invariant under `QuietSpec`, which excludes it.
- `WholeSetFreed` (`pages.cfg`): a write that copied the array length before a trim puts its
  page behind the slots that the next trim walks, and the page is lost
  (`scullp/main.c:493`, 221-228).
- `WritesInQuantum` (`pages.cfg`): quanta of later items are allocated with order 0 and filled
  with the device's (`Blocks`; `scullp/main.c:252`).
- `StampsReadable` (`ports.cfg`, without `UntilTorn`): of two reads of short that overlap, the
  second copies more than is readable, and moves the tail past the head (`short.c:303`).
- `TaskletsComplete` (`ports.cfg`): a reader of jiqtasklet starts its tasklet before it is on
  the queue, and sleeps on if the tasklet is done by then (`jiq.c:190`); jitimer has the
  same order (l. 227).

Modelled, with the step that shows it, but without a property (`PROJECT.json` has the lines
and the quotes):

- scull: an open of the single device refused because of an open that is itself being
  refused (`access.c:56`, `SingleDec` and `SingleInc`); the geometry read before the semaphore
  (`main.c:341`, excluded by `QuietSpec`).
- snull: a buffer tested after it was given back (`snull.c:159`, excluded by `QuietSpec`).
- scullp, sculld, scullv: the count of mappings without a lock (`StoreVmas`). scullc: quanta
  larger than the cache's objects (`Regular`), devices live before the cache (`scullc_init_cache`).
  sculld: nopage without its page (`sculld_vma_nopage`), a driver left registered
  (`sculld_init`).
- short: old stamps printed again, stamps left behind the tail (`BhTime`, `TopHalf`) and a
  count that loses interrupts (`BhCount`); a tasklet left scheduled after unload
  (`short_cleanup`); line 0 taken for success (`Install`). shortprint: a timer added that is pending already (`TimeoutLocked`).
- jiq, jit: a read ended by a signal leaves its work, tasklet or timer printing into a
  page that is no longer its own (`Return`, `Finish`); two reads of jiq share one buffer.
  sleepy: a read ended by a signal clears the flag (`sleepy_read`).
- usb-skeleton: the error path of the write frees twice and follows NULL (`WriteAlloc`,
  `WriteSubmit`). sbull: bios whose segments differ (`Chunk`), memory freed twice after a
  failed setup (`sbull_exit`), a geometry from bytes taken for sectors. tiny_tty: a failed
  timer allocation (`OpenTimer`), DTR set as RTS (`tiny_tiocmset`). list: the null pointer
  inserted, which delete never ends on (`list_delete`). player: early returns with the lock
  held (`create_pipeline`, `destroy_pipeline`).

Met while modelling and excluded by `QuietSpec` or by the constants' assumptions:
the size ioctl accepts 0, with which `spacefree` divides by zero later
(`main.c:503`), while a size of 1 gives a pipe that is always full; the geometry
ioctls accept 0 and negative values (`main.c:435`), and a faulting `__get_user` may leave
a geometry of zero (`main.c:429`); `f_pos`, 64 bits wide, is cast to long (`main.c:310`);
`scull_c_open` allocates with GFP_KERNEL, which may sleep, under a spinlock
(`access.c:256`). In `snull.c`: the timeout raises the transmit
interrupt again for a packet already freed (l. 544-545), and starts the queue whatever
the pool holds (l. 547), as does an open (l. 214); it overwrites a receive interrupt
that is pending; `status |=` (l. 488, 495) is not atomic with the handlers, so a bit is
lost or comes back, and with it a packet or a second free of the skb; while lockups
are simulated, a reception finds the pending transmit bit, frees the skb, and the
timeout frees it again; with NAPI a packet for an interface that is down disables its
receive interrupts for good, as nothing is scheduled for it (l. 405-406).

## 7. Not modelled

The components whose status is `not_modelled` in `PROJECT.json`: complete, each of whose
operations is one call to the kernel's completion; lddbus, pci, skull, simple, silly, seq,
faulty and hello, which keep no state beyond one call and have nothing that a second
actor could disturb; fd2fp, example, polymorphism, display_binary and the scripts.
Of modelled components: snull's set_config, change_mtu and unload; short's plain port
I/O, which keeps no state; jit's files that only delay; the player's addresses and its
subtitle variant; module load and unload of `scull`; the proc files. The kernel itself
(semaphores, spinlocks, wait queues, timers, tasklets, work queues, the tty, serial, block
and USB layers) is modelled by what the code relies on.

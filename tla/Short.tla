-------------------------------- MODULE Short --------------------------------
(***************************************************************************)
(* short: a parallel port whose interrupts leave time stamps for the       *)
(* readers, written by the handler itself or by a tasklet or work item.    *)
(*                                                                         *)
(* One processor takes the interrupts: a handler is one step, and comes    *)
(* between any two steps of the bottom half or of a reader.                *)
(***************************************************************************)
EXTENDS TimeRing

CONSTANTS
  Options,  \* records of the parameters mem, probe, share and bh at load
  T,        \* NR_TIMEVAL
  MaxIrq    \* bound: interrupts while the module is loaded

VARIABLES
  phase,    \* "unloaded", "probe", "install", "swap", "live"
  opt,      \* the parameters of this load
  held,     \* region, major and page held
  irq,      \* short_irq: a line, 0, or below 0
  handler,  \* what is installed on the line
  irqs,     \* ghost: interrupts taken since the load
  tv,       \* tv_data: the number of the interrupt stamped in each entry
  tv_head, tv_tail,
  short_wq_count,
  pending,  \* the bottom half is scheduled
  bh,       \* where the bottom half is
  stamped,  \* ghost: interrupts whose stamp was written to the page
  over      \* ghost: an interrupt came with the head at the tail and a stamp waiting

lines   == <<opt, held, irq, handler>>
loading == <<phase, lines>>
halves  == <<irqs, tv, tv_head, tv_tail, short_wq_count, pending, bh, stamped, over>>
vars    == <<ringvars, readers, loading, halves>>

Line == 7

HalvesInit ==
  /\ irqs = 0 /\ tv = [i \in 0..(T - 1) |-> 0]
  /\ tv_head = 0 /\ tv_tail = 0 /\ short_wq_count = 0
  /\ pending = FALSE /\ bh = "idle" /\ stamped = {} /\ over = FALSE

LinesInit ==
  /\ opt = CHOOSE o \in Options : TRUE
  /\ held = {} /\ irq = -1 /\ handler = "none"

Init == phase = "unloaded" /\ LinesInit /\ HalvesInit /\ RingInit

-----------------------------------------------------------------------------
(* short_init                                                              *)

Region(o) == IF o.mem THEN "mem" ELSE "ports"

(* The region and the major number.  A major that cannot be had releases   *)
(* the ports, whichever region was taken.                                  *)
Register ==
  /\ phase = "unloaded" /\ ~pending /\ irq' = -1
  /\ \E o \in Options :
       /\ opt' = o /\ Region(o) \notin held
       /\ \/ held' = (held \cup {Region(o)}) \ {"ports"} /\ UNCHANGED phase
          \/ held' = held \cup {Region(o), "major", "page"} /\ phase' = "probe"
  /\ UNCHANGED <<ringvars, readers, handler, halves>>

(* The rounds of probe_irq_on and probe_irq_off.                           *)
short_kernelprobe ==
  /\ phase = "probe" /\ opt.probe = 1
  /\ irq' \in {-1, -Line, Line}
  /\ phase' = "install"
  /\ UNCHANGED <<ringvars, readers, opt, held, handler, halves>>

(* The probing handlers are installed, and a round begins with no line.    *)
short_selfprobe ==
  /\ phase = "probe" /\ opt.probe = 2
  /\ handler = "none" \/ irq <= 0
  /\ handler' = "probing" /\ irq' = 0
  /\ UNCHANGED <<ringvars, readers, phase, opt, held, halves>>

(* The handler that was called names its line, a second one spoils it.     *)
short_probing ==
  /\ handler = "probing"
  /\ \E line \in {5, Line} : irq' = IF irq \in {0, line} THEN line ELSE -line
  /\ UNCHANGED <<ringvars, readers, phase, opt, held, handler, halves>>

(* After the last round the line may still be 0.                           *)
SelfprobeEnd ==
  /\ handler = "probing"
  /\ handler' = "none" /\ phase' = "install"
  /\ UNCHANGED <<ringvars, readers, opt, held, irq, halves>>

(* The default line, where nothing was probed.                             *)
DefaultLine == IF irq < 0 THEN Line ELSE irq

(* The first request_irq.  With share it is the only one.                  *)
Install ==
  /\ phase = "install" \/ (phase = "probe" /\ opt.probe = 0)
  /\ \/ /\ irq' = DefaultLine
        /\ handler' = IF opt.share THEN "shared" ELSE "plain"
        /\ phase' = IF ~opt.share /\ opt.bh # "none" THEN "swap" ELSE "live"
     \/ irq' = -1 /\ handler' = "none" /\ phase' = "live"
  /\ UNCHANGED <<ringvars, readers, opt, held, halves>>

\* Mutant: the plain handler stays where the other cannot be had.
SwapKeeps ==
  /\ phase = "swap" /\ phase' = "live"
  /\ \/ handler' = opt.bh /\ UNCHANGED irq
     \/ handler' = "plain" /\ irq' = -1
  /\ UNCHANGED <<ringvars, readers, opt, held, halves>>

(* Top and bottom half replace the plain handler.                          *)
Swap ==
  /\ phase = "swap" /\ phase' = "live"
  /\ \/ handler' = opt.bh /\ UNCHANGED irq
     \/ handler' = "none" /\ irq' = -1
  /\ UNCHANGED <<ringvars, readers, opt, held, halves>>

(* short_cleanup, when nobody reads.  A work item is flushed, a tasklet is *)
(* disabled and stays scheduled; a region taken as memory is asked back by *)
(* its mapped address.                                                     *)
short_cleanup ==
  /\ phase = "live" /\ bh = "idle" /\ (opt.bh = "tasklet" \/ ~pending)
  /\ \A r \in Readers : pc[r] = "idle"
  /\ phase' = "unloaded" /\ irq' = -1
  /\ handler' = IF irq >= 0 THEN "none" ELSE handler
  /\ held' = held \ {"ports", "major", "page"}
  /\ head' = 0 /\ tail' = 0 /\ want' = <<>> /\ torn' = FALSE
  /\ ring' = [i \in 0..(PageSize - 1) |-> Junk]
  /\ irqs' = 0 /\ tv' = [i \in 0..(T - 1) |-> 0] /\ tv_head' = 0 /\ tv_tail' = 0
  /\ short_wq_count' = 0 /\ stamped' = {} /\ over' = FALSE
  /\ UNCHANGED <<readers, opt, pending, bh>>

-----------------------------------------------------------------------------
(* The interrupt handlers                                                  *)

short_incr_tv(tvp) == (tvp + 1) % T

(* An interrupt is taken by the given handler.                             *)
Taken(kinds) ==
  /\ handler \in kinds /\ irqs < MaxIrq
  /\ irqs' = irqs + 1

(* The handler writes its record itself.                                   *)
short_interrupt ==
  /\ Taken({"plain"})
  /\ Put(irqs') /\ Wake
  /\ stamped' = stamped \cup {irqs'}
  /\ UNCHANGED <<loading, tv, tv_head, tv_tail, short_wq_count, pending, bh, over>>

(* The same, when the port says that the interrupt on the shared line is   *)
(* its own.                                                                *)
short_sh_interrupt ==
  /\ Taken({"shared"})
  /\ Put(irqs') /\ Wake
  /\ stamped' = stamped \cup {irqs'}
  /\ UNCHANGED <<loading, tv, tv_head, tv_tail, short_wq_count, pending, bh, over>>

(* The top half stamps an entry and schedules the bottom half.             *)
TopHalf(kind) ==
  /\ Taken({kind})
  /\ tv' = [tv EXCEPT ![tv_head] = irqs']
  /\ tv_head' = short_incr_tv(tv_head)
  /\ pending' = TRUE
  /\ short_wq_count' = short_wq_count + 1
  /\ over' = (over \/ (tv_head = tv_tail /\ stamped # 1..irqs))
  /\ UNCHANGED <<ringvars, readers, loading, tv_tail, bh, stamped>>

short_wq_interrupt == TopHalf("wq")
short_tl_interrupt == TopHalf("tasklet")

-----------------------------------------------------------------------------
(* short_do_tasklet                                                        *)

BhStart ==
  /\ pending /\ bh = "idle" /\ phase = "live"
  /\ pending' = FALSE /\ bh' = "count"
  /\ UNCHANGED <<ringvars, readers, loading, irqs, tv, tv_head, tv_tail, short_wq_count, stamped, over>>

(* The count is cleared and the line that tells it written.                *)
BhCount ==
  /\ bh = "count"
  /\ short_wq_count' = 0 /\ bh' = "times"
  /\ Put(0)
  /\ UNCHANGED <<readers, loading, irqs, tv, tv_head, tv_tail, pending, stamped, over>>

(* One turn of the do ... while (tv_tail != tv_head).                      *)
BhTime ==
  /\ bh = "times"
  /\ Put(tv[tv_tail])
  /\ stamped' = (stamped \cup {tv[tv_tail]}) \ {0}
  /\ tv_tail' = short_incr_tv(tv_tail)
  /\ bh' = IF tv_tail' = tv_head THEN "wake" ELSE "times"
  /\ UNCHANGED <<readers, loading, irqs, tv, tv_head, short_wq_count, pending, over>>

BhWake ==
  /\ bh = "wake" /\ bh' = "idle"
  /\ Wake
  /\ UNCHANGED <<ringvars, loading, irqs, tv, tv_head, tv_tail, short_wq_count, pending, stamped, over>>

short_do_tasklet == BhStart \/ BhCount \/ BhTime \/ BhWake

-----------------------------------------------------------------------------
(* The readers                                                             *)

Read(r) ==
  /\ "page" \in held
  /\ short_i_read(r)
  /\ UNCHANGED <<loading, halves>>

short_init ==
  \/ Register \/ short_kernelprobe \/ short_selfprobe \/ short_probing
  \/ SelfprobeEnd \/ Install \/ Swap

Next ==
  \/ short_init \/ short_cleanup
  \/ short_interrupt \/ short_sh_interrupt
  \/ short_wq_interrupt \/ short_tl_interrupt \/ short_do_tasklet
  \/ \E r \in Readers : Read(r)

-----------------------------------------------------------------------------
(* A module that is not loaded has no handler on a line and holds nothing, *)
(* but for memory that is asked back by a wrong address.                   *)
NothingInstalled ==
  phase = "unloaded" => /\ handler = "none" /\ held \subseteq {"mem"}
                        /\ pending => opt.bh = "tasklet"

(* An interrupt whose stamp was not yet written has a bottom half to come: *)
(* the top half may find it running, past its last look at the array.      *)
(* (An interrupt that moves the head past the tail while a stamp waits can *)
(* leave stamps behind the tail: see the findings.)                        *)
StampsServed ==
  ~over /\ phase = "live" /\ handler \in {"wq", "tasklet"} /\ stamped # 1..irqs =>
    pending \/ bh \in {"count", "times"}

SleepersWoken == ReadersWoken(bh # "idle")
=============================================================================

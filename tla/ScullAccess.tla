---------------------------- MODULE ScullAccess -----------------------------
(***************************************************************************)
(* The four scull devices that restrict open (scull/access.c): "single" is *)
(* opened once at a time, "user" by one user at a time, "wuser" the same   *)
(* but an open waits, and "priv" is a device of its own per terminal.  The *)
(* devices share no state, so a behaviour is about one of them, its kind.  *)
(*                                                                         *)
(* A process has at most one file.  Its open and release are cut where     *)
(* another process can observe or disturb them: at each atomic operation,  *)
(* where a spinlock is taken, and at each test made without one.           *)
(***************************************************************************)
EXTENDS Integers, FiniteSets, Sequences

CONSTANTS
  Procs,      \* the processes
  Free,       \* the holder of a lock nobody holds
  Kinds,      \* the devices considered
  Root,       \* uid 0, what an owner variable starts as
  Uid, Euid,  \* of each process
  Capable,    \* the processes with CAP_DAC_OVERRIDE
  Tty, NoTty, \* the controlling terminal of each process
  MaxClones   \* bound: how many private devices are allocated

ASSUME ProcsAssumption == IsFiniteSet(Procs) /\ Free \notin Procs /\ Capable \subseteq Procs
ASSUME KindsAssumption == Kinds \subseteq {"single", "user", "wuser", "priv"}
ASSUME PeopleAssumption == DOMAIN Uid = Procs /\ DOMAIN Euid = Procs /\ DOMAIN Tty = Procs

VARIABLES
  kind,          \* the device opened
  available,     \* scull_s_available
  lock,          \* scull_u_lock, scull_w_lock or scull_c_lock
  count, owner,  \* scull_u_count and _owner, or scull_w_count and _owner
  waitq,         \* who is on scull_w_wait
  clones,        \* the keys of scull_c_list, oldest first
  sem,           \* the holder of dev->sem
  pc,            \* where p's call stands; "open": between calls, with a file
  flags,         \* of p's open, while it is under way
  which          \* the private device behind p's file

vars == <<kind, available, lock, count, owner, waitq, clones, sem, pc, flags, which>>

\* The flags of an open are forgotten when it returns.
Goto(p, label) ==
  /\ pc' = [pc EXCEPT ![p] = label]
  /\ flags' = IF label \in {"idle", "open"} THEN [flags EXCEPT ![p] = {}] ELSE flags

Init ==
  /\ kind \in Kinds
  /\ available = 1 /\ count = 0 /\ owner = Root
  /\ lock = Free /\ sem = Free
  /\ waitq = {} /\ clones = <<>>
  /\ pc = [p \in Procs |-> "idle"]
  /\ flags = [p \in Procs |-> {}]
  /\ which = [p \in Procs |-> 0]

Entry == [single |-> "s_dec", user |-> "u_lock", wuser |-> "w_lock", priv |-> "c_lock"]

Open(p) ==
  /\ pc[p] = "idle"
  /\ kind = "priv" => Tty[p] # NoTty                      \* else -EINVAL
  /\ \E m \in SUBSET {"WRONLY", "NONBLOCK"} : flags' = [flags EXCEPT ![p] = m]
  /\ pc' = [pc EXCEPT ![p] = Entry[kind]]
  /\ UNCHANGED <<kind, available, lock, count, owner, waitq, clones, sem, which>>

\* What every open ends with: the device is emptied for a write-only file.
Opened(p) == Goto(p, IF "WRONLY" \in flags[p] THEN "trim" ELSE "open")
-----------------------------------------------------------------------------
(***************************************************************************)
(* single: a counter that is 1 when the device may be opened.              *)
(***************************************************************************)
SingleDec(p) ==
  /\ pc[p] = "s_dec"
  /\ available' = available - 1
  /\ IF available' = 0 THEN Opened(p) ELSE Goto(p, "s_inc")
  /\ UNCHANGED <<kind, lock, count, owner, waitq, clones, sem, which>>

SingleInc(p) ==                                           \* -EBUSY
  /\ pc[p] = "s_inc"
  /\ available' = available + 1
  /\ Goto(p, "idle")
  /\ UNCHANGED <<kind, lock, count, owner, waitq, clones, sem, which>>

SingleRelease(p) ==
  /\ kind = "single" /\ pc[p] = "open"
  /\ available' = available + 1
  /\ Goto(p, "idle")
  /\ UNCHANGED <<kind, lock, count, owner, waitq, clones, sem, which>>
-----------------------------------------------------------------------------
(***************************************************************************)
(* user and wuser: a count, its owner and a spinlock around both.          *)
(***************************************************************************)
Mine(p) == owner \in {Uid[p], Euid[p]} \/ p \in Capable
Available(p) == count = 0 \/ Mine(p)

UserLock(p) ==
  /\ pc[p] = "u_lock" /\ lock = Free
  /\ IF Available(p) THEN lock' = p /\ Goto(p, "grab")
                     ELSE UNCHANGED lock /\ Goto(p, "idle")  \* -EBUSY
  /\ UNCHANGED <<kind, available, count, owner, waitq, clones, sem, which>>

WaitLock(p) ==
  /\ pc[p] = "w_lock" /\ lock = Free
  /\ \/ Available(p) /\ lock' = p /\ Goto(p, "grab")
     \/ /\ ~Available(p) /\ UNCHANGED lock
        /\ Goto(p, IF "NONBLOCK" \in flags[p] THEN "idle" ELSE "w_wait")  \* -EAGAIN
  /\ UNCHANGED <<kind, available, count, owner, waitq, clones, sem, which>>

\* wait_event_interruptible(scull_w_wait, scull_w_available()): join the queue,
\* test again, the count first and then the owner, and sleep until woken.
WaitJoin(p) ==
  /\ pc[p] = "w_wait"
  /\ IF Available(p) THEN waitq' = waitq \ {p} /\ Goto(p, "w_lock")
                     ELSE waitq' = waitq \cup {p} /\ Goto(p, "w_test")
  /\ UNCHANGED <<kind, available, lock, count, owner, clones, sem, which>>

WaitTestCount(p) ==
  /\ pc[p] = "w_test"
  /\ IF count = 0 THEN waitq' = waitq \ {p} /\ Goto(p, "w_lock")
                  ELSE UNCHANGED waitq /\ Goto(p, "w_test_owner")
  /\ UNCHANGED <<kind, available, lock, count, owner, clones, sem, which>>

WaitTestOwner(p) ==
  /\ pc[p] = "w_test_owner"
  /\ IF Mine(p) THEN waitq' = waitq \ {p} /\ Goto(p, "w_lock")
                ELSE UNCHANGED waitq /\ Goto(p, "w_sleep")
  /\ UNCHANGED <<kind, available, lock, count, owner, clones, sem, which>>

WaitWoken(p) ==
  /\ pc[p] = "w_sleep" /\ p \notin waitq
  /\ Goto(p, "w_wait")
  /\ UNCHANGED <<kind, available, lock, count, owner, waitq, clones, sem, which>>

Interrupted(p) ==                                         \* -ERESTARTSYS
  /\ pc[p] = "w_sleep"
  /\ waitq' = waitq \ {p}
  /\ Goto(p, "idle")
  /\ UNCHANGED <<kind, available, lock, count, owner, clones, sem, which>>

\* Mutant: whoever opens becomes the owner.
GrabAlways(p) ==
  /\ pc[p] = "grab"
  /\ owner' = Uid[p]
  /\ Goto(p, "count")
  /\ UNCHANGED <<kind, available, lock, count, waitq, clones, sem, which>>

Grab(p) ==
  /\ pc[p] = "grab"
  /\ owner' = IF count = 0 THEN Uid[p] ELSE owner
  /\ Goto(p, "count")
  /\ UNCHANGED <<kind, available, lock, count, waitq, clones, sem, which>>

Count(p) ==
  /\ pc[p] = "count"
  /\ count' = count + 1
  /\ lock' = Free
  /\ Opened(p)
  /\ UNCHANGED <<kind, available, owner, waitq, clones, sem, which>>

\* Mutant: the count is tested again after the lock is gone, not remembered.
UserReleaseThenTest(p) ==
  /\ kind \in {"user", "wuser"} /\ pc[p] \in {"open", "rel"}
  /\ \/ /\ pc[p] = "open" /\ lock = Free
        /\ count' = count - 1
        /\ Goto(p, IF kind = "wuser" THEN "rel" ELSE "idle")
     \/ /\ pc[p] = "rel"
        /\ Goto(p, IF count = 0 THEN "w_wake" ELSE "idle")
        /\ UNCHANGED count
  /\ UNCHANGED <<kind, available, lock, owner, waitq, clones, sem, which>>

UserRelease(p) ==
  /\ kind \in {"user", "wuser"} /\ pc[p] = "open" /\ lock = Free
  /\ count' = count - 1
  /\ Goto(p, IF kind = "wuser" /\ count' = 0 THEN "w_wake" ELSE "idle")
  /\ UNCHANGED <<kind, available, lock, owner, waitq, clones, sem, which>>

\* Mutant: nobody is woken.
WakeNobody(p) ==
  /\ pc[p] = "w_wake"
  /\ Goto(p, "idle")
  /\ UNCHANGED <<kind, available, lock, count, owner, waitq, clones, sem, which>>

Wake(p) ==
  /\ pc[p] = "w_wake"
  /\ waitq' = {}
  /\ Goto(p, "idle")
  /\ UNCHANGED <<kind, available, lock, count, owner, clones, sem, which>>
-----------------------------------------------------------------------------
(***************************************************************************)
(* priv: a list of devices, searched and extended under a spinlock.        *)
(***************************************************************************)
\* Mutant: the list is searched before the lock is taken.
CloneSearchUnlocked(p) ==
  /\ pc[p] = "c_lock"
  /\ which' = [which EXCEPT ![p] = IF \E i \in DOMAIN clones : clones[i] = Tty[p]
                                     THEN CHOOSE i \in DOMAIN clones : clones[i] = Tty[p]
                                     ELSE 0]
  /\ IF which'[p] = 0 THEN Goto(p, "c_alloc") ELSE Opened(p)
  /\ UNCHANGED <<kind, available, lock, count, owner, waitq, clones, sem>>

CloneSearch(p) ==
  /\ pc[p] = "c_lock" /\ lock = Free
  /\ which' = [which EXCEPT ![p] = IF \E i \in DOMAIN clones : clones[i] = Tty[p]
                                     THEN CHOOSE i \in DOMAIN clones : clones[i] = Tty[p]
                                     ELSE 0]
  /\ IF which'[p] = 0 THEN lock' = p /\ Goto(p, "c_alloc")
                      ELSE UNCHANGED lock /\ Opened(p)
  /\ UNCHANGED <<kind, available, count, owner, waitq, clones, sem>>

CloneAdd(p) ==
  /\ pc[p] = "c_alloc" /\ Len(clones) < MaxClones
  /\ clones' = Append(clones, Tty[p])
  /\ which' = [which EXCEPT ![p] = Len(clones')]
  /\ lock' = Free
  /\ Opened(p)
  /\ UNCHANGED <<kind, available, count, owner, waitq, sem>>

CloneFails(p) ==                                          \* -ENOMEM
  /\ pc[p] = "c_alloc"
  /\ lock' = Free
  /\ Goto(p, "idle")
  /\ UNCHANGED <<kind, available, count, owner, waitq, clones, sem, which>>

CloneRelease(p) ==
  /\ kind = "priv" /\ pc[p] = "open"
  /\ which' = [which EXCEPT ![p] = 0]
  /\ Goto(p, "idle")
  /\ UNCHANGED <<kind, available, lock, count, owner, waitq, clones, sem>>
-----------------------------------------------------------------------------
(***************************************************************************)
(* The device itself (scull/main.c): reads and writes hold its semaphore,  *)
(* the emptying at the end of an open does not.                            *)
(***************************************************************************)
Trim(p) ==
  /\ pc[p] = "trim"
  /\ Goto(p, "open")
  /\ UNCHANGED <<kind, available, lock, count, owner, waitq, clones, sem, which>>

\* On "priv" there is one semaphore per clone; its calls are left out.
BeginIO(p) ==
  /\ kind # "priv"
  /\ pc[p] = "open" /\ sem = Free
  /\ sem' = p
  /\ Goto(p, "io")
  /\ UNCHANGED <<kind, available, lock, count, owner, waitq, clones, which>>

EndIO(p) ==
  /\ pc[p] = "io"
  /\ sem' = Free
  /\ Goto(p, "open")
  /\ UNCHANGED <<kind, available, lock, count, owner, waitq, clones, which>>
-----------------------------------------------------------------------------
TakeLock(p) == UserLock(p) \/ WaitLock(p) \/ CloneSearch(p)

Step(p) ==
  \/ SingleDec(p) \/ SingleInc(p)
  \/ WaitJoin(p) \/ WaitTestCount(p) \/ WaitTestOwner(p) \/ WaitWoken(p)
  \/ Grab(p) \/ Count(p) \/ Wake(p)
  \/ CloneAdd(p) \/ CloneFails(p)
  \/ Trim(p) \/ EndIO(p)

UserCall(p) ==
  \/ Open(p) \/ BeginIO(p) \/ Interrupted(p)
  \/ SingleRelease(p) \/ UserRelease(p) \/ CloneRelease(p)

Next == \E p \in Procs : TakeLock(p) \/ Step(p) \/ UserCall(p)

Spec == Init /\ [][Next]_vars

\* A process in the kernel runs on, and one that spins on a lock gets it if it
\* is free again and again: its holders never sleep with it.
Fairness == \A p \in Procs : WF_vars(Step(p)) /\ SF_vars(TakeLock(p))

FairSpec == Spec /\ Fairness
-----------------------------------------------------------------------------
Labels == {"idle", "s_dec", "s_inc", "u_lock", "w_lock", "w_wait", "w_test", "w_test_owner",
           "w_sleep", "w_wake", "grab", "count", "c_lock", "c_alloc", "trim", "open", "io"}

\* The processes that have the device open.
Holders == {p \in Procs : pc[p] \in {"trim", "open", "io"}}

\* The single device is open once (access.c:56-66). On the others "access is denied
\* to other users if the device is open" (access.c:91-92, 154): all who have it open
\* now are the owner, act as the owner, or may override.
OneUser ==
  /\ kind = "single" => \A p, q \in Holders : p = q
  /\ kind \in {"user", "wuser"} => \A p \in Holders : Mine(p)

\* No open sleeps on scull_w_wait (access.c:179) while it could go on, unless the
\* release that freed the device has yet to wake the queue (access.c:204-205).
WaitersWoken ==
  (\E p \in waitq : pc[p] = "w_sleep" /\ Available(p)) => \E r \in Procs : pc[r] = "w_wake"

\* Processes get the same private device exactly when they have the same
\* terminal (access.c:246-270): the list never holds a terminal twice.
PrivatePerTty ==
  kind = "priv" => \A p, q \in Holders : which[p] = which[q] <=> Tty[p] = Tty[q]

\* An open that waits goes on, or finds the device taken by another user again.
Waiting(p) == pc[p] \in {"w_lock", "w_wait", "w_test", "w_test_owner", "w_sleep"}
WaitersServed == \A p \in Procs : Waiting(p) ~> (~Waiting(p) \/ ~Available(p))

\* scull_trim "must be called with the device semaphore held" (main.c:60-61): it
\* never runs while another process reads or writes.
TrimAlone == \A p, q \in Procs : pc[p] = "trim" => pc[q] # "io"
=============================================================================

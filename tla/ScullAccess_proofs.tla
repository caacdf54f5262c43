------------------------- MODULE ScullAccess_proofs -------------------------
(***************************************************************************)
(* Proofs about ScullAccess, for any processes, users and terminals: who   *)
(* has a device open, who waits for it and who gets which.                 *)
(***************************************************************************)
EXTENDS ScullAccess, FiniteSetTheorems, TLAPS

\* Who counts as a user of the device: the holders, and on "single" an open that is
\* about to be refused.
Users == {p \in Procs : pc[p] \in {"trim", "open", "io", "s_inc"}}

Typed ==
  /\ kind \in {"single", "user", "wuser", "priv"}
  /\ available \in Int /\ count \in Int
  /\ lock \in Procs \cup {Free} /\ sem \in Procs \cup {Free}
  /\ waitq \subseteq Procs
  /\ clones \in Seq({Tty[p] : p \in Procs})
  /\ flags \in [Procs -> SUBSET {"WRONLY", "NONBLOCK"}]
  /\ which \in [Procs -> Nat]
  /\ pc \in [Procs -> Labels]

\* Where a call on each device can stand.
OnItsWay ==
  \A p \in Procs :
    \/ pc[p] = "idle"
    \/ kind = "single" /\ pc[p] \in {"s_dec", "s_inc", "trim", "open", "io"}
    \/ kind = "user" /\ pc[p] \in {"u_lock", "grab", "count", "trim", "open", "io"}
    \/ kind = "wuser" /\ pc[p] \in {"w_lock", "w_wait", "w_test", "w_test_owner", "w_sleep",
                                   "w_wake", "grab", "count", "trim", "open", "io"}
    \/ kind = "priv" /\ pc[p] \in {"c_lock", "c_alloc", "trim", "open"}

TypeOK == Typed /\ OnItsWay

\* The spinlock's critical sections.
LockOwner == \A p \in Procs : pc[p] \in {"grab", "count", "c_alloc"} => lock = p

\* The counters tell how many users there are.
Counted ==
  /\ kind = "single" => available = 1 - Cardinality(Users)
  /\ kind \in {"user", "wuser"} => count = Cardinality(Users)

\* Between the test under the lock and the count, the device stays available.
Granted ==
  kind \in {"user", "wuser"} =>
    \A p \in Procs : /\ pc[p] = "grab" => Available(p)
                     /\ pc[p] = "count" => Mine(p)

\* No open is past the test of the count, or asleep, with the device available,
\* unless the queue is about to be woken.
NotMissed ==
  (\E p \in waitq : \/ pc[p] \in {"w_test_owner", "w_sleep"} /\ count = 0
                    \/ pc[p] = "w_sleep" /\ Mine(p))
    => \E r \in Procs : pc[r] = "w_wake"

\* The private devices have different keys, and a file is on that of its terminal.
OneClone ==
  /\ \A i, j \in DOMAIN clones : clones[i] = clones[j] => i = j
  /\ kind = "priv" =>
       \A p \in Procs :
         /\ pc[p] = "c_alloc" => \A i \in DOMAIN clones : clones[i] # Tty[p]
         /\ pc[p] \in {"trim", "open"} =>
              which[p] \in DOMAIN clones /\ clones[which[p]] = Tty[p]

IInv == /\ TypeOK /\ LockOwner /\ Counted /\ Granted /\ OneUser
        /\ NotMissed /\ OneClone
-----------------------------------------------------------------------------
\* Every step keeps the types and the ways of the calls.
LEMMA TypedStep ==
  ASSUME TypeOK, [Next]_vars PROVE TypeOK'
<1>1. CASE UNCHANGED vars
  BY <1>1 DEF vars, TypeOK, Typed, OnItsWay
<1>2. SUFFICES ASSUME NEW p \in Procs, TakeLock(p) \/ Step(p) \/ UserCall(p)
               PROVE  TypeOK'
  BY <1>1 DEF Next
<1> USE DEF TypeOK, Typed, OnItsWay, Goto, Labels
<1>3. CASE Open(p)
  BY <1>3 DEF Open, Entry
<1>4. CASE SingleDec(p)
  <2>1. \E l \in {"trim", "open", "s_inc"} : Goto(p, l)
    BY <1>4 DEF SingleDec, Opened
  <2>2. PICK l \in {"trim", "open", "s_inc"} : Goto(p, l)
    BY <2>1
  <2>3. QED
    BY <1>4, <2>2 DEF SingleDec
<1>5. CASE Count(p)
  BY <1>5 DEF Count, Opened
<1>6. CASE CloneSearch(p)
  <2>1. DOMAIN clones \subseteq Nat
    OBVIOUS
  <2>2. which' \in [Procs -> Nat]
    <3>1. CASE \E i \in DOMAIN clones : clones[i] = Tty[p]
      <4>1. (CHOOSE i \in DOMAIN clones : clones[i] = Tty[p]) \in DOMAIN clones
        BY <3>1
      <4>2. QED
        BY <1>6, <2>1, <3>1, <4>1 DEF CloneSearch
    <3>2. CASE ~\E i \in DOMAIN clones : clones[i] = Tty[p]
      BY <1>6, <3>2 DEF CloneSearch
    <3>3. QED
      BY <3>1, <3>2
  <2>3. \E l \in {"c_alloc", "trim", "open"} : Goto(p, l)
    BY <1>6 DEF CloneSearch, Opened
  <2>4. PICK l \in {"c_alloc", "trim", "open"} : Goto(p, l)
    BY <2>3
  <2>5. lock' \in Procs \cup {Free}
    BY <1>6 DEF CloneSearch
  <2>6. kind = "priv"
    BY <1>6 DEF CloneSearch
  <2>7. QED
    BY <1>6, <2>2, <2>4, <2>5, <2>6 DEF CloneSearch
<1>7. CASE CloneAdd(p)
  BY <1>7 DEF CloneAdd, Opened
<1>8. CASE SingleInc(p)
  BY <1>8 DEF SingleInc
<1>9. CASE SingleRelease(p)
  BY <1>9 DEF SingleRelease
<1>10. CASE UserLock(p)
  BY <1>10 DEF UserLock
<1>11. CASE WaitLock(p)
  BY <1>11 DEF WaitLock
<1>12. CASE WaitJoin(p)
  BY <1>12 DEF WaitJoin
<1>13. CASE WaitTestCount(p)
  BY <1>13 DEF WaitTestCount
<1>14. CASE WaitTestOwner(p)
  BY <1>14 DEF WaitTestOwner
<1>15. CASE WaitWoken(p)
  BY <1>15 DEF WaitWoken
<1>16. CASE Interrupted(p)
  BY <1>16 DEF Interrupted
<1>17. CASE Grab(p)
  BY <1>17 DEF Grab
<1>18. CASE UserRelease(p)
  BY <1>18 DEF UserRelease
<1>19. CASE Wake(p)
  BY <1>19 DEF Wake
<1>20. CASE CloneFails(p)
  BY <1>20 DEF CloneFails
<1>21. CASE CloneRelease(p)
  BY <1>21 DEF CloneRelease
<1>22. CASE Trim(p)
  BY <1>22 DEF Trim
<1>23. CASE BeginIO(p)
  BY <1>23 DEF BeginIO
<1>24. CASE EndIO(p)
  BY <1>24 DEF EndIO
<1>25. QED
  BY <1>2, <1>3, <1>4, <1>5, <1>6, <1>7, <1>8, <1>9, <1>10, <1>11, <1>12,
    <1>13, <1>14, <1>15, <1>16, <1>17, <1>18, <1>19, <1>20, <1>21, <1>22,
    <1>23, <1>24 DEF TakeLock, Step, UserCall

\* The lock is kept by who is between taking and dropping it, and by nobody else.
LEMMA LockOwnerStep ==
  ASSUME TypeOK, LockOwner, [Next]_vars PROVE LockOwner'
<1>1. CASE UNCHANGED vars
  BY <1>1 DEF vars, LockOwner
<1>2. SUFFICES ASSUME NEW p \in Procs, TakeLock(p) \/ Step(p) \/ UserCall(p)
               PROVE  LockOwner'
  BY <1>1 DEF Next
<1> USE DEF TypeOK, Typed, OnItsWay, LockOwner, Goto
<1>3. CASE Open(p)
  BY <1>3 DEF Open, Entry
<1>4. CASE SingleDec(p)
  BY <1>4 DEF SingleDec, Opened
<1>5. CASE Count(p)
  BY <1>5 DEF Count, Opened
<1>6. CASE CloneSearch(p)
  BY <1>6, ProcsAssumption DEF CloneSearch, Opened
<1>7. CASE CloneAdd(p)
  BY <1>7 DEF CloneAdd, Opened
<1>8. CASE UserLock(p)
  BY <1>8, ProcsAssumption DEF UserLock
<1>9. CASE WaitLock(p)
  BY <1>9, ProcsAssumption DEF WaitLock
<1>10. CASE SingleInc(p)
  BY <1>10 DEF SingleInc
<1>11. CASE SingleRelease(p)
  BY <1>11 DEF SingleRelease
<1>12. CASE WaitJoin(p)
  BY <1>12 DEF WaitJoin
<1>13. CASE WaitTestCount(p)
  BY <1>13 DEF WaitTestCount
<1>14. CASE WaitTestOwner(p)
  BY <1>14 DEF WaitTestOwner
<1>15. CASE WaitWoken(p)
  BY <1>15 DEF WaitWoken
<1>16. CASE Interrupted(p)
  BY <1>16 DEF Interrupted
<1>17. CASE Grab(p)
  BY <1>17 DEF Grab
<1>18. CASE UserRelease(p)
  BY <1>18 DEF UserRelease
<1>19. CASE Wake(p)
  BY <1>19 DEF Wake
<1>20. CASE CloneFails(p)
  BY <1>20 DEF CloneFails
<1>21. CASE CloneRelease(p)
  BY <1>21 DEF CloneRelease
<1>22. CASE Trim(p)
  BY <1>22 DEF Trim
<1>23. CASE BeginIO(p)
  BY <1>23 DEF BeginIO
<1>24. CASE EndIO(p)
  BY <1>24 DEF EndIO
<1>25. QED
  BY <1>2, <1>3, <1>4, <1>5, <1>6, <1>7, <1>8, <1>9, <1>10, <1>11, <1>12,
    <1>13, <1>14, <1>15, <1>16, <1>17, <1>18, <1>19, <1>20, <1>21, <1>22,
    <1>23, <1>24 DEF TakeLock, Step, UserCall

-----------------------------------------------------------------------------
\* How many users there are when one comes or goes.
LEMMA UsersFacts ==
  ASSUME NEW p \in Procs
  PROVE  /\ Cardinality(Users) \in Nat
         /\ Cardinality(Users) = 0 <=> Users = {}
         /\ p \notin Users => Cardinality(Users \cup {p}) = Cardinality(Users) + 1
         /\ p \in Users => Cardinality(Users \ {p}) = Cardinality(Users) - 1
<1>1. IsFiniteSet(Users)
  BY ProcsAssumption, FS_Subset DEF Users
<1>2. QED
  BY <1>1, FS_CardinalityType, FS_EmptySet, FS_AddElement, FS_RemoveElement

\* A call that moves makes its process a user, or no longer one, or leaves it.
LEMMA UsersMove ==
  ASSUME Typed, NEW p \in Procs, NEW l, Goto(p, l)
  PROVE  Users' = IF l \in {"trim", "open", "io", "s_inc"} THEN Users \cup {p}
                                                          ELSE Users \ {p}
BY DEF Typed, Goto, Users

\* Every step keeps the counters and the users in step.
LEMMA CountedStep ==
  ASSUME TypeOK, Counted, [Next]_vars PROVE Counted'
<1>1. CASE UNCHANGED vars
  BY <1>1 DEF vars, Counted, Users
<1>2. SUFFICES ASSUME NEW p \in Procs, TakeLock(p) \/ Step(p) \/ UserCall(p)
               PROVE  Counted'
  BY <1>1 DEF Next
<1> USE DEF TypeOK, Typed, OnItsWay, Counted
<1>3. CASE SingleDec(p)
  <2>1. \E l \in {"trim", "open", "s_inc"} : Goto(p, l)
    BY <1>3 DEF SingleDec, Opened
  <2>2. Users' = Users \cup {p} /\ p \notin Users
    BY <1>3, <2>1, UsersMove DEF SingleDec, Users
  <2>3. kind = "single"
    BY <1>3 DEF SingleDec
  <2>4. Cardinality(Users') = Cardinality(Users) + 1 /\ Cardinality(Users) \in Nat
    BY <2>2, UsersFacts
  <2>5. QED
    BY <1>3, <2>3, <2>4 DEF SingleDec
<1>4. CASE SingleInc(p)
  <2>1. Users' = Users \ {p} /\ p \in Users
    BY <1>4, UsersMove DEF SingleInc, Users
  <2>2. kind = "single"
    BY <1>4 DEF SingleInc
  <2>3. Cardinality(Users') = Cardinality(Users) - 1 /\ Cardinality(Users) \in Nat
    BY <2>1, UsersFacts
  <2>4. QED
    BY <1>4, <2>2, <2>3 DEF SingleInc
<1>5. CASE SingleRelease(p)
  <2>1. Users' = Users \ {p} /\ p \in Users
    BY <1>5, UsersMove DEF SingleRelease, Users
  <2>2. QED
    BY <1>5, <2>1, UsersFacts DEF SingleRelease
<1>6. CASE Count(p)
  <2>1. \E l \in {"trim", "open"} : Goto(p, l)
    BY <1>6 DEF Count, Opened
  <2>2. Users' = Users \cup {p} /\ p \notin Users
    BY <1>6, <2>1, UsersMove DEF Count, Users
  <2>3. QED
    BY <1>6, <2>2, UsersFacts DEF Count
<1>7. CASE UserRelease(p)
  <2>1. \E l \in {"w_wake", "idle"} : Goto(p, l)
    BY <1>7 DEF UserRelease
  <2>2. Users' = Users \ {p} /\ p \in Users
    BY <1>7, <2>1, UsersMove DEF UserRelease, Users
  <2>3. QED
    BY <1>7, <2>2, UsersFacts DEF UserRelease
<1>8. CASE CloneSearch(p)
  BY <1>8 DEF CloneSearch
<1>9. CASE CloneAdd(p)
  BY <1>9 DEF CloneAdd
<1>10. CASE CloneRelease(p)
  BY <1>10 DEF CloneRelease
<1>11. CASE Trim(p)
  <2>1. Users' = Users
    BY <1>11, UsersMove DEF Trim, Users
  <2>2. QED
    BY <1>11, <2>1 DEF Trim
<1>12. CASE BeginIO(p)
  <2>1. Users' = Users
    BY <1>12, UsersMove DEF BeginIO, Users
  <2>2. QED
    BY <1>12, <2>1 DEF BeginIO
<1>13. CASE EndIO(p)
  <2>1. Users' = Users
    BY <1>13, UsersMove DEF EndIO, Users
  <2>2. QED
    BY <1>13, <2>1 DEF EndIO
<1>14. CASE Open(p)
  <2>1. Users' = Users
    BY <1>14 DEF Open, Goto, Users, Entry
  <2>2. QED
    BY <1>14, <2>1 DEF Open
<1>15. CASE UserLock(p)
  <2>1. Users' = Users
    BY <1>15 DEF UserLock, Goto, Users, Entry
  <2>2. QED
    BY <1>15, <2>1 DEF UserLock
<1>16. CASE WaitLock(p)
  <2>1. Users' = Users
    BY <1>16 DEF WaitLock, Goto, Users, Entry
  <2>2. QED
    BY <1>16, <2>1 DEF WaitLock
<1>17. CASE WaitJoin(p)
  <2>1. Users' = Users
    BY <1>17 DEF WaitJoin, Goto, Users, Entry
  <2>2. QED
    BY <1>17, <2>1 DEF WaitJoin
<1>18. CASE WaitTestCount(p)
  <2>1. Users' = Users
    BY <1>18 DEF WaitTestCount, Goto, Users, Entry
  <2>2. QED
    BY <1>18, <2>1 DEF WaitTestCount
<1>19. CASE WaitTestOwner(p)
  <2>1. Users' = Users
    BY <1>19 DEF WaitTestOwner, Goto, Users, Entry
  <2>2. QED
    BY <1>19, <2>1 DEF WaitTestOwner
<1>20. CASE WaitWoken(p)
  <2>1. Users' = Users
    BY <1>20 DEF WaitWoken, Goto, Users, Entry
  <2>2. QED
    BY <1>20, <2>1 DEF WaitWoken
<1>21. CASE Interrupted(p)
  <2>1. Users' = Users
    BY <1>21 DEF Interrupted, Goto, Users, Entry
  <2>2. QED
    BY <1>21, <2>1 DEF Interrupted
<1>22. CASE Grab(p)
  <2>1. Users' = Users
    BY <1>22 DEF Grab, Goto, Users, Entry
  <2>2. QED
    BY <1>22, <2>1 DEF Grab
<1>23. CASE Wake(p)
  <2>1. Users' = Users
    BY <1>23 DEF Wake, Goto, Users, Entry
  <2>2. QED
    BY <1>23, <2>1 DEF Wake
<1>24. CASE CloneFails(p)
  <2>1. Users' = Users
    BY <1>24 DEF CloneFails, Goto, Users, Entry
  <2>2. QED
    BY <1>24, <2>1 DEF CloneFails
<1>25. QED
  BY <1>2, <1>3, <1>4, <1>5, <1>6, <1>7, <1>8, <1>9, <1>10, <1>11, <1>12,
    <1>13, <1>14, <1>15, <1>16, <1>17, <1>18, <1>19, <1>20, <1>21, <1>22,
    <1>23, <1>24 DEF TakeLock, Step, UserCall

\* What was found available under the lock stays so until the lock is dropped.
LEMMA GrantedStep ==
  ASSUME TypeOK, LockOwner, Counted, Granted, [Next]_vars PROVE Granted'
<1>1. CASE UNCHANGED vars
  BY <1>1 DEF vars, Granted, Available, Mine
<1>2. SUFFICES ASSUME NEW p \in Procs, TakeLock(p) \/ Step(p) \/ UserCall(p)
               PROVE  Granted'
  BY <1>1 DEF Next
<1> USE DEF TypeOK, Typed, OnItsWay, LockOwner, Granted, Goto, Available, Mine
<1>3. CASE Open(p)
  BY <1>3 DEF Open, Entry
<1>4. CASE SingleDec(p)
  BY <1>4 DEF SingleDec, Opened
<1>5. CASE Grab(p)
  BY <1>5 DEF Grab
<1>6. CASE Count(p)
  BY <1>6 DEF Count, Opened
<1>7. CASE UserRelease(p)
  BY <1>7, ProcsAssumption DEF UserRelease
<1>8. CASE CloneSearch(p)
  BY <1>8 DEF CloneSearch, Opened
<1>9. CASE CloneAdd(p)
  BY <1>9 DEF CloneAdd, Opened
<1>10. CASE SingleInc(p)
  BY <1>10 DEF SingleInc
<1>11. CASE SingleRelease(p)
  BY <1>11 DEF SingleRelease
<1>12. CASE UserLock(p)
  BY <1>12 DEF UserLock
<1>13. CASE WaitLock(p)
  BY <1>13 DEF WaitLock
<1>14. CASE WaitJoin(p)
  BY <1>14 DEF WaitJoin
<1>15. CASE WaitTestCount(p)
  BY <1>15 DEF WaitTestCount
<1>16. CASE WaitTestOwner(p)
  BY <1>16 DEF WaitTestOwner
<1>17. CASE WaitWoken(p)
  BY <1>17 DEF WaitWoken
<1>18. CASE Interrupted(p)
  BY <1>18 DEF Interrupted
<1>19. CASE Wake(p)
  BY <1>19 DEF Wake
<1>20. CASE CloneFails(p)
  BY <1>20 DEF CloneFails
<1>21. CASE CloneRelease(p)
  BY <1>21 DEF CloneRelease
<1>22. CASE Trim(p)
  BY <1>22 DEF Trim
<1>23. CASE BeginIO(p)
  BY <1>23 DEF BeginIO
<1>24. CASE EndIO(p)
  BY <1>24 DEF EndIO
<1>25. QED
  BY <1>2, <1>3, <1>4, <1>5, <1>6, <1>7, <1>8, <1>9, <1>10, <1>11, <1>12,
    <1>13, <1>14, <1>15, <1>16, <1>17, <1>18, <1>19, <1>20, <1>21, <1>22,
    <1>23, <1>24 DEF TakeLock, Step, UserCall

\* A device that counts no user has no holder.
LEMMA NoHolder ==
  ASSUME Cardinality(Users) = 0 PROVE Holders = {}
<1>1. Users = {}
  <2>1. CASE Procs = {}
    BY <2>1 DEF Users
  <2>2. CASE Procs # {}
    BY <2>2, UsersFacts
  <2>3. QED
    BY <2>1, <2>2
<1>2. QED
  BY <1>1 DEF Users, Holders

\* Nobody is let in beside another user.
LEMMA OneUserStep ==
  ASSUME TypeOK, LockOwner, Counted, Granted, OneUser, [Next]_vars PROVE OneUser'
<1>1. CASE UNCHANGED vars
  BY <1>1 DEF vars, OneUser, Holders, Mine
<1>2. SUFFICES ASSUME NEW p \in Procs, TakeLock(p) \/ Step(p) \/ UserCall(p)
               PROVE  OneUser'
  BY <1>1 DEF Next
<1> USE DEF TypeOK, Typed, OnItsWay, OneUser, Mine
<1>3. CASE Open(p)
  BY <1>3 DEF Open, Entry, Goto, Holders
<1>4. CASE SingleDec(p)
  <2>1. kind = "single"
    BY <1>4 DEF SingleDec
  <2>2. CASE available' = 0
    <3>1. available = 1 - Cardinality(Users) /\ Cardinality(Users) \in Nat
      BY <2>1, UsersFacts DEF Counted
    <3>2. Cardinality(Users) = 0
      BY <1>4, <2>2, <3>1 DEF SingleDec
    <3>3. Holders = {}
      BY <3>2, NoHolder
    <3>4. QED
      BY <1>4, <2>1, <3>3 DEF SingleDec, Opened, Goto, Holders
  <2>3. CASE available' # 0
    BY <1>4, <2>1, <2>3 DEF SingleDec, Goto, Holders
  <2>4. QED
    BY <2>2, <2>3
<1>5. CASE Grab(p)
  <2>1. CASE count = 0
    <3>1. kind \in {"user", "wuser"} /\ Cardinality(Users) = 0
      BY <1>5, <2>1 DEF Grab, Counted
    <3>2. Holders = {}
      BY <3>1, NoHolder
    <3>3. QED
      BY <1>5, <3>1, <3>2 DEF Grab, Goto, Holders
  <2>2. CASE count # 0
    BY <1>5, <2>2 DEF Grab, Goto, Holders
  <2>3. QED
    BY <2>1, <2>2
<1>6. CASE Count(p)
  <2>1. Mine(p) /\ kind \in {"user", "wuser"}
    BY <1>6 DEF Count, Granted
  <2>2. QED
    BY <1>6, <2>1 DEF Count, Opened, Goto, Holders
<1>7. CASE CloneSearch(p)
  BY <1>7 DEF CloneSearch
<1>8. CASE CloneAdd(p)
  BY <1>8 DEF CloneAdd
<1>9. CASE SingleInc(p)
  BY <1>9 DEF SingleInc, Goto, Holders
<1>10. CASE SingleRelease(p)
  BY <1>10 DEF SingleRelease, Goto, Holders
<1>11. CASE UserLock(p)
  BY <1>11 DEF UserLock, Goto, Holders
<1>12. CASE WaitLock(p)
  BY <1>12 DEF WaitLock, Goto, Holders
<1>13. CASE WaitJoin(p)
  BY <1>13 DEF WaitJoin, Goto, Holders
<1>14. CASE WaitTestCount(p)
  BY <1>14 DEF WaitTestCount, Goto, Holders
<1>15. CASE WaitTestOwner(p)
  BY <1>15 DEF WaitTestOwner, Goto, Holders
<1>16. CASE WaitWoken(p)
  BY <1>16 DEF WaitWoken, Goto, Holders
<1>17. CASE Interrupted(p)
  BY <1>17 DEF Interrupted, Goto, Holders
<1>18. CASE UserRelease(p)
  BY <1>18 DEF UserRelease, Goto, Holders
<1>19. CASE Wake(p)
  BY <1>19 DEF Wake, Goto, Holders
<1>20. CASE CloneFails(p)
  BY <1>20 DEF CloneFails, Goto, Holders
<1>21. CASE CloneRelease(p)
  BY <1>21 DEF CloneRelease, Goto, Holders
<1>22. CASE Trim(p)
  BY <1>22 DEF Trim, Goto, Holders
<1>23. CASE BeginIO(p)
  BY <1>23 DEF BeginIO, Goto, Holders
<1>24. CASE EndIO(p)
  BY <1>24 DEF EndIO, Goto, Holders
<1>25. QED
  BY <1>2, <1>3, <1>4, <1>5, <1>6, <1>7, <1>8, <1>9, <1>10, <1>11, <1>12,
    <1>13, <1>14, <1>15, <1>16, <1>17, <1>18, <1>19, <1>20, <1>21, <1>22,
    <1>23, <1>24 DEF TakeLock, Step, UserCall

-----------------------------------------------------------------------------
\* Whoever makes the device available to a sleeping open is about to wake the queue.
LEMMA NotMissedStep ==
  ASSUME TypeOK, Counted, NotMissed, [Next]_vars PROVE NotMissed'
<1>1. CASE UNCHANGED vars
  BY <1>1 DEF vars, NotMissed, Mine
<1>2. SUFFICES ASSUME NEW p \in Procs, TakeLock(p) \/ Step(p) \/ UserCall(p)
               PROVE  NotMissed'
  BY <1>1 DEF Next
<1> USE DEF TypeOK, Typed, OnItsWay, NotMissed, Mine, Goto
<1>3. CASE Open(p)
  BY <1>3 DEF Open, Entry
<1>4. CASE SingleDec(p)
  BY <1>4 DEF SingleDec, Opened
<1>5. CASE WaitTestCount(p)
  BY <1>5 DEF WaitTestCount
<1>6. CASE WaitTestOwner(p)
  BY <1>6 DEF WaitTestOwner
<1>7. CASE Count(p)
  <2>1. count \in Nat
    BY <1>7, UsersFacts DEF Count, Counted
  <2>2. QED
    BY <1>7, <2>1 DEF Count, Opened
<1>8. CASE CloneSearch(p)
  BY <1>8 DEF CloneSearch, Opened
<1>9. CASE CloneAdd(p)
  BY <1>9 DEF CloneAdd, Opened
<1>10. CASE SingleInc(p)
  BY <1>10 DEF SingleInc
<1>11. CASE SingleRelease(p)
  BY <1>11 DEF SingleRelease
<1>12. CASE UserLock(p)
  BY <1>12 DEF UserLock
<1>13. CASE WaitLock(p)
  BY <1>13 DEF WaitLock
<1>14. CASE WaitJoin(p)
  BY <1>14 DEF WaitJoin
<1>15. CASE WaitWoken(p)
  BY <1>15 DEF WaitWoken
<1>16. CASE Interrupted(p)
  BY <1>16 DEF Interrupted
<1>17. CASE Grab(p)
  BY <1>17 DEF Grab
<1>18. CASE UserRelease(p)
  BY <1>18 DEF UserRelease
<1>19. CASE Wake(p)
  BY <1>19 DEF Wake
<1>20. CASE CloneFails(p)
  BY <1>20 DEF CloneFails
<1>21. CASE CloneRelease(p)
  BY <1>21 DEF CloneRelease
<1>22. CASE Trim(p)
  BY <1>22 DEF Trim
<1>23. CASE BeginIO(p)
  BY <1>23 DEF BeginIO
<1>24. CASE EndIO(p)
  BY <1>24 DEF EndIO
<1>25. QED
  BY <1>2, <1>3, <1>4, <1>5, <1>6, <1>7, <1>8, <1>9, <1>10, <1>11, <1>12,
    <1>13, <1>14, <1>15, <1>16, <1>17, <1>18, <1>19, <1>20, <1>21, <1>22,
    <1>23, <1>24 DEF TakeLock, Step, UserCall

\* A terminal that is on the list is not put there again.
LEMMA OneCloneStep ==
  ASSUME TypeOK, LockOwner, OneClone, [Next]_vars PROVE OneClone'
<1>1. CASE UNCHANGED vars
  BY <1>1 DEF vars, OneClone
<1>2. SUFFICES ASSUME NEW p \in Procs, TakeLock(p) \/ Step(p) \/ UserCall(p)
               PROVE  OneClone'
  BY <1>1 DEF Next
<1> USE DEF TypeOK, Typed, OnItsWay, LockOwner, OneClone
<1>3. CASE Open(p)
  BY <1>3 DEF Open, Entry, Goto
<1>4. CASE SingleDec(p)
  BY <1>4 DEF SingleDec
<1>5. CASE Count(p)
  BY <1>5 DEF Count
<1>6. CASE CloneSearch(p)
  <2>1. CASE \E i \in DOMAIN clones : clones[i] = Tty[p]
    <3> DEFINE c == CHOOSE i \in DOMAIN clones : clones[i] = Tty[p]
    <3>1. c \in DOMAIN clones /\ clones[c] = Tty[p]
      BY <2>1
    <3>2. c # 0
      BY <3>1
    <3>3. which' = [which EXCEPT ![p] = c] /\ clones' = clones /\ kind' = kind
      BY <1>6, <2>1 DEF CloneSearch
    <3>4. Opened(p)
      BY <1>6, <3>2, <3>3 DEF CloneSearch
    <3> HIDE DEF c
    <3>5. QED
      BY <3>1, <3>3, <3>4 DEF Opened, Goto
  <2>2. CASE ~\E i \in DOMAIN clones : clones[i] = Tty[p]
    <3>1. which' = [which EXCEPT ![p] = 0] /\ clones' = clones /\ kind' = kind
      BY <1>6, <2>2 DEF CloneSearch
    <3>2. Goto(p, "c_alloc")
      BY <1>6, <3>1 DEF CloneSearch
    <3>3. QED
      BY <2>2, <3>1, <3>2 DEF Goto
  <2>3. QED
    BY <2>1, <2>2
<1>7. CASE CloneAdd(p)
  <2>1. /\ \A i \in DOMAIN clones : clones[i] # Tty[p]
       /\ lock = p /\ kind = "priv" /\ kind' = kind
    BY <1>7 DEF CloneAdd
  <2>2. /\ Len(clones') = Len(clones) + 1 /\ DOMAIN clones' = DOMAIN clones \cup {Len(clones')}
       /\ clones'[Len(clones')] = Tty[p] /\ \A i \in DOMAIN clones : clones'[i] = clones[i]
       /\ Len(clones') \notin DOMAIN clones
    BY <1>7 DEF CloneAdd
  <2>3. which' = [which EXCEPT ![p] = Len(clones')] /\ Opened(p)
    BY <1>7 DEF CloneAdd
  <2>4. \A i, j \in DOMAIN clones' : clones'[i] = clones'[j] => i = j
    BY <2>1, <2>2
  <2>5. \A q \in Procs \ {p} : pc[q] # "c_alloc" /\ pc'[q] = pc[q] /\ which'[q] = which[q]
    BY <2>1, <2>3 DEF Opened, Goto
  <2>6. pc'[p] \in {"trim", "open"} /\ which'[p] = Len(clones')
    BY <2>3 DEF Opened, Goto
  <2>7. \A q \in Procs : pc'[q] # "c_alloc"
    BY <2>5, <2>6
  <2>8. \A q \in Procs : pc'[q] \in {"trim", "open"} =>
            which'[q] \in DOMAIN clones' /\ clones'[which'[q]] = Tty[q]
    <3>1. TAKE q \in Procs
    <3>2. CASE q = p
      BY <2>2, <2>6, <3>2
    <3>3. CASE q # p
      BY <2>1, <2>2, <2>5, <3>3
    <3>4. QED
      BY <3>2, <3>3
  <2>9. QED
    BY <2>4, <2>7, <2>8
<1>8. CASE CloneRelease(p)
  BY <1>8 DEF CloneRelease, Goto
<1>9. CASE SingleInc(p)
  BY <1>9 DEF SingleInc, Goto
<1>10. CASE SingleRelease(p)
  BY <1>10 DEF SingleRelease, Goto
<1>11. CASE UserLock(p)
  BY <1>11 DEF UserLock, Goto
<1>12. CASE WaitLock(p)
  BY <1>12 DEF WaitLock, Goto
<1>13. CASE WaitJoin(p)
  BY <1>13 DEF WaitJoin, Goto
<1>14. CASE WaitTestCount(p)
  BY <1>14 DEF WaitTestCount, Goto
<1>15. CASE WaitTestOwner(p)
  BY <1>15 DEF WaitTestOwner, Goto
<1>16. CASE WaitWoken(p)
  BY <1>16 DEF WaitWoken, Goto
<1>17. CASE Interrupted(p)
  BY <1>17 DEF Interrupted, Goto
<1>18. CASE Grab(p)
  BY <1>18 DEF Grab, Goto
<1>19. CASE UserRelease(p)
  BY <1>19 DEF UserRelease, Goto
<1>20. CASE Wake(p)
  BY <1>20 DEF Wake, Goto
<1>21. CASE CloneFails(p)
  BY <1>21 DEF CloneFails, Goto
<1>22. CASE Trim(p)
  BY <1>22 DEF Trim, Goto
<1>23. CASE BeginIO(p)
  BY <1>23 DEF BeginIO, Goto
<1>24. CASE EndIO(p)
  BY <1>24 DEF EndIO, Goto
<1>25. QED
  BY <1>2, <1>3, <1>4, <1>5, <1>6, <1>7, <1>8, <1>9, <1>10, <1>11, <1>12,
    <1>13, <1>14, <1>15, <1>16, <1>17, <1>18, <1>19, <1>20, <1>21, <1>22,
    <1>23, <1>24 DEF TakeLock, Step, UserCall

-----------------------------------------------------------------------------
\* No device is open.
LEMMA Initially == Init => IInv
<1> SUFFICES ASSUME Init PROVE IInv
  OBVIOUS
<1>1. TypeOK
  BY KindsAssumption DEF Init, TypeOK, Typed, OnItsWay, Labels
<1>2. Users = {} /\ Holders = {}
  BY DEF Init, Users, Holders
<1>3. Counted
  BY <1>2, FS_EmptySet DEF Init, Counted
<1>4. LockOwner /\ Granted /\ NotMissed /\ OneClone
  BY DEF Init, LockOwner, Granted, NotMissed, OneClone
<1>5. OneUser
  BY <1>2 DEF OneUser
<1>6. QED
  BY <1>1, <1>3, <1>4, <1>5 DEF IInv

\* No step leaves the invariant.
LEMMA Inductive == IInv /\ [Next]_vars => IInv'
BY TypedStep, LockOwnerStep, CountedStep, GrantedStep, OneUserStep, NotMissedStep,
   OneCloneStep DEF IInv

\* The invariant holds throughout, in every interleaving.
THEOREM Invariance == Spec => []IInv
BY Initially, Inductive, PTL DEF Spec

\* Every variable has its type, and no call leaves the way of its device.
THEOREM TypeCorrect == Spec => []TypeOK
<1>1. IInv => TypeOK
  BY DEF IInv
<1>2. QED
  BY <1>1, Invariance, PTL

\* For any processes and users: "single" has one holder, and the holders of "user"
\* and "wuser" all belong to the owner (access.c:52-66, 100-125, 171-193).
THEOREM NobodyElse == Spec => []OneUser
<1>1. IInv => OneUser
  BY DEF IInv
<1>2. QED
  BY <1>1, Invariance, PTL

\* No open sleeps on an available device unless a release is about to wake the queue,
\* though it tests without the lock, the count first and then the owner
\* (access.c:162-180, 195-204).
THEOREM NoOpenForgotten == Spec => []WaitersWoken
<1>1. IInv => WaitersWoken
  BY DEF IInv, NotMissed, WaitersWoken, Available
<1>2. QED
  BY <1>1, Invariance, PTL

\* For any terminals, two files are on one private device exactly when their
\* processes have one terminal (access.c:246-270, 283-286).
THEOREM OnePerTty == Spec => []PrivatePerTty
<1>1. IInv => PrivatePerTty
  <2>1. SUFFICES ASSUME IInv, kind = "priv", NEW p \in Holders, NEW q \in Holders
                 PROVE  which[p] = which[q] <=> Tty[p] = Tty[q]
    BY DEF PrivatePerTty
  <2>2. p \in Procs /\ q \in Procs /\ pc[p] \in {"trim", "open"} /\ pc[q] \in {"trim", "open"}
    BY <2>1 DEF IInv, TypeOK, OnItsWay, Holders
  <2>3. QED
    BY <2>1, <2>2 DEF IInv, OneClone
<1>2. QED
  BY <1>1, Invariance, PTL
=============================================================================

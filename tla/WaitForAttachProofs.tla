------------------------ MODULE WaitForAttachProofs ------------------------
(***************************************************************************)
(* Theorems of WaitForAttach about the SCSI scan lock, for any number of   *)
(* processes and any bounds of the two loops.                              *)
(***************************************************************************)
EXTENDS WaitForAttach, TLAPS

\* The loop of TryLock still has an attempt left, the loop of scans a scan.
AttemptsLeft ==
    \A p \in Procs :
        /\ pc[p] \in {"idle", "tryLock"} => tries[p] < MaxTryLock
        /\ pc[p] \in {"idle", "tryLock", "scan", "udev", "lstat"} => finds[p] < MaxFind

IInv ==
    /\ TypeOK
    /\ AttemptsLeft
    /\ LockHeldByScanner
    /\ ScanUnlockedOnlyAfterTimeout

LEMMA InitIInv == Init => IInv
BY ConstantsAssumption
   DEF Init, IInv, TypeOK, AttemptsLeft, LockHeldByScanner, ScanUnlockedOnlyAfterTimeout,
       Labels, Scanning

\* Every step keeps the types and the counters of the two loops in range.
LEMMA TypeStep ==
    ASSUME IInv, [Next]_vars
    PROVE  TypeOK' /\ AttemptsLeft'
<1> USE ConstantsAssumption DEF IInv, TypeOK, AttemptsLeft, Labels, Scanning, node, local
<1>1. ASSUME NEW p \in Procs, Call(p)
      PROVE  TypeOK' /\ AttemptsLeft'
  BY <1>1 DEF Call, Goto
<1>2. ASSUME NEW p \in Procs, NoLockFile(p)
      PROVE  TypeOK' /\ AttemptsLeft'
  BY <1>2 DEF NoLockFile, Exit, Goto
<1>3. ASSUME NEW p \in Procs, Acquire(p)
      PROVE  TypeOK' /\ AttemptsLeft'
  BY <1>3 DEF Acquire, Goto
<1>4. ASSUME NEW p \in Procs, Busy(p)
      PROVE  TypeOK' /\ AttemptsLeft'
  BY <1>4 DEF Busy, TryLockFails, Goto
<1>5. ASSUME NEW p \in Procs, ScsiHostScan(p)
      PROVE  TypeOK' /\ AttemptsLeft'
  BY <1>5 DEF ScsiHostScan, Goto
<1>6. ASSUME NEW p \in Procs, UdevdHandleEvents(p)
      PROVE  TypeOK' /\ AttemptsLeft'
  BY <1>6 DEF UdevdHandleEvents, Settled, Goto
<1>7. ASSUME NEW p \in Procs, Lstat(p)
      PROVE  TypeOK' /\ AttemptsLeft'
  BY <1>7 DEF Lstat, LstatPath, Decide, Goto
<1>8. ASSUME NEW p \in Procs, Resolve(p)
      PROVE  TypeOK' /\ AttemptsLeft'
  BY <1>8 DEF Resolve, Decide, Goto
<1>9. ASSUME NEW p \in Procs, Unlock(p) \/ Die(p)
      PROVE  TypeOK' /\ AttemptsLeft'
  BY <1>9 DEF Unlock, Die, Exit, Goto
<1>10. ASSUME Platform
       PROVE  TypeOK' /\ AttemptsLeft'
  BY <1>10 DEF Platform, DropDisk, Udevd, Settled
<1>11. ASSUME UNCHANGED vars
       PROVE  TypeOK' /\ AttemptsLeft'
  BY <1>11 DEF vars
<1> QED
  BY <1>1, <1>2, <1>3, <1>4, <1>5, <1>6, <1>7, <1>8, <1>9, <1>10, <1>11 DEF Next, Step

\* Every step keeps the lock with a process inside the scan loop, and every
\* process in that loop either holds it or has run out of attempts.
LEMMA LockStep ==
    ASSUME IInv, [Next]_vars
    PROVE  LockHeldByScanner' /\ ScanUnlockedOnlyAfterTimeout'
<1> USE ConstantsAssumption
    DEF IInv, TypeOK, AttemptsLeft, LockHeldByScanner, ScanUnlockedOnlyAfterTimeout,
        Labels, Scanning, node, local
<1> DEFINE Goal == LockHeldByScanner' /\ ScanUnlockedOnlyAfterTimeout'
<1>1. ASSUME NEW p \in Procs, Call(p)
      PROVE  Goal
  BY <1>1 DEF Call, Goto
<1>2. ASSUME NEW p \in Procs, NoLockFile(p)
      PROVE  Goal
  BY <1>2 DEF NoLockFile, Exit, Goto
<1>3. ASSUME NEW p \in Procs, Acquire(p)
      PROVE  Goal
  BY <1>3 DEF Acquire, Goto
<1>4. ASSUME NEW p \in Procs, Busy(p)
      PROVE  Goal
  BY <1>4 DEF Busy, TryLockFails, Goto
<1>5. ASSUME NEW p \in Procs, ScsiHostScan(p) \/ UdevdHandleEvents(p)
      PROVE  Goal
  BY <1>5 DEF ScsiHostScan, UdevdHandleEvents, Goto
<1>6. ASSUME NEW p \in Procs, Lstat(p) \/ Resolve(p)
      PROVE  Goal
  BY <1>6 DEF Lstat, LstatPath, Resolve, Decide, Goto
<1>7. ASSUME NEW p \in Procs, Unlock(p)
      PROVE  Goal
  BY <1>7 DEF Unlock, Exit, Goto
<1>8. ASSUME NEW p \in Procs, Die(p)
      PROVE  Goal
  BY <1>8 DEF Die, Exit, Goto
<1>9. ASSUME Platform \/ UNCHANGED vars
      PROVE  Goal
  BY <1>9 DEF Platform, DropDisk, Udevd, vars
<1> QED
  BY <1>1, <1>2, <1>3, <1>4, <1>5, <1>6, <1>7, <1>8, <1>9 DEF Next, Step

\* The inductive invariant of the lock holds in every reachable state.
THEOREM InductiveInvariant == Spec => []IInv
<1>1. IInv /\ [Next]_vars => IInv'
  BY TypeStep, LockStep DEF IInv
<1> QED
  BY <1>1, InitIInv, PTL DEF Spec

\* No return path of waitForAttach leaves the lock file with a process that has
\* ended (main.go:179-215).
THEOREM LockNeverLeaks == Spec => []LockHeldByScanner
<1>1. IInv => LockHeldByScanner
  BY DEF IInv
<1> QED
  BY <1>1, InductiveInvariant, PTL

\* Every variable keeps its type: neither loop makes more attempts than it has
\* (main.go:168,182).
THEOREM TypeCorrect == Spec => []TypeOK
<1>1. IInv => TypeOK
  BY DEF IInv
<1> QED
  BY <1>1, InductiveInvariant, PTL

\* A process that scans without the lock has used up its attempts
\* (main.go:168-176).
THEOREM UnlockedOnlyAfterTimeout == Spec => []ScanUnlockedOnlyAfterTimeout
<1>1. IInv => ScanUnlockedOnlyAfterTimeout
  BY DEF IInv
<1> QED
  BY <1>1, InductiveInvariant, PTL

\* Among the processes that got the lock in time at most one scans
\* (main.go:168-179).
THEOREM MutualExclusionInTime == Spec => []AtMostOneInTime
<1>1. IInv => AtMostOneInTime
  BY ConstantsAssumption
     DEF IInv, TypeOK, ScanUnlockedOnlyAfterTimeout, AtMostOneInTime
<1> QED
  BY <1>1, InductiveInvariant, PTL

\* A held lock ends with its holder's own return or death, never by the
\* deferred Unlock of a process that went on without it (main.go:175-179).
THEOREM HolderReleases == Spec => OnlyHolderReleases
<1>1. IInv /\ [Next]_vars =>
          [\A p \in Procs : lockFile = p /\ lockFile' # p => pc'[p] = "idle"]_vars
  <2> SUFFICES ASSUME IInv, Next, NEW p \in Procs, lockFile = p, lockFile' # p
               PROVE  pc'[p] = "idle"
    OBVIOUS
  <2>1. PICK q \in Procs : Acquire(q) \/ Unlock(q) \/ Die(q)
    BY DEF Next, Step, Platform, Call, NoLockFile, Busy, TryLockFails, ScsiHostScan,
           UdevdHandleEvents, Lstat, LstatPath, Resolve, DropDisk, Udevd
  <2>2. ~Acquire(q)
    BY ConstantsAssumption DEF Acquire
  <2> QED
    BY <2>1, <2>2 DEF IInv, TypeOK, Unlock, Die, Exit, Goto
<1> QED
  BY <1>1, InductiveInvariant, PTL DEF Spec, OnlyHolderReleases

\* Another process, and the platform, leave a call where it is.
LEMMA OthersStay ==
    ASSUME IInv, Next, NEW p \in Procs, ~Call(p), ~Step(p), ~Die(p)
    PROVE  pc'[p] = pc[p] /\ tries'[p] = tries[p]
<1> USE DEF IInv, TypeOK, local, node
<1>1. ASSUME NEW q \in Procs, q # p, Call(q) \/ Die(q)
      PROVE  pc'[p] = pc[p] /\ tries'[p] = tries[p]
  BY <1>1 DEF Call, Die, Exit, Goto
<1>2. ASSUME NEW q \in Procs, q # p, NoLockFile(q) \/ Acquire(q) \/ Busy(q) \/ Unlock(q)
      PROVE  pc'[p] = pc[p] /\ tries'[p] = tries[p]
  BY <1>2 DEF NoLockFile, Acquire, Busy, TryLockFails, Unlock, Exit, Goto
<1>3. ASSUME NEW q \in Procs, q # p,
             ScsiHostScan(q) \/ UdevdHandleEvents(q) \/ Lstat(q) \/ Resolve(q)
      PROVE  pc'[p] = pc[p] /\ tries'[p] = tries[p]
  BY <1>3 DEF ScsiHostScan, UdevdHandleEvents, Lstat, LstatPath, Resolve, Decide, Goto
<1>4. ASSUME Platform
      PROVE  pc'[p] = pc[p] /\ tries'[p] = tries[p]
  BY <1>4 DEF Platform, DropDisk, Udevd
<1> QED
  BY <1>1, <1>2, <1>3, <1>4 DEF Next, Step

\* Both loops are bounded together: a call takes MaxTryLock + 3 * MaxFind + 2 steps
\* at most, however the calls on the node interleave (main.go:168-215).
THEOREM CallsAreBounded == Spec => AttemptsRunOut
<1>1. IInv /\ [Next]_vars =>
          [\A p \in Procs :
              pc[p] # "idle" /\ (pc'[p] # pc[p] \/ tries'[p] # tries[p]) =>
                  StepsLeft(p)' < StepsLeft(p)]_vars
  <2> SUFFICES ASSUME IInv, Next, NEW p \in Procs, pc[p] # "idle",
                      pc'[p] # pc[p] \/ tries'[p] # tries[p]
               PROVE  StepsLeft(p)' < StepsLeft(p)
    OBVIOUS
  <2> USE ConstantsAssumption DEF StepsLeft, ScansLeft, local
  <2>1. /\ tries[p] \in Nat /\ finds[p] \in Nat /\ MaxTryLock \in Nat /\ MaxFind \in Nat
        /\ tries[p] <= MaxTryLock /\ finds[p] <= MaxFind
        /\ pc[p] = "tryLock" => tries[p] < MaxTryLock
        /\ pc[p] \in {"scan", "udev", "lstat"} => finds[p] < MaxFind
        /\ pc[p] \in Labels
    BY DEF IInv, TypeOK, AttemptsLeft
  <2>2. pc \in [Procs -> Labels] /\ tries \in [Procs -> 0 .. MaxTryLock]
                                 /\ finds \in [Procs -> 0 .. MaxFind]
    BY DEF IInv, TypeOK
  <2>3. CASE Exit(p)
    <3>1. pc'[p] = "idle"
      BY <2>2, <2>3 DEF Exit, Goto
    <3> QED
      BY <2>1, <3>1 DEF Labels, Scanning
  <2>4. CASE Acquire(p)
    <3>1. pc[p] = "tryLock" /\ pc'[p] = "scan" /\ finds'[p] = finds[p]
      BY <2>2, <2>4 DEF Acquire, Goto
    <3> QED
      BY <2>1, <3>1
  <2>5. CASE Busy(p)
    <3>1. /\ pc[p] = "tryLock" /\ tries'[p] = tries[p] + 1 /\ finds'[p] = finds[p]
          /\ pc'[p] \in {"tryLock", "scan"}
      BY <2>1, <2>2, <2>5 DEF Busy, TryLockFails, Goto
    <3> QED
      BY <2>1, <3>1
  <2>6. CASE ScsiHostScan(p)
    <3>1. pc[p] = "scan" /\ pc'[p] = "udev" /\ finds'[p] = finds[p]
      BY <2>2, <2>6 DEF ScsiHostScan, Goto
    <3> QED
      BY <2>1, <3>1
  <2>7. CASE UdevdHandleEvents(p)
    <3>1. pc[p] = "udev" /\ pc'[p] = "lstat" /\ finds'[p] = finds[p]
      BY <2>2, <2>7 DEF UdevdHandleEvents, Goto
    <3> QED
      BY <2>1, <3>1
  <2>8. CASE Lstat(p)
    <3>1. /\ pc[p] = "lstat"
          /\ \/ pc'[p] \in {"resolve", "unlock"}
             \/ pc'[p] = "scan" /\ finds'[p] = finds[p] + 1
      BY <2>2, <2>8 DEF Lstat, LstatPath, Decide, Goto
    <3> QED
      BY <2>1, <3>1
  <2>9. CASE Resolve(p)
    <3>1. pc[p] = "resolve" /\ pc'[p] = "unlock"
      BY <2>2, <2>9 DEF Resolve, Decide, Goto
    <3> QED
      BY <3>1
  <2>10. Step(p) \/ Die(p)
    BY OthersStay DEF Call
  <2> QED
    BY <2>3, <2>4, <2>5, <2>6, <2>7, <2>8, <2>9, <2>10 DEF Step, NoLockFile, Unlock, Die
<1> QED
  BY <1>1, InductiveInvariant, PTL DEF Spec, AttemptsRunOut
=============================================================================

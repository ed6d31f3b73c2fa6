---------------------------- MODULE WaitForAttach ----------------------------
(***************************************************************************)
(* waitforattach on one node: the processes that wait for volumes to show  *)
(* up, the SCSI scan lock they share, and the devices of the node.         *)
(*                                                                         *)
(* Sources: cmd/flexplugin/main.go (waitForAttach),                        *)
(* pkg/utils/volume_utils.go (ScsiHostScan, UdevdHandleEvents,             *)
(* FindAttachedVolumeDirectoryPath).  The lock file is the external        *)
(* package github.com/nightlyone/lockfile, modelled from its use here: a   *)
(* file that holds the pid of its owner, taken over when the owner is dead *)
(* and removed by its owner only.                                          *)
(***************************************************************************)
EXTENDS Naturals

CONSTANTS
    Procs,          \* driver processes, by pid
    Volumes,        \* volumes whose device path is waited for
    Nobody,         \* no lock file
    Dead,           \* a lock file whose owner is dead
    MaxTryLock,     \* resources.MaxAttemptsToTryLock, 24 in the code
    MaxFind         \* resources.MaxAttemptsToFindVolume, 24 in the code

ASSUME ConstantsAssumption ==
    /\ MaxTryLock \in Nat \ {0}
    /\ MaxFind \in Nat \ {0}
    /\ Nobody \notin Procs
    /\ Dead \notin Procs
    /\ Nobody # Dead

VARIABLES
    lockFile,   \* owner of the lock file
    disks,      \* volumes whose SCSI device the kernel knows
    link,       \* volume -> its name under /dev/disk/by-id
    pc,         \* per process: what it does next
    vol,        \* per process: the volume of its device path
    tries,      \* per process: failed TryLock calls
    finds,      \* per process: scans that found nothing
    answer      \* per process: status it is about to return

node  == <<disks, link>>
local == <<vol, tries, finds>>
vars  == <<lockFile, disks, link, pc, vol, tries, finds, answer>>

Scanning == {"scan", "udev", "lstat", "resolve"}
Labels   == {"idle", "tryLock", "unlock"} \cup Scanning

TypeOK ==
    /\ lockFile \in Procs \cup {Nobody, Dead}
    /\ disks \in SUBSET Volumes
    /\ link \in [Volumes -> {"absent", "present", "dangling"}]
    /\ pc \in [Procs -> Labels]
    /\ vol \in [Procs -> Volumes]
    /\ tries \in [Procs -> 0 .. MaxTryLock]
    /\ finds \in [Procs -> 0 .. MaxFind]
    /\ answer \in [Procs -> {"none", "Success", "Failed"}]

Init ==
    /\ lockFile = Nobody
    /\ disks = {}
    /\ link = [v \in Volumes |-> "absent"]
    /\ pc = [p \in Procs |-> "idle"]
    /\ vol \in [Procs -> Volumes]
    /\ tries = [p \in Procs |-> 0]
    /\ finds = [p \in Procs |-> 0]
    /\ answer = [p \in Procs |-> "none"]

Goto(p, label) == pc' = [pc EXCEPT ![p] = label]

\* The result is decided; the deferred Unlock still runs.
Decide(p, status) == Goto(p, "unlock") /\ answer' = [answer EXCEPT ![p] = status]

\* The process answers, or dies, and its variables are gone.
Exit(p) ==
    /\ Goto(p, "idle")
    /\ tries' = [tries EXCEPT ![p] = 0]
    /\ finds' = [finds EXCEPT ![p] = 0]
    /\ answer' = [answer EXCEPT ![p] = "none"]
    /\ UNCHANGED vol

\* The kubelet runs waitforattach.
Call(p) ==
    /\ pc[p] = "idle"
    /\ \E v \in Volumes : vol' = [vol EXCEPT ![p] = v]
    /\ Goto(p, "tryLock")
    /\ UNCHANGED <<lockFile, node, tries, finds, answer>>

\* lockfile.New refuses the path: nothing is deferred yet.
NoLockFile(p) ==
    /\ pc[p] = "tryLock"
    /\ tries[p] = 0
    /\ Exit(p)
    /\ UNCHANGED <<lockFile, node>>

\* TryLock writes the lock file: there was none, or its owner is dead.
Acquire(p) ==
    /\ pc[p] = "tryLock"
    /\ lockFile \in {Nobody, Dead}
    /\ lockFile' = p
    /\ Goto(p, "scan")
    /\ UNCHANGED <<node, local, answer>>

\* TryLock fails: the owner lives, or the file could not be written.  last
\* says whether the loop is over; then the code goes on all the same.
TryLockFails(p, last) ==
    /\ pc[p] = "tryLock"
    /\ tries' = [tries EXCEPT ![p] = IF @ < MaxTryLock THEN @ + 1 ELSE @]
    /\ Goto(p, IF last THEN "scan" ELSE "tryLock")
    /\ UNCHANGED <<lockFile, node, vol, finds, answer>>

\* Variants: insist on the lock; give up one attempt early.
BusyForever(p)  == TryLockFails(p, FALSE)
BusyTooShort(p) == TryLockFails(p, tries[p] + 2 >= MaxTryLock)

Busy(p) == TryLockFails(p, tries[p] + 1 = MaxTryLock)

\* Every host adapter is told to rescan, and finds what the platform presents
\* to this VM by now; one that refuses is logged only.
ScsiHostScan(p) ==
    /\ pc[p] = "scan"
    /\ \E found \in SUBSET Volumes : disks' = disks \cup found
    /\ Goto(p, "udev")
    /\ UNCHANGED <<lockFile, link, local, answer>>

\* What udev makes of the devices it knows: links for those that are there,
\* none for those that are gone.
Settled == [v \in Volumes |-> IF v \in disks THEN "present" ELSE "absent"]

\* udevadm settle waits for the events; its failure is logged only.
UdevdHandleEvents(p) ==
    /\ pc[p] = "udev"
    /\ link' \in {link, Settled}
    /\ Goto(p, "lstat")
    /\ UNCHANGED <<lockFile, disks, local, answer>>

\* Lstat on the path.  last says whether the loop is over; then the call fails.
LstatPath(p, last) ==
    /\ pc[p] = "lstat"
    /\ IF link[vol[p]] # "absent"
       THEN Goto(p, "resolve") /\ UNCHANGED <<finds, answer>>
       ELSE /\ finds' = [finds EXCEPT ![p] = @ + 1]
            /\ IF last THEN Decide(p, "Failed") ELSE Goto(p, "scan") /\ UNCHANGED answer
    /\ UNCHANGED <<lockFile, node, vol, tries>>

\* A variant with one scan too many.
LstatOnceMore(p) == LstatPath(p, finds[p] = MaxFind)

Lstat(p) == LstatPath(p, finds[p] + 1 = MaxFind)

\* A variant that returns from here without the deferred Unlock.
ResolveWithoutDefer(p) ==
    /\ pc[p] = "resolve"
    /\ IF link[vol[p]] = "present" THEN Decide(p, "Success") /\ UNCHANGED local ELSE Exit(p)
    /\ UNCHANGED <<lockFile, node>>

\* FindAttachedVolumeDirectoryPath follows the link; a link that leads nowhere,
\* or is gone by now, fails the call at once.
Resolve(p) ==
    /\ pc[p] = "resolve"
    /\ Decide(p, IF link[vol[p]] = "present" THEN "Success" ELSE "Failed")
    /\ UNCHANGED <<lockFile, node, local>>

\* A variant that removes the lock file without looking at its owner.
UnlockAnyone(p) ==
    /\ pc[p] = "unlock"
    /\ lockFile' = Nobody
    /\ Exit(p)
    /\ UNCHANGED node

\* The deferred Unlock, which a process that never got the lock runs too.
Unlock(p) ==
    /\ pc[p] = "unlock"
    /\ lockFile' = IF lockFile = p THEN Nobody ELSE lockFile
    /\ Exit(p)
    /\ UNCHANGED node

\* The process is killed: no deferred call runs, the file stays.
Die(p) ==
    /\ pc[p] # "idle"
    /\ lockFile' = IF lockFile = p THEN Dead ELSE lockFile
    /\ Exit(p)
    /\ UNCHANGED node

\* The kernel drops a device (DeleteScsiDevice of unmountdevice), and udev
\* catches up by itself.
DropDisk(v) ==
    /\ v \in disks
    /\ disks' = disks \ {v}
    /\ link' = [link EXCEPT ![v] = IF @ = "present" THEN "dangling" ELSE @]
    /\ UNCHANGED <<lockFile, pc, local, answer>>

Udevd ==
    /\ link' = Settled
    /\ UNCHANGED <<lockFile, disks, pc, local, answer>>

Platform ==
    \/ \E v \in Volumes : DropDisk(v)
    \/ Udevd

\* What a running process does next.
Step(p) ==
    \/ NoLockFile(p)
    \/ Acquire(p)
    \/ Busy(p)
    \/ ScsiHostScan(p)
    \/ UdevdHandleEvents(p)
    \/ Lstat(p)
    \/ Resolve(p)
    \/ Unlock(p)

Next ==
    \/ \E p \in Procs : Call(p) \/ Step(p) \/ Die(p)
    \/ Platform

Spec == Init /\ [][Next]_vars

\* A process that is not killed keeps running: it only sleeps and runs commands
\* that end.  Nothing is assumed of the platform.
FairSpec == Spec /\ \A p \in Procs : WF_vars(Step(p))

-----------------------------------------------------------------------------
\* The lock file names a process that is still inside waitForAttach and got
\* past the lock: no return path leaves it behind (main.go:179-215).
LockHeldByScanner ==
    lockFile \in Procs => pc[lockFile] \in Scanning \cup {"unlock"}

\* A process scans without holding the lock only when each of its attempts
\* has failed (main.go:168-176).
ScanUnlockedOnlyAfterTimeout ==
    \A p \in Procs : pc[p] \in Scanning /\ lockFile # p => tries[p] = MaxTryLock

\* A lock that is held is given up by its holder alone, by returning or by
\* dying: the deferred Unlock of a process that went on without the lock
\* (main.go:175-179) does not let a third one in.
OnlyHolderReleases ==
    [][\A p \in Procs : lockFile = p /\ lockFile' # p => pc'[p] = "idle"]_vars

\* Two processes that both took the lock never scan side by side: whoever
\* scans next to the holder is one that timed out (main.go:168-179).
AtMostOneInTime ==
    \A p, q \in Procs :
        /\ pc[p] \in Scanning /\ tries[p] < MaxTryLock
        /\ pc[q] \in Scanning /\ tries[q] < MaxTryLock
        => p = q

\* The steps a call still takes at most: failed attempts at the lock, then three
\* steps for each scan, then the two that follow a link found.
ScansLeft(p) == MaxFind - finds[p]

StepsLeft(p) ==
    CASE pc[p] = "tryLock" -> (MaxTryLock - tries[p]) + 3 * MaxFind + 2
      [] pc[p] = "scan"    -> 3 * ScansLeft(p) + 2
      [] pc[p] = "udev"    -> 3 * ScansLeft(p) + 1
      [] pc[p] = "lstat"   -> 3 * ScansLeft(p)
      [] pc[p] = "resolve" -> 2
      [] pc[p] = "unlock"  -> 1
      [] pc[p] = "idle"    -> 0

\* Each step brings a call nearer to its end, whoever takes, keeps or leaves the
\* lock meanwhile and whatever becomes of the links: the call takes MaxTryLock +
\* 3 * MaxFind + 2 steps at most (main.go:168-215).
AttemptsRunOut ==
    [][\A p \in Procs :
        pc[p] # "idle" /\ (pc'[p] # pc[p] \/ tries'[p] # tries[p]) =>
            StepsLeft(p)' < StepsLeft(p)]_vars

\* A call that is left to run ends, whoever holds or left the lock and whether
\* or not the volume ever shows up (main.go:168,182).
CallsEnd == \A p \in Procs : pc[p] # "idle" ~> pc[p] = "idle"
=============================================================================

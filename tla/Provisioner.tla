----------------------------- MODULE Provisioner -----------------------------
(***************************************************************************)
(* The dynamic provisioner: Provision and Delete of                        *)
(* pkg/volume/provision.go and delete.go against Cinder, under the         *)
(* controller library that calls them.  The library (external, from        *)
(* kubernetes-incubator/external-storage) is modelled from how             *)
(* cmd/provisioner/main.go hands control to it: it runs one operation per  *)
(* claim at a time, repeats one that answered an error, saves the PV that  *)
(* Provision returns and removes the PV object when Delete answers nil.    *)
(***************************************************************************)
EXTENDS Naturals

CONSTANTS
    Claims,         \* claims, and the names of their PVs
    BadClaims,      \* claims whose options parseOptions refuses
    Ids,            \* Cinder volume ids, as many as the quota allows
    NoId,           \* no volume
    MaxPolls,       \* reads in GetCinderVolume, 100 in the code
    Faults          \* what may go wrong, a subset of FaultKinds

FaultKinds == {"request",   \* another request fails and has no effect
               "read",      \* the read of a new volume fails
               "cleanup",   \* the delete of a volume in error fails
               "lost",      \* the answer to a create or delete is lost
               "save",      \* the PV cannot be saved
               "crash"}     \* the provisioner process dies

ASSUME ConstantsAssumption ==
    /\ BadClaims \subseteq Claims
    /\ NoId \notin Ids
    /\ MaxPolls \in Nat \ {0}
    /\ Faults \subseteq FaultKinds

VARIABLES
    state,      \* Cinder: id -> state of the volume, "unused" before it exists
    owner,      \* Cinder: id -> claim in the volume's name, icp-<PVName>
    claim,      \* Kubernetes: claim -> its phase
    pv,         \* Kubernetes: claim -> volumeID of its PV, NoId without a PV
    pc,         \* per claim: what its operation does next
    vol,        \* per claim: the volume its operation knows
    polls       \* per claim: reads of GetCinderVolume so far

cinder == <<state, owner>>
kube   == <<claim, pv>>
vars   == <<state, owner, claim, pv, pc, vol, polls>>

States == {"unused", "creating", "available", "in-use", "error", "deleted"}
Labels == {"idle", "parse", "create", "read", "cleanup", "save", "client", "delete", "forget"}

TypeOK ==
    /\ state \in [Ids -> States]
    /\ owner \in [Ids -> Claims]
    /\ claim \in [Claims -> {"pending", "bound", "released", "gone"}]
    /\ pv \in [Claims -> Ids \cup {NoId}]
    /\ pc \in [Claims -> Labels]
    /\ vol \in [Claims -> Ids \cup {NoId}]
    /\ polls \in [Claims -> 0 .. MaxPolls]

\* owner of an unused id means nothing.
Init ==
    /\ state = [i \in Ids |-> "unused"]
    /\ owner \in [Ids -> Claims]
    /\ \A i, j \in Ids : owner[i] = owner[j]
    /\ claim = [c \in Claims |-> "pending"]
    /\ pv = [c \in Claims |-> NoId]
    /\ pc = [c \in Claims |-> "idle"]
    /\ vol = [c \in Claims |-> NoId]
    /\ polls = [c \in Claims |-> 0]

Goto(c, label) == pc' = [pc EXCEPT ![c] = label]

\* The operation returns to the library; its variables are gone.
End(c) ==
    /\ Goto(c, "idle")
    /\ vol' = [vol EXCEPT ![c] = NoId]
    /\ polls' = [polls EXCEPT ![c] = 0]

\* The library starts Provision for a claim without a PV, and Delete for a PV
\* whose claim is gone.
StartProvision(c) ==
    /\ pc[c] = "idle" /\ claim[c] = "pending"
    /\ Goto(c, "parse")
    /\ UNCHANGED <<cinder, kube, vol, polls>>

StartDelete(c) ==
    /\ pc[c] = "idle" /\ claim[c] = "released"
    /\ Goto(c, "client")
    /\ vol' = [vol EXCEPT ![c] = pv[c]]
    /\ UNCHANGED <<cinder, kube, polls>>

\* parseOptions, and the Cinder client of Provision.
ParseOptions(c) ==
    /\ pc[c] = "parse"
    /\ IF c \in BadClaims THEN End(c) ELSE Goto(c, "create") /\ UNCHANGED <<vol, polls>>
    /\ UNCHANGED <<cinder, kube>>

\* Cinder makes the volume i for c, which may be available at once.
Made(c, i, s) ==
    /\ pc[c] = "create"
    /\ state[i] = "unused"
    /\ state' = [state EXCEPT ![i] = s]
    /\ owner' = [owner EXCEPT ![i] = c]
    /\ UNCHANGED kube

\* The create request is accepted.
Create(c) ==
    \E i \in Ids, s \in {"creating", "available"} :
        /\ Made(c, i, s)
        /\ Goto(c, IF s = "available" THEN "save" ELSE "read")
        /\ vol' = [vol EXCEPT ![c] = i]
        /\ UNCHANGED polls

\* A lost answer is an error to the code, which then knows no id.
CreateLost(c) ==
    /\ "lost" \in Faults
    /\ \E i \in Ids, s \in {"creating", "available"} : Made(c, i, s)
    /\ End(c)

\* One read of GetCinderVolume, the n-th.
Read(c, n, again) ==
    LET s == state[vol[c]]
    IN  /\ pc[c] = "read"
        /\ polls' = [polls EXCEPT ![c] = n]
        /\ Goto(c, CASE again -> "read"
                     [] ~again /\ s = "error" -> "cleanup"
                     [] ~again /\ s # "error" -> "save")
        /\ UNCHANGED <<cinder, kube, vol>>

StillCreating(c) == state[vol[c]] = "creating"

\* Variants: one read too many, no second read.
ReadOneMore(c) == Read(c, polls[c] + 1, StillCreating(c) /\ polls[c] < MaxPolls)
ReadOnce(c)    == Read(c, polls[c] + 1, FALSE)

\* A volume that is still being created at the last read passes for created.
GetCinderVolume(c) ==
    Read(c, polls[c] + 1, StillCreating(c) /\ polls[c] + 1 < MaxPolls)

\* The read fails: Provision answers the error and forgets the volume.
ReadFails(c) ==
    /\ pc[c] = "read"
    /\ "read" \in Faults
    /\ End(c)
    /\ UNCHANGED <<cinder, kube>>

\* Variants: no cleanup; no return after it.
CleanupAndGoOn(c) ==
    /\ pc[c] = "cleanup"
    /\ state' = [state EXCEPT ![vol[c]] = "deleted"]
    /\ Goto(c, "save")
    /\ UNCHANGED <<owner, kube, vol, polls>>

LeaveBehind(c) ==
    /\ pc[c] = "cleanup"
    /\ End(c)
    /\ UNCHANGED <<cinder, kube>>

\* Creation ended in error: the volume is deleted, and whether that worked is
\* not looked at.
Cleanup(c) ==
    /\ pc[c] = "cleanup"
    /\ state' = [state EXCEPT ![vol[c]] = "deleted"]
    /\ End(c)
    /\ UNCHANGED <<owner, kube>>

CleanupFails(c) ==
    /\ pc[c] = "cleanup"
    /\ "cleanup" \in Faults
    /\ End(c)
    /\ UNCHANGED <<cinder, kube>>

\* The library saves the PV with the volumeID annotation, or deletes the volume
\* of a PV it could not save.
SavePV(c) ==
    /\ pc[c] = "save"
    /\ pv' = [pv EXCEPT ![c] = vol[c]]
    /\ claim' = [claim EXCEPT ![c] = "bound"]
    /\ End(c)
    /\ UNCHANGED cinder

SaveFails(c) ==
    /\ pc[c] = "save"
    /\ "save" \in Faults
    /\ Goto(c, "client")
    /\ UNCHANGED <<cinder, kube, vol, polls>>

\* The Cinder client of Delete.
DeleteClient(c) ==
    /\ pc[c] = "client"
    /\ Goto(c, "delete")
    /\ UNCHANGED <<cinder, kube, vol, polls>>

\* Cinder deletes a volume that is neither being created nor attached.
Deleted(c) ==
    /\ pc[c] = "delete"
    /\ state[vol[c]] \in {"available", "error"}
    /\ state' = [state EXCEPT ![vol[c]] = "deleted"]
    /\ UNCHANGED <<owner, kube>>

\* A variant that tests the error the wrong way round.
DeleteErrorInverted(c) == Deleted(c) /\ End(c)

\* A variant of a refused delete: nobody looks at the error.
DeleteErrorIgnored(c) ==
    /\ pc[c] = "delete"
    /\ state[vol[c]] \in {"creating", "in-use", "deleted"}
    /\ Goto(c, "forget")
    /\ UNCHANGED <<cinder, kube, vol, polls>>

DeleteVolume(c) == Deleted(c) /\ Goto(c, "forget") /\ UNCHANGED <<vol, polls>>

\* The answer is lost, which is an error to the code.
DeleteLost(c) == "lost" \in Faults /\ Deleted(c) /\ End(c)

\* A volume that is gone is an error like any other (404).
DeleteRefused(c) ==
    /\ pc[c] = "delete"
    /\ state[vol[c]] \in {"creating", "in-use", "deleted"}
    /\ End(c)
    /\ UNCHANGED <<cinder, kube>>

\* Delete answered nil: the library removes the PV object, if there is one.
Forget(c) ==
    /\ pc[c] = "forget"
    /\ pv' = [pv EXCEPT ![c] = NoId]
    /\ claim' = [claim EXCEPT ![c] = IF @ = "released" THEN "gone" ELSE @]
    /\ End(c)
    /\ UNCHANGED cinder

\* Cinder refuses a volume over the quota.
QuotaExceeded(c) ==
    /\ pc[c] = "create"
    /\ \A i \in Ids : state[i] # "unused"
    /\ End(c)
    /\ UNCHANGED <<cinder, kube>>

\* A request fails without effect, or a client cannot be made.
RequestFails(c) ==
    /\ pc[c] \in {"parse", "create", "client", "delete"}
    /\ "request" \in Faults
    /\ End(c)
    /\ UNCHANGED <<cinder, kube>>

\* The process dies, by itself or in glog.Fatalf, and every operation with it.
Crash ==
    /\ "crash" \in Faults
    /\ \E c \in Claims : pc[c] # "idle"
    /\ pc' = [c \in Claims |-> "idle"]
    /\ vol' = [c \in Claims |-> NoId]
    /\ polls' = [c \in Claims |-> 0]
    /\ UNCHANGED <<cinder, kube>>

\* Cinder finishes a creation; the flex driver attaches the volume of a bound
\* claim and detaches it some time; a user deletes a claim.
CinderCreates(i) ==
    /\ state[i] = "creating"
    /\ \E s \in {"available", "error"} : state' = [state EXCEPT ![i] = s]
    /\ UNCHANGED <<owner, kube, pc, vol, polls>>

Attach(i) ==
    /\ state[i] = "available"
    /\ \E c \in Claims : claim[c] = "bound" /\ pv[c] = i
    /\ state' = [state EXCEPT ![i] = "in-use"]
    /\ UNCHANGED <<owner, kube, pc, vol, polls>>

Detach(i) ==
    /\ state[i] = "in-use"
    /\ state' = [state EXCEPT ![i] = "available"]
    /\ UNCHANGED <<owner, kube, pc, vol, polls>>

Release(c) ==
    /\ claim[c] = "bound"
    /\ claim' = [claim EXCEPT ![c] = "released"]
    /\ UNCHANGED <<cinder, pv, pc, vol, polls>>

Provision(c) ==
    \/ StartProvision(c) \/ ParseOptions(c) \/ Create(c) \/ CreateLost(c) \/ QuotaExceeded(c)
    \/ GetCinderVolume(c) \/ ReadFails(c) \/ Cleanup(c) \/ CleanupFails(c)
    \/ SavePV(c) \/ SaveFails(c)

Delete(c) ==
    \/ StartDelete(c) \/ DeleteClient(c) \/ DeleteVolume(c) \/ DeleteLost(c)
    \/ DeleteRefused(c) \/ Forget(c)

Next ==
    \/ \E c \in Claims : Provision(c) \/ Delete(c) \/ RequestFails(c) \/ Release(c)
    \/ \E i \in Ids : CinderCreates(i) \/ Attach(i) \/ Detach(i)
    \/ Crash

Spec == Init /\ [][Next]_vars

-----------------------------------------------------------------------------
Live(i) == state[i] \in {"creating", "available", "in-use", "error"}

\* A PV stands for a volume made for its own claim, so that two PVs never share
\* one, and no cleanup or delete takes the volume of a claim that is still
\* bound (provision.go:95-122, delete.go:48).
PVBacked ==
    \A c \in Claims : pv[c] # NoId =>
        /\ owner[pv[c]] = c
        /\ state[pv[c]] # "unused"
        /\ claim[c] = "bound" => Live(pv[c])

\* The volume Provision returns a PV for was seen available, unless it used up
\* its reads while Cinder was still creating it; then anything may have become
\* of it (provision.go:102-119, rest_utils.go:178-192).
UnreadyOnlyAfterTimeout ==
    \A c \in Claims : pc[c] = "save" =>
        state[vol[c]] = "available" \/ polls[c] = MaxPolls

\* What an operation still does at most: Provision reads its volume MaxPolls times,
\* and goes on with what Delete does when its PV cannot be saved.
StepsLeft(c) ==
    CASE pc[c] = "parse"  -> 6 + MaxPolls
      [] pc[c] = "create" -> 5 + MaxPolls
      [] pc[c] = "read"   -> 4 + (MaxPolls - polls[c])
      [] pc[c] = "save"   -> 4
      [] pc[c] = "client" -> 3
      [] pc[c] = "delete" -> 2
      [] pc[c] \in {"cleanup", "forget"} -> 1
      [] pc[c] = "idle"   -> 0

\* No operation goes back or round: each step leaves it fewer, whatever Cinder
\* answers, however long a creation takes and whatever the other operations do
\* (provision.go:87-158, delete.go:28-55, rest_utils.go:178-192).
OperationsRunOut ==
    [][\A c \in Claims :
        pc[c] # "idle" /\ (pc'[c] # pc[c] \/ polls'[c] # polls[c]) =>
            StepsLeft(c)' < StepsLeft(c)]_vars

\* The request sequences of Provision and Delete implement the store of
\* VolumeStore, under every fault: a claim's volume is made for it alone, is
\* there while the claim is, and its PV is removed after it (provision.go:87-158,
\* delete.go:28-55).
Store == INSTANCE VolumeStore WITH
    used   <- {i \in Ids : state[i] # "unused"},
    exists <- {i \in Ids : Live(i)}

ImplementsStore == Store!Spec
=============================================================================

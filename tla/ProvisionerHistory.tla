------------------------- MODULE ProvisionerHistory -------------------------
(***************************************************************************)
(* Provisioner with two history variables: the volumes that a failure has  *)
(* made an operation forget, and those that were deleted without the       *)
(* library hearing of it.  They constrain nothing: every behaviour of      *)
(* Provisioner is one of this module with some values of theirs.           *)
(***************************************************************************)
EXTENDS Provisioner

VARIABLES
    abandoned,  \* ids of volumes nobody may know of any more
    unheard     \* ids of deleted volumes whose PV nobody knows to be empty

varsH == <<vars, abandoned, unheard>>

\* The failures in which Provision, or the library for a PV it could not save,
\* forgets a volume that may exist: the answer of the create is lost, a read or
\* the cleanup of a failed creation fails, the delete of an unsaved PV's volume
\* fails or is refused.
Abandon(c) ==
    /\ \/ CreateLost(c) \/ ReadFails(c) \/ CleanupFails(c)
       \/ claim[c] = "pending" /\ (DeleteRefused(c) \/ RequestFails(c))
    /\ abandoned' = abandoned \cup {i \in Ids : vol[c] = i \/ state'[i] # state[i]}
    /\ UNCHANGED unheard

\* The answer of a delete that took effect is lost.
Unhear(c) ==
    /\ DeleteLost(c)
    /\ unheard' = unheard \cup {vol[c]}
    /\ UNCHANGED abandoned

\* The process dies while it works for claims without a PV, or before the PV of
\* a deleted volume is removed.
AbandonAll ==
    /\ Crash
    /\ abandoned' = abandoned \cup {i \in Ids : \E c \in Claims : vol[c] = i /\ pv[c] # i}
    /\ unheard' = unheard \cup {i \in Ids : \E c \in Claims : vol[c] = i /\ pc[c] = "forget"}

\* Every other step is to forget nothing that exists.
Keep ==
    /\ \/ \E c \in Claims :
            \/ StartProvision(c) \/ ParseOptions(c) \/ Create(c) \/ QuotaExceeded(c)
            \/ GetCinderVolume(c) \/ Cleanup(c) \/ SavePV(c) \/ SaveFails(c)
            \/ StartDelete(c) \/ DeleteClient(c) \/ DeleteVolume(c) \/ Forget(c)
            \/ claim[c] # "pending" /\ (DeleteRefused(c) \/ RequestFails(c))
            \/ Release(c)
       \/ \E i \in Ids : CinderCreates(i) \/ Attach(i) \/ Detach(i)
    /\ UNCHANGED <<abandoned, unheard>>

InitH == Init /\ abandoned = {} /\ unheard = {}
NextH == Keep \/ AbandonAll \/ \E c \in Claims : Abandon(c) \/ Unhear(c)
SpecH == InitH /\ [][NextH]_varsH

\* A running operation goes on, the library repeats a failed one, a request that
\* is repeated again and again is answered some time, Cinder does not create a
\* volume forever, and a volume does not stay attached forever.
FairSpec ==
    /\ SpecH
    /\ \A c \in Claims :
        /\ WF_vars(Provision(c)) /\ WF_vars(Delete(c))
        /\ SF_vars(DeleteClient(c)) /\ SF_vars(DeleteVolume(c))
    /\ \A i \in Ids : WF_vars(CinderCreates(i)) /\ WF_vars(Detach(i))

\* provision.go:114 "Clean up the volume we just created since it will be
\* orphaned otherwise": every volume Cinder has is in the PV of its claim or in
\* the hands of the operation working for that claim, and the only orphans are
\* those of the failures named above (provision.go:95-119, delete.go:48-51).
OrphanedForAReason ==
    \A i \in Ids : Live(i) /\ pv[owner[i]] # i /\ vol[owner[i]] # i => i \in abandoned

\* A claim that was deleted loses its volume and its PV in the end, whatever fails
\* or dies and however often Delete has to be repeated (delete.go:28-55).  The PV
\* stays for one reason only: its volume was deleted and the library never heard,
\* as the answer was lost or the process died; a repeated delete is then refused.
ReleasedGoes ==
    \A c \in Claims :
        claim[c] = "released" ~> claim[c] = "gone" \/ \E i \in unheard : pv[c] = i
=============================================================================

----------------------------- MODULE VolumeStore -----------------------------
(***************************************************************************)
(* What the dynamic provisioner promises, whatever fails: a volume that is *)
(* bound to a claim exists as long as the claim does, is never bound to a  *)
(* second claim, and outlives a PV in no case: the PV goes last.  Volumes  *)
(* may be made and dropped next to that, as failed calls do.               *)
(***************************************************************************)
CONSTANTS Claims, Ids, NoId

VARIABLES
    used,       \* ids of volumes that were ever made
    exists,     \* ids of volumes that exist
    claim,      \* claim -> its phase
    pv          \* claim -> the volume of its PV, NoId without a PV

vars == <<used, exists, claim, pv>>

Init ==
    /\ used = {}
    /\ exists = {}
    /\ claim = [c \in Claims |-> "pending"]
    /\ pv = [c \in Claims |-> NoId]

\* An id names one volume for ever.
Make(i) ==
    /\ i \notin used
    /\ used' = used \cup {i}
    /\ exists' = exists \cup {i}
    /\ UNCHANGED <<claim, pv>>

Drop(i) ==
    /\ i \in exists
    /\ \A c \in Claims : pv[c] = i => claim[c] # "bound"
    /\ exists' = exists \ {i}
    /\ UNCHANGED <<used, claim, pv>>

Bind(c, i) ==
    /\ claim[c] = "pending"
    /\ i \in exists
    /\ \A d \in Claims : pv[d] # i
    /\ claim' = [claim EXCEPT ![c] = "bound"]
    /\ pv' = [pv EXCEPT ![c] = i]
    /\ UNCHANGED <<used, exists>>

Release(c) ==
    /\ claim[c] = "bound"
    /\ claim' = [claim EXCEPT ![c] = "released"]
    /\ UNCHANGED <<used, exists, pv>>

Forget(c) ==
    /\ claim[c] = "released"
    /\ pv[c] \notin exists
    /\ claim' = [claim EXCEPT ![c] = "gone"]
    /\ pv' = [pv EXCEPT ![c] = NoId]
    /\ UNCHANGED <<used, exists>>

Next ==
    \/ \E i \in Ids : Make(i) \/ Drop(i)
    \/ \E c \in Claims : Release(c) \/ Forget(c) \/ \E i \in Ids : Bind(c, i)

Spec == Init /\ [][Next]_vars
=============================================================================

------------------------------ MODULE Lifecycle ------------------------------
(***************************************************************************)
(* The parts together, each by what it promises: the dynamic provisioner   *)
(* (VolumeStore), the controller side of the flex driver with the names it *)
(* writes and looks up, and the node side (MountService).  They share no   *)
(* memory and never call one another: a volume id goes from Provision to   *)
(* attach in an annotation of the PV, a name from attach to detach in the  *)
(* metadata of the volume, and everything else is what Cinder, Nova and    *)
(* the kernel of a node know.                                              *)
(*                                                                         *)
(* Sources: pkg/volume/provision.go and delete.go; attach and detach of    *)
(* cmd/flexplugin/main.go; for the node side see MountService.             *)
(***************************************************************************)
CONSTANTS
    Claims,     \* claims, and the names of their PVs
    Ids,        \* Cinder volume ids
    NoId,       \* no volume
    NoName,     \* a volume without a name in its metadata
    Nodes

ASSUME ConstantsAssumption ==
    /\ NoId \notin Ids
    /\ NoName \notin Claims

VARIABLES
    used, exists, claim, pv,                        \* see VolumeStore
    name,                                           \* id -> PV name in its metadata
    attached, present, mounted, bound, cleaning     \* see MountService

store == <<used, exists, claim, pv>>
node  == <<attached, present, mounted, bound, cleaning>>
vars  == <<used, exists, claim, pv, name, attached, present, mounted, bound, cleaning>>

\* A volume on a node, which is one VM.
Items == Nodes \X Ids

Store == INSTANCE VolumeStore
Node  == INSTANCE MountService

TypeOK ==
    /\ used \in SUBSET Ids
    /\ exists \in SUBSET used
    /\ claim \in [Claims -> {"pending", "bound", "released", "gone"}]
    /\ pv \in [Claims -> Ids \cup {NoId}]
    /\ name \in [Ids -> Claims \cup {NoName}]
    /\ attached \in SUBSET Items

Init ==
    /\ Store!Init
    /\ Node!Init
    /\ name = [i \in Ids |-> NoName]

AttachedAnywhere(i) == \E n \in Nodes : <<n, i>> \in attached

\* The provisioner.  Cinder deletes no volume that is attached, and a volume that
\* is deleted takes its metadata along.
Drop(i) ==
    /\ ~AttachedAnywhere(i)
    /\ Store!Drop(i)
    /\ name' = [name EXCEPT ![i] = NoName]
    /\ UNCHANGED node

\* A variant of Delete that answers nil when Cinder refuses.
ForgetFirst(c) ==
    /\ claim[c] = "released"
    /\ claim' = [claim EXCEPT ![c] = "gone"]
    /\ pv' = [pv EXCEPT ![c] = NoId]
    /\ UNCHANGED <<used, exists, name, node>>

Forget(c) == Store!Forget(c) /\ UNCHANGED <<name, node>>

Provisioner ==
    \/ \E i \in Ids : Drop(i)
    \/ \E c \in Claims : Forget(c)
    \/ /\ \/ \E i \in Ids : Store!Make(i)
          \/ \E c \in Claims : Store!Release(c) \/ \E i \in Ids : Store!Bind(c, i)
       /\ UNCHANGED <<name, node>>

\* attach is called for a bound PV and writes its name into a volume that is still
\* there.  The attachment comes later, if at all; the claim may be released before
\* either.
NameVolume(c) ==
    /\ pv[c] \in exists
    /\ name' = [name EXCEPT ![pv[c]] = c]
    /\ UNCHANGED <<store, node>>

\* A variant of attach that writes no name first.
AttachUnnamed(n, i) ==
    /\ i \in exists
    /\ Node!Attach(<<n, i>>)
    /\ UNCHANGED <<store, name>>

Attach(n, i) ==
    /\ i \in exists
    /\ name[i] # NoName
    /\ Node!Attach(<<n, i>>)
    /\ UNCHANGED <<store, name>>

\* The volumes a name is found in.
Matches(c) == {i \in exists : name[i] = c}

\* detach knows the name alone.
Detach(n, c) ==
    /\ \E i \in Ids : Matches(c) = {i} /\ Node!Detach(<<n, i>>)
    /\ UNCHANGED <<store, name>>

OnNode(x) ==
    /\ \/ Node!Appear(x) \/ Node!Mount(x) \/ Node!Bind(x) \/ Node!Unbind(x)
       \/ Node!Unmount(x) \/ Node!Remove(x) \/ Node!End(x)
    /\ UNCHANGED <<store, name>>

Next ==
    \/ Provisioner
    \/ \E c \in Claims : NameVolume(c) \/ \E n \in Nodes : Detach(n, c)
    \/ \E n \in Nodes, i \in Ids : Attach(n, i)
    \/ \E x \in Items : OnNode(x)

Spec == Init /\ [][Next]_vars

-----------------------------------------------------------------------------
\* What a pod uses, and what is mounted for it, exists and is the volume of exactly
\* one PV, whenever claims are deleted and however the parts interleave: no volume
\* vanishes under a mount or passes to another claim.
PodsKeepVolumes ==
    \A n \in Nodes, i \in Ids : <<n, i>> \in mounted \cup bound =>
        /\ i \in exists
        /\ \E c \in Claims : {d \in Claims : pv[d] = i} = {c}

\* main.go:120-121: whatever is attached, on whichever node, is found by the name
\* of its own PV, and nothing else is.
AttachedIsFound ==
    \A n \in Nodes, i \in Ids : <<n, i>> \in attached =>
        \E c \in Claims : pv[c] = i /\ Matches(c) = {i}
=============================================================================

---------------------------- MODULE MountService ----------------------------
(***************************************************************************)
(* What the node side of the driver promises about a volume on a node, an  *)
(* item: the order in which attachment, device, mount and the mounts of    *)
(* pods come and go.  A mount is made over a device of an attached volume, *)
(* pods only ever use a mount, and devices are removed only by a cleanup   *)
(* that has taken the item's own mount away.  A cleanup may end early and  *)
(* leave devices behind.                                                   *)
(***************************************************************************)
CONSTANT Items

VARIABLES
    attached,   \* items that Nova has attached
    present,    \* items whose devices the kernel of the node knows
    mounted,    \* items mounted at the global directory
    bound,      \* items whose mount is bound into a pod
    cleaning    \* items that are being cleaned up

vars == <<attached, present, mounted, bound, cleaning>>

Init ==
    /\ attached = {}
    /\ present = {}
    /\ mounted = {}
    /\ bound = {}
    /\ cleaning = {}

Attach(i) ==
    /\ i \notin attached
    /\ attached' = attached \cup {i}
    /\ UNCHANGED <<present, mounted, bound, cleaning>>

Detach(i) ==
    /\ i \in attached
    /\ i \notin mounted \cup cleaning
    /\ attached' = attached \ {i}
    /\ UNCHANGED <<present, mounted, bound, cleaning>>

\* A scan may find devices at any time, also of an item being cleaned up.
Appear(i) ==
    /\ i \in attached
    /\ present' = present \cup {i}
    /\ UNCHANGED <<attached, mounted, bound, cleaning>>

Mount(i) ==
    /\ i \in attached \cap present
    /\ i \notin mounted \cup cleaning
    /\ mounted' = mounted \cup {i}
    /\ UNCHANGED <<attached, present, bound, cleaning>>

Bind(i) ==
    /\ i \in mounted
    /\ bound' = bound \cup {i}
    /\ UNCHANGED <<attached, present, mounted, cleaning>>

Unbind(i) ==
    /\ i \in bound
    /\ bound' = bound \ {i}
    /\ UNCHANGED <<attached, present, mounted, cleaning>>

\* The cleanup begins by taking the mount away.
Unmount(i) ==
    /\ i \in mounted \ bound
    /\ mounted' = mounted \ {i}
    /\ cleaning' = cleaning \cup {i}
    /\ UNCHANGED <<attached, present, bound>>

Remove(i) ==
    /\ i \in cleaning
    /\ present' = present \ {i}
    /\ UNCHANGED <<attached, mounted, bound, cleaning>>

End(i) ==
    /\ i \in cleaning
    /\ cleaning' = cleaning \ {i}
    /\ UNCHANGED <<attached, present, mounted, bound>>

Next ==
    \E i \in Items :
        \/ Attach(i) \/ Detach(i) \/ Appear(i)
        \/ Mount(i) \/ Bind(i) \/ Unbind(i)
        \/ Unmount(i) \/ Remove(i) \/ End(i)

Spec == Init /\ [][Next]_vars

-----------------------------------------------------------------------------
\* What the order is for: pods use mounts alone, and a mount stands on a device of
\* an attached volume from its first moment to its last.
Layered ==
    /\ bound \subseteq mounted
    /\ mounted \subseteq attached \cap present
    /\ mounted \cap cleaning = {}
    /\ cleaning \subseteq attached
=============================================================================

-------------------------- MODULE NodeMountHistory --------------------------
(***************************************************************************)
(* NodeMount with a history variable: the nodes whose mountdevice has a    *)
(* false picture of the volume, and by what it came to it.  It constrains  *)
(* nothing: every behaviour of NodeMount is one of this module with some   *)
(* value of misled.                                                        *)
(***************************************************************************)
EXTENDS NodeMount

VARIABLE misled     \* nodes whose running call was misled

varsH == <<vars, misled>>

\* A call still knows what it was told until its process ends.
Running == {n \in Nodes : pc'[n] # "idle"}

\* lsblk fails on a file system it would have told, or the kernel refuses a sound
\* one.
Deceived(n) ==
    /\ (LsblkFails(n) /\ fs = "listed") \/ MountRefused(n)
    /\ misled' = misled \cup {n}

\* One node makes a file system while calls of others, told of what was there
\* before, go on.
Overtaken(n) ==
    /\ MakeFs(n) \/ RemakeFs(n)
    /\ misled' = (misled \cup (Nodes \ {n})) \cap Running

\* LsblkFails is true to the volume when lsblk would have told nothing.
Informed ==
    /\ \/ Environment
       \/ \E n \in Nodes :
            \/ LsblkFails(n) /\ fs # "listed"
            \/ HasFSOnVolumeDevice(n) \/ MakeDir(n) \/ MountDevice(n) \/ MountError(n)
            \/ Mount(n) \/ Unmount(n) \/ GetDevices(n) \/ UmountDevice(n)
            \/ DeleteScsiDevice(n) \/ RemoveMultipathForDevice(n) \/ CommandFails(n)
            \/ Die(n)
    /\ misled' = misled \cap Running

InitH == Init /\ misled = {}
NextH == Informed \/ \E n \in Nodes : Deceived(n) \/ Overtaken(n)
SpecH == InitH /\ [][NextH]_varsH

\* The check of main.go:223-226 keeps written data from mkfs, with these
\* exceptions and no other: a file system of a type FSTYPES lacks
\* (constants.go:118), a call whose lsblk failed (main.go:224 drops the error), a
\* "bad superblock" for a file system that is sound (main.go:265), and a call
\* whose answer of lsblk another node's mkfs has made stale.
DataLostForAReason ==
    [][data /\ fs # "corrupt" /\ ~data' =>
        \/ fs = "unlisted"
        \/ \E n \in misled : pc[n] \in {"mkfs", "remake"} /\ pc'[n] # pc[n]]_varsH
=============================================================================

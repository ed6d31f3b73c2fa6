------------------------------ MODULE NodeMount ------------------------------
(***************************************************************************)
(* The mount side of the flex driver: mountdevice, mount, unmount and      *)
(* unmountdevice of one volume on the nodes that use it.  Each is a        *)
(* process that runs one command after the other; what the commands change *)
(* (the volume, the mounts and the devices of a node) outlives it.         *)
(*                                                                         *)
(* Sources: cmd/flexplugin/main.go (mountDevice, mount, unmountDevice,     *)
(* unmount), pkg/utils/volume_utils.go (HasFSOnVolumeDevice,               *)
(* GetDeviceOfMount, GetAssociatedBlockDevices, DeleteScsiDevice,          *)
(* RemoveMultipathForDevice).  The kubelet is external: on a node it runs  *)
(* one operation for the volume at a time, in the order of the flex volume *)
(* protocol, and looks at the mounts of the node to decide which.          *)
(***************************************************************************)
CONSTANTS
    Nodes,
    Multipath,      \* nodes that reach the volume through a multipath device
    MultiAttach,    \* whether the volume may be attached to several nodes
    Before,         \* what the volume may carry when it is first used
    FsType,         \* per node: what the PV used there asks for, see FsTypes
    Faults          \* what may go wrong, a subset of FaultKinds

\* No type, one of resources.FSTYPES, or one that list lacks (as ntfs, which
\* mountDevice has a case for).
FsTypes == {"unset", "listed", "unlisted"}

FaultKinds == {"command",   \* mkdir, mkfs, mount or umount fails
               "lsblk",     \* the look for a file system fails
               "refused",   \* the kernel refuses a sound file system
               "lookup",    \* the device of a mount is not found
               "sysfs",     \* a SCSI device cannot be deleted
               "corrupt",   \* the file system breaks while it is not mounted
               "crash"}     \* a driver process dies

ASSUME ConstantsAssumption ==
    /\ Multipath \subseteq Nodes
    /\ MultiAttach \in BOOLEAN
    /\ Before \subseteq {"none", "listed", "unlisted"}
    /\ FsType \in [Nodes -> FsTypes]
    /\ Faults \subseteq FaultKinds

VARIABLES
    fs,         \* what is on the volume
    data,       \* whether a pod has written to that file system
    attached,   \* nodes the volume is attached to
    devices,    \* nodes whose kernel knows SCSI devices of it
    maps,       \* nodes with a multipath map over them
    global,     \* nodes where it is mounted at the global directory
    pods,       \* nodes where that is bound into a pod
    pc,         \* per node: the command that comes next
    hasFS,      \* per node: what mountDevice was told of the file system
    found       \* per node: whether unmountDevice found the devices

volume == <<fs, data>>
kernel == <<devices, maps>>
mounts == <<global, pods>>
local  == <<hasFS, found>>
vars   == <<fs, data, attached, devices, maps, global, pods, pc, hasFS, found>>

Contents == {"none", "listed", "unlisted", "corrupt"}
Labels   == {"idle", "check", "mkfs", "mkdir", "mountDevice", "remake",
             "bind", "unbind", "lookup", "umount", "delete", "flush"}

TypeOK ==
    /\ fs \in Contents
    /\ data \in BOOLEAN
    /\ attached \in SUBSET Nodes
    /\ devices \in SUBSET Nodes
    /\ maps \in SUBSET Multipath
    /\ global \in SUBSET Nodes
    /\ pods \in SUBSET Nodes
    /\ pc \in [Nodes -> Labels]
    /\ hasFS \in [Nodes -> BOOLEAN]
    /\ found \in [Nodes -> BOOLEAN]

\* A new volume, or a static one that was in use before, under whatever file
\* system it had.
Init ==
    /\ fs \in Before
    /\ data = (fs # "none")
    /\ attached = {}
    /\ devices = {}
    /\ maps = {}
    /\ global = {}
    /\ pods = {}
    /\ pc = [n \in Nodes |-> "idle"]
    /\ hasFS = [n \in Nodes |-> FALSE]
    /\ found = [n \in Nodes |-> FALSE]

Idle(n) == pc[n] = "idle"

Goto(n, label) == pc' = [pc EXCEPT ![n] = label]

\* The process answers, or dies, and its variables are gone.
Exit(n) ==
    /\ Goto(n, "idle")
    /\ hasFS' = [hasFS EXCEPT ![n] = FALSE]
    /\ found' = [found EXCEPT ![n] = FALSE]

-----------------------------------------------------------------------------
\* mountdevice, for a volume whose device has shown up and is not mounted.
CallMountDevice(n) ==
    /\ Idle(n) /\ n \in (attached \cap devices) \ global
    /\ Goto(n, "check")
    /\ UNCHANGED <<volume, attached, kernel, mounts, local>>

\* A variant that compares the types as they are spelled, so that xfs is none.
HasFSSpelled(n) ==
    /\ pc[n] = "check"
    /\ \E has \in BOOLEAN :
        /\ has => fs \in {"listed", "corrupt"}
        /\ hasFS' = [hasFS EXCEPT ![n] = has]
        /\ Goto(n, IF has THEN "mkdir" ELSE "mkfs")
    /\ UNCHANGED <<volume, attached, kernel, mounts, found>>

\* What lsblk says of the volume.  A type that is not listed counts as none, and
\* a broken one may still be told.
HasFSOnVolumeDevice(n) ==
    /\ pc[n] = "check"
    /\ \E has \in BOOLEAN :
        /\ has => fs \in {"listed", "corrupt"}
        /\ ~has => fs # "listed"
        /\ hasFS' = [hasFS EXCEPT ![n] = has]
        /\ Goto(n, IF has THEN "mkdir" ELSE "mkfs")
    /\ UNCHANGED <<volume, attached, kernel, mounts, found>>

\* lsblk fails, or tells nothing: its error is dropped, and there is none.
LsblkFails(n) ==
    /\ pc[n] = "check" /\ "lsblk" \in Faults
    /\ hasFS' = [hasFS EXCEPT ![n] = FALSE]
    /\ Goto(n, "mkfs")
    /\ UNCHANGED <<volume, attached, kernel, mounts, found>>

\* A variant without the default type.
MadeNoDefault(n) == FsType[n]

\* What mkfs of a type leaves on the volume; no type means ext4.
Made(n) == IF FsType[n] = "unlisted" THEN "unlisted" ELSE "listed"

MakeFs(n) ==
    /\ pc[n] = "mkfs"
    /\ fs' = Made(n)
    /\ data' = FALSE
    /\ Goto(n, "mkdir")
    /\ UNCHANGED <<attached, kernel, mounts, local>>

MakeDir(n) ==
    /\ pc[n] = "mkdir"
    /\ Goto(n, "mountDevice")
    /\ UNCHANGED <<volume, attached, kernel, mounts, local>>

\* mount fails, and bad says whether its message has "bad superblock" in it.
MountFails(n, bad) ==
    /\ pc[n] = "mountDevice"
    /\ IF bad THEN Goto(n, "remake") /\ UNCHANGED local ELSE Exit(n)
    /\ UNCHANGED <<volume, attached, kernel, mounts>>

\* The message has "bad superblock" in it for what the kernel cannot mount.
MountError(n) ==
    \E bad \in BOOLEAN :
        /\ bad => fs \in {"none", "corrupt"}
        /\ ~bad => "command" \in Faults
        /\ MountFails(n, bad)

\* mount says "wrong fs type, bad option, bad superblock" of a sound file system
\* too, when the kernel refuses it for some other reason.
MountRefused(n) ==
    /\ fs \in {"listed", "unlisted"} /\ "refused" \in Faults
    /\ MountFails(n, TRUE)

MountDevice(n) ==
    /\ pc[n] = "mountDevice"
    /\ fs \in {"listed", "unlisted"}
    /\ global' = global \cup {n}
    /\ Exit(n)
    /\ UNCHANGED <<volume, attached, kernel, pods>>

\* The type of the second mkfs.  The default was only filled in where no file
\* system had been seen: otherwise there is no command "mkfs.".
HasType(n) == FsType[n] # "unset" \/ ~hasFS[n]

\* mkfs again, and Failed all the same.
RemakeFs(n) ==
    /\ pc[n] = "remake"
    /\ IF HasType(n) THEN fs' = Made(n) /\ data' = FALSE ELSE UNCHANGED volume
    /\ Exit(n)
    /\ UNCHANGED <<attached, kernel, mounts>>

-----------------------------------------------------------------------------
\* mount and unmount: the bind mount of a pod.  mkdir comes first, but only its
\* failure shows.
CallMount(n) ==
    /\ Idle(n) /\ n \in global \ pods
    /\ Goto(n, "bind")
    /\ UNCHANGED <<volume, attached, kernel, mounts, local>>

Mount(n) ==
    /\ pc[n] = "bind"
    /\ pods' = pods \cup {n}
    /\ Exit(n)
    /\ UNCHANGED <<volume, attached, kernel, global>>

CallUnmount(n) ==
    /\ Idle(n) /\ n \in pods
    /\ Goto(n, "unbind")
    /\ UNCHANGED <<volume, attached, kernel, mounts, local>>

Unmount(n) ==
    /\ pc[n] = "unbind"
    /\ pods' = pods \ {n}
    /\ Exit(n)
    /\ UNCHANGED <<volume, attached, kernel, global>>

-----------------------------------------------------------------------------
\* unmountdevice, once the last pod has gone.
CallUnmountDevice(n) ==
    /\ Idle(n) /\ n \in global \ pods
    /\ Goto(n, "lookup")
    /\ UNCHANGED <<volume, attached, kernel, mounts, local>>

\* GetDeviceOfMount and GetAssociatedBlockDevices, whose errors are dropped: a
\* mount table with two matching lines, a command that failed.
GetDevices(n) ==
    /\ pc[n] = "lookup"
    /\ \E ok \in BOOLEAN :
        /\ ok \/ "lookup" \in Faults
        /\ found' = [found EXCEPT ![n] = ok]
    /\ Goto(n, "umount")
    /\ UNCHANGED <<volume, attached, kernel, mounts, hasFS>>

\* A variant that goes on when umount fails.
UmountErrorIgnored(n) ==
    /\ pc[n] = "umount"
    /\ \/ global' = global \ {n}
       \/ "command" \in Faults /\ UNCHANGED global
    /\ Goto(n, "delete")
    /\ UNCHANGED <<volume, attached, kernel, pods, local>>

UmountDevice(n) ==
    /\ pc[n] = "umount"
    /\ global' = global \ {n}
    /\ Goto(n, "delete")
    /\ UNCHANGED <<volume, attached, kernel, pods, local>>

\* The devices that were found are deleted; nobody looks whether that worked.
DeleteScsiDevice(n) ==
    /\ pc[n] = "delete"
    /\ \/ devices' = IF found[n] THEN devices \ {n} ELSE devices
       \/ "sysfs" \in Faults /\ UNCHANGED devices
    /\ Goto(n, "flush")
    /\ UNCHANGED <<volume, attached, maps, mounts, local>>

\* multipath -f is given the second component of /dev/mapper/<name>, that is
\* "mapper": it fails, and its failure is dropped.
RemoveMultipathForDevice(n) ==
    /\ pc[n] = "flush"
    /\ Exit(n)
    /\ UNCHANGED <<volume, attached, kernel, mounts>>

-----------------------------------------------------------------------------
\* A command that answers an error ends the call.
CommandFails(n) ==
    /\ pc[n] \in {"mkfs", "mkdir", "remake", "bind", "unbind", "umount"}
    /\ "command" \in Faults
    /\ Exit(n)
    /\ UNCHANGED <<volume, attached, kernel, mounts>>

\* The process is killed, and an mkfs with it that may be half done.
Die(n) ==
    /\ ~Idle(n) /\ "crash" \in Faults
    /\ \/ UNCHANGED volume
       \/ /\ pc[n] = "mkfs" \/ (pc[n] = "remake" /\ HasType(n))
          /\ fs' = "corrupt" /\ data' = FALSE
    /\ Exit(n)
    /\ UNCHANGED <<attached, kernel, mounts>>

\* attach, and waitforattach with the devices it makes the kernel see.
Attach(n) ==
    /\ n \notin attached
    /\ MultiAttach \/ attached = {}
    /\ attached' = attached \cup {n}
    /\ UNCHANGED <<volume, kernel, mounts, pc, local>>

\* Any scan of the node's hosts finds them, another volume's waitforattach too,
\* and whatever call is running.
DeviceAppears(n) ==
    /\ n \in attached /\ n \notin devices
    /\ devices' = devices \cup {n}
    /\ maps' = maps \cup ({n} \cap Multipath)
    /\ UNCHANGED <<volume, attached, mounts, pc, local>>

\* detach, which Kubernetes asks for when nothing on the node is mounted.
Detach(n) ==
    /\ n \in attached /\ Idle(n)
    /\ n \notin global \cup pods
    /\ attached' = attached \ {n}
    /\ UNCHANGED <<volume, kernel, mounts, pc, local>>

PodWrites(n) ==
    /\ n \in pods /\ ~data
    /\ data' = TRUE
    /\ UNCHANGED <<fs, attached, kernel, mounts, pc, local>>

Breaks ==
    /\ "corrupt" \in Faults
    /\ fs \in {"listed", "unlisted"} /\ global \cup pods = {}
    /\ fs' = "corrupt"
    /\ UNCHANGED <<data, attached, kernel, mounts, pc, local>>

\* What Kubernetes, the pods and the platform do.
Environment ==
    \/ \E n \in Nodes :
        \/ CallMountDevice(n) \/ CallMount(n) \/ CallUnmount(n) \/ CallUnmountDevice(n)
        \/ Attach(n) \/ DeviceAppears(n) \/ Detach(n) \/ PodWrites(n)
    \/ Breaks

\* What a running driver process does next.
Step(n) ==
    \/ HasFSOnVolumeDevice(n) \/ LsblkFails(n) \/ MakeFs(n) \/ MakeDir(n)
    \/ MountDevice(n) \/ MountError(n) \/ MountRefused(n) \/ RemakeFs(n)
    \/ Mount(n) \/ Unmount(n) \/ GetDevices(n) \/ UmountDevice(n)
    \/ DeleteScsiDevice(n) \/ RemoveMultipathForDevice(n) \/ CommandFails(n)

Next == Environment \/ \E n \in Nodes : Step(n) \/ Die(n)

Spec == Init /\ [][Next]_vars

-----------------------------------------------------------------------------
\* main.go:225 "We should create FS only if there is no FS installed on volume":
\* what pods have written to a sound file system is never lost to mkfs.
DataKept == [][data /\ fs # "corrupt" => data']_vars

\* No device is deleted under a mount, of the global directory or of a pod
\* (main.go:384-396).
NoDeleteUnderMount ==
    [][\A n \in Nodes : n \in devices \ devices' => n \notin global \cup pods]_vars

\* main.go:397 "Clear out the multipath entry too as part of device cleanup":
\* an unmountdevice that answers Success leaves no multipath map.
MapRemoved == [][\A n \in Nodes : pc[n] = "flush" /\ pc'[n] = "idle" => n \notin maps']_vars

\* On every node the calls keep the order of MountService: a mount is made over
\* devices of an attached volume and stays until umount has taken it away, and only
\* then are devices deleted, whatever fails or dies in between (main.go:219-315,
\* 374-422).
Service == INSTANCE MountService WITH
    Items    <- Nodes,
    present  <- devices,
    mounted  <- global,
    bound    <- pods,
    cleaning <- {n \in Nodes : pc[n] \in {"delete", "flush"}}

ImplementsMountService == Service!Spec
=============================================================================

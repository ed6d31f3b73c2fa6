---------------------------- MODULE DeviceCleanup ----------------------------
(***************************************************************************)
(* unmountdevice for several volumes of one node at once: how the devices  *)
(* of a mount are looked up (GetDeviceOfMount, GetAssociatedBlockDevices   *)
(* and FindSlaveDevicesOfMultipathParent of pkg/utils/volume_utils.go) and *)
(* deleted one by one, while other calls of the driver mount, unmount and  *)
(* scan.  NodeMount has the same steps for one volume on several nodes,    *)
(* and takes a failed lookup for a fault; here are its causes.             *)
(*                                                                         *)
(* The kubelet, the kernel and Nova are external: the kubelet runs one     *)
(* operation per volume at a time; the kernel keeps the devices of a LUN   *)
(* that is gone, and gives a free name to a device a scan finds.           *)
(***************************************************************************)
EXTENDS FiniteSets, Naturals

CONSTANTS
    Volumes,
    NoVolume,
    Names,      \* device names, sda and so on
    Paths,      \* volume -> paths on which the node sees it
    Kind,       \* volume -> how its device shows, see Kinds
    Within,     \* pairs of volumes: grep -w for the mount directory of the
                \* first also matches that of the second, as pv and pv-2
    Faults      \* what may go wrong, a subset of FaultKinds

Kinds == {"plain",      \* a SCSI disk
          "mpath",      \* a multipath map /dev/mapper/mpath...
          "spaced",     \* such a map of a product whose name has a blank in it
          "wwid"}       \* a map that is named after its WWID

FaultKinds == {"command",   \* a command fails
               "sysfs",     \* a read or a write below /sys fails
               "crash"}     \* a driver process dies

ASSUME ConstantsAssumption ==
    /\ NoVolume \notin Volumes
    /\ Paths \in [Volumes -> Nat \ {0}]
    /\ Kind \in [Volumes -> Kinds]
    /\ \A v \in Volumes : Kind[v] = "plain" => Paths[v] = 1
    /\ Within \subseteq Volumes \X Volumes
    /\ Faults \subseteq FaultKinds

VARIABLES
    attached,   \* volumes Nova has attached to the node
    mounted,    \* volumes that are mounted at their global directories
    disk,       \* name -> the volume of the device with that name
    pc,         \* volume -> what its unmountdevice does next
    line,       \* volume -> whose line GetDeviceOfMount has found
    todo,       \* volume -> devices found and not deleted yet
    excused     \* volumes whose unmountdevice met a lookup or a deletion that
                \* failed, or a scan that found their disks (history)

kernel == <<attached, mounted, disk>>
vars   == <<attached, mounted, disk, pc, line, todo, excused>>

Labels == {"idle", "lookup", "devices", "umount", "delete", "flush"}

TypeOK ==
    /\ attached \in SUBSET Volumes
    /\ mounted \in SUBSET Volumes
    /\ disk \in [Names -> Volumes \cup {NoVolume}]
    /\ pc \in [Volumes -> Labels]
    /\ line \in [Volumes -> Volumes \cup {NoVolume}]
    /\ todo \in [Volumes -> SUBSET Names]
    /\ excused \in SUBSET Volumes
    /\ \A v \in Volumes : pc[v] = "idle" => line[v] = NoVolume /\ todo[v] = {}

Init ==
    /\ attached = {}
    /\ mounted = {}
    /\ disk = [n \in Names |-> NoVolume]
    /\ pc = [v \in Volumes |-> "idle"]
    /\ line = [v \in Volumes |-> NoVolume]
    /\ todo = [v \in Volumes |-> {}]
    /\ excused = {}

Disks(v) == {n \in Names : disk[n] = v}

Goto(v, label) == pc' = [pc EXCEPT ![v] = label]

\* A variant that keeps what a call has found for the next one.
ExitKeeping(v) ==
    /\ Goto(v, "idle")
    /\ line' = [line EXCEPT ![v] = NoVolume]
    /\ UNCHANGED todo

\* The process answers, or dies.
Exit(v) ==
    /\ Goto(v, "idle")
    /\ line' = [line EXCEPT ![v] = NoVolume]
    /\ todo' = [todo EXCEPT ![v] = {}]

-----------------------------------------------------------------------------
\* The kubelet calls unmountdevice, also again for a volume that is not mounted
\* any more.
CallUnmountDevice(v) ==
    /\ pc[v] = "idle" /\ v \in attached
    /\ Goto(v, "lookup")
    /\ excused' = excused \ {v}
    /\ UNCHANGED <<kernel, line, todo>>

\* The volumes with a line in the mount table that grep -w lets through.
Lines(v) == {w \in mounted : w = v \/ <<v, w>> \in Within}

\* The one line names the device: a disk, or a map.
Found(v, w) ==
    /\ line' = [line EXCEPT ![v] = w]
    /\ todo' = [todo EXCEPT ![v] = IF Kind[w] = "plain" THEN Disks(w) ELSE {}]
    /\ Goto(v, "devices")

\* A variant that takes one of several lines.
TakeSomeLine(v) ==
    /\ pc[v] = "lookup"
    /\ \/ \E w \in Lines(v) : Found(v, w)
       \/ Lines(v) = {} /\ Goto(v, "umount") /\ UNCHANGED <<line, todo>>
    /\ UNCHANGED <<kernel, excused>>

\* No line and several lines are errors, which unmountDevice drops.
GetDeviceOfMount(v) ==
    /\ pc[v] = "lookup"
    /\ \/ \E w \in Volumes : Lines(v) = {w} /\ Found(v, w)
       \/ /\ \A w \in Volumes : Lines(v) # {w}
          /\ Goto(v, "umount")
          /\ UNCHANGED <<line, todo>>
    /\ UNCHANGED <<kernel, excused>>

\* A variant that lists the disks of maps with a mpath name no more.
MapIsADevice(v) ==
    /\ pc[v] = "devices"
    /\ Goto(v, "umount")
    /\ UNCHANGED <<kernel, line, todo, excused>>

\* The disks of a map are its slaves.  The line of multipath -l must have five
\* words, and a map that is not called mpath passes for a disk, which it is not.
GetAssociatedBlockDevices(v) ==
    /\ pc[v] = "devices"
    /\ IF Kind[line[v]] = "mpath" THEN todo' = [todo EXCEPT ![v] = Disks(line[v])]
       ELSE UNCHANGED todo
    /\ Goto(v, "umount")
    /\ UNCHANGED <<kernel, line, excused>>

\* mount, grep or multipath -l fails, or the map or its slaves cannot be read,
\* which is dropped as well; a plain device needs neither once its line is known.
LookupFails(v) ==
    /\ \/ pc[v] = "lookup" /\ "command" \in Faults
       \/ pc[v] = "devices" /\ Kind[line[v]] = "mpath" /\ Faults \cap {"command", "sysfs"} # {}
    /\ Goto(v, "umount")
    /\ excused' = excused \cup {v}
    /\ UNCHANGED <<kernel, line, todo>>

\* A variant that goes on when umount fails.
UmountErrorIgnored(v) ==
    /\ pc[v] = "umount"
    /\ mounted' = mounted \ {v}
    /\ Goto(v, "delete")
    /\ UNCHANGED <<attached, disk, line, todo, excused>>

Umount(v) ==
    /\ pc[v] = "umount"
    /\ v \in mounted
    /\ mounted' = mounted \ {v}
    /\ Goto(v, "delete")
    /\ UNCHANGED <<attached, disk, line, todo, excused>>

\* A directory that is not mounted, or a command that fails: Failed.
UmountFails(v) ==
    /\ pc[v] = "umount"
    /\ v \notin mounted \/ "command" \in Faults
    /\ Exit(v)
    /\ UNCHANGED <<kernel, excused>>

\* One turn of the loop over the devices.
DeleteScsiDevice(v) ==
    /\ pc[v] = "delete"
    /\ \E n \in todo[v] :
        /\ disk' = [disk EXCEPT ![n] = NoVolume]
        /\ todo' = [todo EXCEPT ![v] = @ \ {n}]
    /\ UNCHANGED <<attached, mounted, pc, line, excused>>

\* The same turn when the write to the delete file fails: its error is dropped, and
\* the loop goes on to the next device.
DeleteFails(v) ==
    /\ "sysfs" \in Faults
    /\ pc[v] = "delete"
    /\ \E n \in todo[v] : todo' = [todo EXCEPT ![v] = @ \ {n}]
    /\ excused' = excused \cup {v}
    /\ UNCHANGED <<kernel, pc, line>>

\* The map is asked to go, in vain, see NodeMount.
AllDeleted(v) ==
    /\ pc[v] = "delete" /\ todo[v] = {}
    /\ Goto(v, "flush")
    /\ UNCHANGED <<kernel, line, todo, excused>>

Success(v) ==
    /\ pc[v] = "flush"
    /\ Exit(v)
    /\ UNCHANGED <<kernel, excused>>

Die(v) ==
    /\ "crash" \in Faults
    /\ pc[v] # "idle"
    /\ Exit(v)
    /\ UNCHANGED <<kernel, excused>>

-----------------------------------------------------------------------------
\* The scan of some waitforattach finds a path of an attached volume that the
\* kernel does not know (ScsiHostScan takes every LUN of every host).
ScsiHostScan(v) ==
    /\ v \in attached
    /\ Cardinality(Disks(v)) < Paths[v]
    /\ \E n \in Names : disk[n] = NoVolume /\ disk' = [disk EXCEPT ![n] = v]
    /\ excused' = IF pc[v] \in {"idle", "lookup"} THEN excused ELSE excused \cup {v}
    /\ UNCHANGED <<attached, mounted, pc, line, todo>>

\* attach, mountdevice and detach.
Attach(v) ==
    /\ v \notin attached
    /\ attached' = attached \cup {v}
    /\ UNCHANGED <<mounted, disk, pc, line, todo, excused>>

MountDevice(v) ==
    /\ pc[v] = "idle" /\ v \in attached \ mounted
    /\ Disks(v) # {}
    /\ mounted' = mounted \cup {v}
    /\ UNCHANGED <<attached, disk, pc, line, todo, excused>>

Detach(v) ==
    /\ pc[v] = "idle" /\ v \in attached \ mounted
    /\ attached' = attached \ {v}
    /\ UNCHANGED <<mounted, disk, pc, line, todo, excused>>

UnmountDevice(v) ==
    \/ GetDeviceOfMount(v) \/ GetAssociatedBlockDevices(v) \/ LookupFails(v)
    \/ Umount(v) \/ UmountFails(v) \/ DeleteScsiDevice(v) \/ DeleteFails(v)
    \/ AllDeleted(v) \/ Success(v)

Next ==
    \E v \in Volumes :
        \/ CallUnmountDevice(v) \/ UnmountDevice(v) \/ Die(v)
        \/ ScsiHostScan(v) \/ Attach(v) \/ MountDevice(v) \/ Detach(v)

Spec == Init /\ [][Next]_vars

-----------------------------------------------------------------------------
\* A call deletes the devices of the volume whose directory it has unmounted, and
\* of no other, whatever names look alike and however names are used again
\* (volume_utils.go:207-209, main.go:384-396).
DeletesOwnDevices ==
    [][\A v \in Volumes, n \in Names :
        n \in todo[v] \ todo'[v] /\ disk[n] # disk'[n] =>
            disk[n] = v /\ v \notin mounted]_vars

\* What is mounted keeps a device (main.go:385-396).
MountsBacked == \A v \in mounted : Disks(v) # {}

\* main.go:391 "remove the block device which was associated with the
\* mountPath": a call that goes through leaves a device for one of these reasons
\* alone: the directory is not the only one grep can find; the map is none that
\* the lookup can take apart; a command or a read of the lookup failed, or the
\* write that deletes a device (volume_utils.go:308), or the scan of another call,
\* which unmountdevice takes no lock against, found the disk again.
LeftForAReason ==
    \A v \in Volumes : pc[v] = "flush" /\ Disks(v) # {} =>
        \/ \E w \in Volumes \ {v} : <<v, w>> \in Within
        \/ Kind[v] \in {"spaced", "wwid"}
        \/ v \in excused

\* Each call keeps the order of MountService for its own volume and touches no
\* other: the last device of a volume goes only in a cleanup of that volume, after
\* its mount, whatever the lookup has found (main.go:374-405).
Service == INSTANCE MountService WITH
    Items    <- Volumes,
    present  <- {v \in Volumes : Disks(v) # {}},
    bound    <- {},
    cleaning <- {v \in Volumes : pc[v] \in {"delete", "flush"}}

ImplementsMountService == Service!Spec
=============================================================================

-------------------------- MODULE DeviceCleanupProofs --------------------------
(* What unmountdevice deletes and leaves, for any volumes, names and kinds. *)
EXTENDS DeviceCleanup, TLAPS

\* Nothing about v makes its lookup miss a disk.
Simple(v) ==
    /\ \A w \in Volumes \ {v} : <<v, w>> \notin Within
    /\ Kind[v] \in {"plain", "mpath"}
    /\ v \notin excused

\* What the call for v has found, where it stands.
CallInv(v) ==
    /\ pc[v] = "lookup" => todo[v] = {}
    /\ pc[v] = "devices" =>
        /\ line[v] \in Volumes
        /\ v \in mounted => line[v] = v /\ todo[v] \subseteq Disks(v)
        /\ v \in mounted /\ Kind[v] = "plain" /\ Simple(v) => Disks(v) \subseteq todo[v]
    /\ pc[v] = "umount" /\ v \in mounted =>
        /\ todo[v] \subseteq Disks(v)
        /\ Simple(v) => Disks(v) \subseteq todo[v]
    /\ pc[v] \in {"delete", "flush"} =>
        /\ v \notin mounted
        /\ todo[v] \subseteq Disks(v)
        /\ Simple(v) => Disks(v) \subseteq todo[v]
    /\ pc[v] = "flush" => todo[v] = {}
    /\ v \in mounted => Disks(v) # {}

IInv == TypeOK /\ \A v \in Volumes : CallInv(v)

\* A step for one volume leaves what the calls for the others rely on.
LEMMA Frame ==
    ASSUME TypeOK, NEW w \in Volumes, CallInv(w),
           pc'[w] = pc[w], line'[w] = line[w], todo'[w] = todo[w],
           w \in mounted' <=> w \in mounted,
           w \in excused' <=> w \in excused,
           \A n \in Names : disk'[n] = w <=> disk[n] = w
    PROVE  CallInv(w)'
<1>1. Disks(w)' = Disks(w)
    BY DEF Disks
<1>2. Simple(w)' <=> Simple(w)
    BY DEF Simple
<1> QED BY <1>1, <1>2 DEF CallInv

LEMMA StepInvariant ==
    ASSUME IInv, NEW v \in Volumes, CallUnmountDevice(v) \/ UnmountDevice(v) \/ Die(v)
    PROVE  IInv'
<1> USE ConstantsAssumption DEF IInv, Labels
<1> DEFINE Own    == TypeOK' /\ CallInv(v)'
           Others == \A w \in Volumes \ {v} : CallInv(w)'
<1> SUFFICES Own /\ Others
    OBVIOUS
<1>1. CASE CallUnmountDevice(v)
  <2>1. Own
    BY <1>1 DEF CallUnmountDevice, Goto, kernel, TypeOK, CallInv, Disks
  <2>2. Others
    BY <1>1, Frame DEF CallUnmountDevice, Goto, kernel, TypeOK
  <2> QED BY <2>1, <2>2
<1>2. CASE GetDeviceOfMount(v)
  <2>1. TypeOK'
    BY <1>2 DEF GetDeviceOfMount, Found, Goto, Disks, kernel, TypeOK
  <2>2. ASSUME NEW w \in Volumes, Lines(v) = {w}, Found(v, w) PROVE CallInv(v)'
    <3>1. v \in mounted => w = v
      BY <2>2 DEF Lines
    <3>2. UNCHANGED <<mounted, disk, excused>> /\ pc[v] = "lookup"
      BY <1>2 DEF GetDeviceOfMount, kernel
    <3>3. Disks(v)' = Disks(v) /\ Disks(w)' = Disks(w)
      BY <3>2 DEF Disks
    <3>4. pc'[v] = "devices" /\ line'[v] = w
          /\ todo'[v] = IF Kind[w] = "plain" THEN Disks(w) ELSE {}
      BY <2>2 DEF Found, Goto, TypeOK
    <3> QED BY <3>1, <3>2, <3>3, <3>4 DEF CallInv
  <2>3. ASSUME \A w \in Volumes : Lines(v) # {w}, Goto(v, "umount"), UNCHANGED <<line, todo>>
        PROVE  CallInv(v)'
    <3>1. UNCHANGED <<mounted, disk, excused>> /\ pc[v] = "lookup"
      BY <1>2 DEF GetDeviceOfMount, kernel
    <3>2. Disks(v)' = Disks(v) /\ todo'[v] = {} /\ pc'[v] = "umount"
      BY <2>3, <3>1 DEF Disks, CallInv, Goto, TypeOK
    <3>3. v \in mounted /\ Simple(v) => Lines(v) = {v}
      BY DEF Lines, Simple, TypeOK
    <3>4. Simple(v)' => Simple(v)
      BY <3>1 DEF Simple
    <3> QED BY <2>3, <3>1, <3>2, <3>3, <3>4 DEF CallInv
  <2>4. Others
    BY <1>2, Frame DEF GetDeviceOfMount, Found, Goto, kernel, TypeOK
  <2> QED BY <1>2, <2>1, <2>2, <2>3, <2>4 DEF GetDeviceOfMount
<1>3. CASE GetAssociatedBlockDevices(v)
  <2>1. TypeOK'
    BY <1>3 DEF GetAssociatedBlockDevices, Goto, Disks, kernel, TypeOK
  <2>2. CallInv(v)'
    <3>1. UNCHANGED <<mounted, disk, excused>> /\ pc[v] = "devices" /\ pc'[v] = "umount"
      BY <1>3 DEF GetAssociatedBlockDevices, Goto, kernel, TypeOK
    <3>2. Disks(v)' = Disks(v)
      BY <3>1 DEF Disks
    <3>3. Simple(v)' => Simple(v)
      BY <3>1 DEF Simple
    <3>4. todo'[v] = IF Kind[line[v]] = "mpath" THEN Disks(line[v]) ELSE todo[v]
      BY <1>3 DEF GetAssociatedBlockDevices, TypeOK
    <3>5. v \in mounted => line[v] = v /\ todo'[v] \subseteq Disks(v)
      BY <3>1, <3>4 DEF CallInv
    <3>6. v \in mounted /\ Simple(v) => Disks(v) \subseteq todo'[v]
      BY <3>1, <3>4, <3>5 DEF CallInv, Simple
    <3> QED BY <3>1, <3>2, <3>3, <3>5, <3>6 DEF CallInv
  <2>3. Others
    BY <1>3, Frame DEF GetAssociatedBlockDevices, Goto, kernel, TypeOK
  <2> QED BY <2>1, <2>2, <2>3
<1>4. CASE LookupFails(v)
  <2>1. TypeOK'
    BY <1>4 DEF LookupFails, Goto, kernel, TypeOK
  <2>2. CallInv(v)'
    BY <1>4 DEF LookupFails, Goto, kernel, TypeOK, CallInv, Disks, Simple
  <2>3. Others
    BY <1>4, Frame DEF LookupFails, Goto, kernel, TypeOK
  <2> QED BY <2>1, <2>2, <2>3
<1>5. CASE Umount(v)
  <2>1. Own
    BY <1>5 DEF Umount, Goto, TypeOK, CallInv, Disks, Simple
  <2>2. Others
    BY <1>5, Frame DEF Umount, Goto, TypeOK
  <2> QED BY <2>1, <2>2
<1>6. CASE UmountFails(v) \/ Success(v) \/ Die(v)
  <2>1. Own
    BY <1>6 DEF UmountFails, Success, Die, Exit, Goto, kernel, TypeOK, CallInv, Disks
  <2>2. Others
    BY <1>6, Frame DEF UmountFails, Success, Die, Exit, Goto, kernel, TypeOK
  <2> QED BY <2>1, <2>2
<1>7. CASE DeleteScsiDevice(v)
  <2>1. PICK n \in todo[v] : /\ disk' = [disk EXCEPT ![n] = NoVolume]
                            /\ todo' = [todo EXCEPT ![v] = @ \ {n}]
    BY <1>7 DEF DeleteScsiDevice
  <2>2. n \in Names /\ disk[n] = v
    BY <1>7 DEF DeleteScsiDevice, TypeOK, CallInv, Disks
  <2>3. TypeOK'
    BY <1>7, <2>1, <2>2 DEF DeleteScsiDevice, TypeOK
  <2>4. CallInv(v)'
    <3>1. Disks(v)' = Disks(v) \ {n} /\ todo'[v] = todo[v] \ {n}
      BY <2>1, <2>2 DEF Disks, TypeOK
    <3>2. UNCHANGED <<mounted, pc, line, excused>> /\ pc[v] = "delete"
      BY <1>7 DEF DeleteScsiDevice
    <3>3. Simple(v)' => Simple(v)
      BY <3>2 DEF Simple
    <3> QED BY <3>1, <3>2, <3>3 DEF CallInv
  <2>5. Others
    BY <1>7, <2>1, <2>2, Frame DEF DeleteScsiDevice, TypeOK
  <2> QED BY <2>3, <2>4, <2>5
<1>8. CASE AllDeleted(v)
  <2>1. Own
    BY <1>8 DEF AllDeleted, Goto, kernel, TypeOK, CallInv, Disks, Simple
  <2>2. Others
    BY <1>8, Frame DEF AllDeleted, Goto, kernel, TypeOK
  <2> QED BY <2>1, <2>2
<1>9. CASE DeleteFails(v)
  <2>1. Own
    BY <1>9 DEF DeleteFails, kernel, TypeOK, CallInv, Disks, Simple
  <2>2. Others
    BY <1>9, Frame DEF DeleteFails, kernel, TypeOK
  <2> QED BY <2>1, <2>2
<1> QED
    BY <1>1, <1>2, <1>3, <1>4, <1>5, <1>6, <1>7, <1>8, <1>9 DEF UnmountDevice

\* What other calls and the kernel do keeps the invariant.
LEMMA OutsideInvariant ==
    ASSUME IInv, NEW v \in Volumes,
           ScsiHostScan(v) \/ Attach(v) \/ MountDevice(v) \/ Detach(v)
    PROVE  IInv'
<1> USE ConstantsAssumption DEF IInv, Labels
<1>1. CASE ScsiHostScan(v)
  <2>1. PICK n \in Names : disk[n] = NoVolume /\ disk' = [disk EXCEPT ![n] = v]
    BY <1>1 DEF ScsiHostScan
  <2>2. TypeOK'
    BY <1>1, <2>1 DEF ScsiHostScan, TypeOK
  <2>3. CallInv(v)'
    <3>1. Disks(v)' = Disks(v) \cup {n}
      BY <2>1 DEF Disks, TypeOK
    <3>2. pc[v] \notin {"idle", "lookup"} => ~Simple(v)'
      BY <1>1 DEF ScsiHostScan, Simple
    <3>3. UNCHANGED <<mounted, pc, line, todo>>
      BY <1>1 DEF ScsiHostScan
    <3> QED BY <3>1, <3>2, <3>3 DEF CallInv
  <2>4. \A w \in Volumes \ {v} : CallInv(w)'
    BY <1>1, <2>1, Frame DEF ScsiHostScan, TypeOK
  <2> QED BY <2>2, <2>3, <2>4
<1>2. CASE MountDevice(v)
  <2>1. TypeOK' /\ CallInv(v)'
    BY <1>2 DEF MountDevice, TypeOK, CallInv, Disks
  <2>2. \A w \in Volumes \ {v} : CallInv(w)'
    BY <1>2, Frame DEF MountDevice, TypeOK
  <2> QED BY <2>1, <2>2
<1>3. CASE Attach(v) \/ Detach(v)
  <2>1. TypeOK'
    BY <1>3 DEF Attach, Detach, TypeOK
  <2>2. \A w \in Volumes : CallInv(w)'
    BY <1>3, Frame DEF Attach, Detach, TypeOK
  <2> QED BY <2>1, <2>2
<1> QED BY <1>1, <1>2, <1>3

\* IInv holds in every reachable state.
THEOREM InductiveInvariant == Spec => []IInv
<1>1. Init => IInv
    BY ConstantsAssumption DEF Init, IInv, TypeOK, CallInv, Labels
<1>2. IInv /\ [Next]_vars => IInv'
  <2> SUFFICES ASSUME IInv, [Next]_vars PROVE IInv'
      OBVIOUS
  <2>1. CASE UNCHANGED vars
      BY <2>1 DEF vars, IInv, TypeOK, CallInv, Disks, Simple
  <2>2. CASE Next
      BY <2>2, StepInvariant, OutsideInvariant DEF Next
  <2> QED BY <2>1, <2>2
<1> QED BY <1>1, <1>2, PTL DEF Spec

\* Every variable keeps its type, and a call starts with nothing found.
THEOREM TypeCorrect == Spec => []TypeOK
<1>1. IInv => TypeOK BY DEF IInv
<1> QED BY <1>1, InductiveInvariant, PTL

\* A mounted volume keeps a device, whatever is unmounted next to it.
THEOREM MountsKeepDevices == Spec => []MountsBacked
<1>1. IInv => MountsBacked BY DEF IInv, TypeOK, CallInv, MountsBacked
<1> QED BY <1>1, InductiveInvariant, PTL

\* An unmountdevice that goes through leaves a device only because of the directory or
\* the map, or because a lookup or a deletion failed or a scan found it during this
\* very call (main.go:374-405, volume_utils.go:189-309).
THEOREM OnlyForAReason == Spec => []LeftForAReason
<1>1. IInv => LeftForAReason
    BY ConstantsAssumption DEF IInv, CallInv, Simple, LeftForAReason, Kinds
<1> QED BY <1>1, InductiveInvariant, PTL

\* A call deletes devices of its own volume alone, and none under a mount.
THEOREM OwnDevicesOnly == Spec => DeletesOwnDevices
<1>1. IInv /\ [Next]_vars =>
        [\A v \in Volumes, n \in Names :
            n \in todo[v] \ todo'[v] /\ disk[n] # disk'[n] =>
                disk[n] = v /\ v \notin mounted]_vars
  <2> SUFFICES ASSUME IInv, Next, NEW v \in Volumes, NEW n \in Names,
                      n \in todo[v] \ todo'[v], disk[n] # disk'[n]
               PROVE  disk[n] = v /\ v \notin mounted
      OBVIOUS
  <2>1. PICK u \in Volumes :
            \/ CallUnmountDevice(u) \/ UnmountDevice(u) \/ Die(u)
            \/ ScsiHostScan(u) \/ Attach(u) \/ MountDevice(u) \/ Detach(u)
      BY DEF Next
  <2>2. DeleteScsiDevice(u)
      BY <2>1 DEF CallUnmountDevice, UnmountDevice, Die, ScsiHostScan, Attach, MountDevice, Detach,
          GetDeviceOfMount, GetAssociatedBlockDevices, LookupFails, Umount, UmountFails, DeleteFails,
          AllDeleted, Success, Exit, kernel
  <2>3. u = v
      BY <2>2 DEF DeleteScsiDevice, IInv, TypeOK
  <2> QED BY <2>2, <2>3 DEF DeleteScsiDevice, IInv, CallInv, Disks
<1> QED BY <1>1, InductiveInvariant, PTL DEF Spec, DeletesOwnDevices

-----------------------------------------------------------------------------
\* The cleanups and the volumes with devices, as MountService sees them.
Cleaning == {v \in Volumes : pc[v] \in {"delete", "flush"}}
Present  == {v \in Volumes : Disks(v) # {}}

\* A step that moves one call neither into the cleanup nor out of it, and changes
\* no device and no mount, is none of the service.
LEMMA Invisible ==
    ASSUME IInv, NEW v \in Volumes, NEW label, Goto(v, label),
           pc[v] \notin {"delete", "flush"}, label \notin {"delete", "flush"},
           UNCHANGED <<attached, mounted, disk>>
    PROVE  UNCHANGED Service!vars
<1>1. Cleaning' = Cleaning
    BY DEF IInv, TypeOK, Goto, Cleaning
<1>2. Present' = Present
    BY DEF Present, Disks
<1> QED BY <1>1, <1>2 DEF Service!vars, Cleaning, Present

\* One device of v, and of no other volume, goes.
LEMMA OneDiskLess ==
    ASSUME IInv, NEW v \in Volumes, DeleteScsiDevice(v)
    PROVE  Present' \in {Present, Present \ {v}}
<1>1. PICK n \in todo[v] : disk' = [disk EXCEPT ![n] = NoVolume]
    BY DEF DeleteScsiDevice
<1>2. n \in Names /\ disk[n] = v
    BY DEF DeleteScsiDevice, IInv, TypeOK, CallInv, Disks
<1>3. \A w \in Volumes \ {v} : Disks(w)' = Disks(w)
    BY <1>1, <1>2, ConstantsAssumption DEF Disks, IInv, TypeOK
<1>4. Disks(v)' \subseteq Disks(v)
    BY <1>1, <1>2, ConstantsAssumption DEF Disks, IInv, TypeOK
<1> QED BY <1>3, <1>4 DEF Present

\* A scan gives v a device, and takes none of another volume.
LEMMA OneDiskMore ==
    ASSUME IInv, NEW v \in Volumes, ScsiHostScan(v)
    PROVE  Present' = Present \cup {v}
<1>1. PICK n \in Names : disk[n] = NoVolume /\ disk' = [disk EXCEPT ![n] = v]
    BY DEF ScsiHostScan
<1>2. \A w \in Volumes \ {v} : Disks(w)' = Disks(w)
    BY <1>1, ConstantsAssumption DEF Disks, IInv, TypeOK
<1>3. n \in Disks(v)'
    BY <1>1 DEF Disks, IInv, TypeOK
<1> QED BY <1>2, <1>3 DEF Present

LEMMA StepKeepsOrder ==
    ASSUME IInv, NEW v \in Volumes,
           \/ CallUnmountDevice(v) \/ UnmountDevice(v) \/ Die(v)
           \/ ScsiHostScan(v) \/ Attach(v) \/ MountDevice(v) \/ Detach(v)
    PROVE  [Service!Next]_Service!vars
<1> USE DEF kernel
<1>0. pc \in [Volumes -> Labels]
    BY DEF IInv, TypeOK
<1>1. CASE CallUnmountDevice(v) \/ GetDeviceOfMount(v) \/ GetAssociatedBlockDevices(v)
           \/ LookupFails(v)
  <2>1. PICK label \in {"lookup", "devices", "umount"} : Goto(v, label)
    BY <1>1 DEF CallUnmountDevice, GetDeviceOfMount, Found, GetAssociatedBlockDevices, LookupFails
  <2>2. pc[v] \in {"idle", "lookup", "devices"} /\ UNCHANGED <<attached, mounted, disk>>
    BY <1>1 DEF CallUnmountDevice, GetDeviceOfMount, GetAssociatedBlockDevices, LookupFails
  <2> QED BY <2>1, <2>2, Invisible
<1>2. CASE Umount(v)
  <2>1. Cleaning' = Cleaning \cup {v}
    BY <1>0, <1>2 DEF Umount, Goto, Cleaning
  <2>2. Present' = Present
    BY <1>2 DEF Umount, Present, Disks
  <2>3. Service!Unmount(v)
    BY <1>2, <2>1, <2>2 DEF Umount, Service!Unmount, Cleaning, Present
  <2> QED BY <2>3 DEF Service!Next
<1>3. CASE DeleteScsiDevice(v)
  <2>1. v \in Cleaning /\ Cleaning' = Cleaning
    BY <1>3 DEF DeleteScsiDevice, Cleaning
  <2>2. CASE Present' = Present
    BY <1>3, <2>1, <2>2 DEF DeleteScsiDevice, Service!vars, Cleaning, Present
  <2>3. CASE Present' = Present \ {v}
    <3>1. Service!Remove(v)
      BY <1>3, <2>1, <2>3 DEF DeleteScsiDevice, Service!Remove, Cleaning, Present
    <3> QED BY <3>1 DEF Service!Next
  <2> QED BY <1>3, <2>2, <2>3, OneDiskLess
<1>4. CASE AllDeleted(v)
  <2>1. Cleaning' = Cleaning /\ Present' = Present
    BY <1>0, <1>4 DEF AllDeleted, Goto, Cleaning, Present, Disks
  <2> QED BY <1>4, <2>1 DEF AllDeleted, Service!vars, Cleaning, Present
<1>5. CASE UmountFails(v) \/ Success(v) \/ Die(v)
  <2>1. Goto(v, "idle") /\ UNCHANGED <<attached, mounted, disk>>
    BY <1>5 DEF UmountFails, Success, Die, Exit
  <2>2. CASE v \in Cleaning
    <3>1. Cleaning' = Cleaning \ {v}
      BY <1>0, <2>1 DEF Goto, Cleaning
    <3>2. Present' = Present
      BY <2>1 DEF Present, Disks
    <3>3. Service!End(v)
      BY <2>1, <2>2, <3>1, <3>2 DEF Service!End, Cleaning, Present
    <3> QED BY <3>3 DEF Service!Next
  <2>3. CASE v \notin Cleaning
    BY <2>1, <2>3, Invisible DEF Cleaning
  <2> QED BY <2>2, <2>3
<1>6. CASE ScsiHostScan(v)
  <2>1. Cleaning' = Cleaning
    BY <1>6 DEF ScsiHostScan, Cleaning
  <2>2. Service!Appear(v)
    BY <1>6, <2>1, OneDiskMore DEF ScsiHostScan, Service!Appear, Cleaning, Present
  <2> QED BY <2>2 DEF Service!Next
<1>7. CASE Attach(v) \/ MountDevice(v) \/ Detach(v)
  <2>1. Cleaning' = Cleaning /\ Present' = Present
    BY <1>7 DEF Attach, MountDevice, Detach, Cleaning, Present, Disks
  <2>2. Service!Attach(v) \/ Service!Mount(v) \/ Service!Detach(v)
    BY <1>7, <2>1 DEF Attach, MountDevice, Detach, Service!Attach, Service!Mount, Service!Detach,
        Cleaning, Present
  <2> QED BY <2>2 DEF Service!Next
<1>8. CASE DeleteFails(v)
  <2>1. Cleaning' = Cleaning /\ Present' = Present
    BY <1>8 DEF DeleteFails, Cleaning, Present, Disks
  <2> QED BY <1>8, <2>1 DEF DeleteFails, Service!vars, Cleaning, Present
<1> QED
    BY <1>1, <1>2, <1>3, <1>4, <1>5, <1>6, <1>7, <1>8 DEF UnmountDevice

\* However names look alike and device names are used again, each unmountdevice keeps
\* the order of MountService and takes devices of its own volume alone.
THEOREM CallsKeepOrder == Spec => ImplementsMountService
<1>1. Init => Service!Init
    BY ConstantsAssumption DEF Init, Service!Init, Disks
<1>2. IInv /\ [Next]_vars => [Service!Next]_Service!vars
  <2>1. UNCHANGED vars => UNCHANGED Service!vars
    BY DEF vars, Service!vars, Disks
  <2> QED BY <2>1, StepKeepsOrder DEF Next
<1> QED BY <1>1, <1>2, InductiveInvariant, PTL DEF Spec, ImplementsMountService, Service!Spec
=============================================================================

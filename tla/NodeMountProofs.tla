--------------------------- MODULE NodeMountProofs ---------------------------
(***************************************************************************)
(* Theorems of NodeMount, for any number of nodes: what unmountdevice does *)
(* to mounts and devices, and how the data of the pods can be lost to mkfs. *)
(***************************************************************************)
EXTENDS NodeMountHistory, TLAPS

\* Where a driver process stands says what is mounted on its node, and only a
\* node with the volume attached has anything mounted or a process running.
Protocol ==
    \A n \in Nodes :
        /\ pc[n] \in {"check", "mkfs", "mkdir", "mountDevice", "remake", "delete", "flush"} =>
            n \notin global
        /\ pc[n] \in {"bind", "lookup", "umount"} => n \in global \ pods
        /\ pc[n] = "unbind" => n \in pods
        /\ n \in pods => n \in global
        /\ n \in global \/ pc[n] # "idle" => n \in attached

PInv == TypeOK /\ Protocol

LEMMA ProtocolStep ==
    ASSUME PInv, [Next]_vars
    PROVE  PInv'
<1> USE DEF PInv, TypeOK, Protocol, Contents, Labels, Idle, Goto, Exit,
            volume, kernel, mounts, local
<1>1. ASSUME NEW n \in Nodes, Step(n)
      PROVE  PInv'
  <2>1. CASE HasFSOnVolumeDevice(n) \/ LsblkFails(n)
    BY <2>1 DEF HasFSOnVolumeDevice, LsblkFails
  <2>2. CASE MakeFs(n) \/ MakeDir(n)
    BY <2>2 DEF MakeFs, Made, MakeDir
  <2>3. CASE MountDevice(n)
    BY <2>3 DEF MountDevice
  <2>4. CASE MountError(n) \/ MountRefused(n)
    BY <2>4 DEF MountError, MountRefused, MountFails
  <2>5. CASE RemakeFs(n)
    BY <2>5 DEF RemakeFs, Made
  <2>6. CASE Mount(n) \/ Unmount(n)
    BY <2>6 DEF Mount, Unmount
  <2>7. CASE GetDevices(n) \/ UmountDevice(n)
    BY <2>7 DEF GetDevices, UmountDevice
  <2>8. CASE DeleteScsiDevice(n) \/ RemoveMultipathForDevice(n) \/ CommandFails(n)
    BY <2>8 DEF DeleteScsiDevice, RemoveMultipathForDevice, CommandFails
  <2> QED
    BY <1>1, <2>1, <2>2, <2>3, <2>4, <2>5, <2>6, <2>7, <2>8 DEF Step
<1>2. ASSUME NEW n \in Nodes, Die(n)
      PROVE  PInv'
  BY <1>2 DEF Die
<1>3. ASSUME NEW n \in Nodes,
             CallMountDevice(n) \/ CallMount(n) \/ CallUnmount(n) \/ CallUnmountDevice(n)
      PROVE  PInv'
  BY <1>3 DEF CallMountDevice, CallMount, CallUnmount, CallUnmountDevice
<1>4. ASSUME NEW n \in Nodes, Attach(n) \/ DeviceAppears(n) \/ Detach(n) \/ PodWrites(n)
      PROVE  PInv'
  BY <1>4 DEF Attach, DeviceAppears, Detach, PodWrites
<1>5. ASSUME Breaks \/ UNCHANGED vars
      PROVE  PInv'
  BY <1>5 DEF Breaks, vars
<1> QED
  BY <1>1, <1>2, <1>3, <1>4, <1>5 DEF Next, Environment

\* The protocol invariant holds in every reachable state, whatever fails.
THEOREM ProtocolInvariant == Spec => []PInv
<1>1. Init => PInv
  BY ConstantsAssumption DEF Init, PInv, TypeOK, Protocol, Contents, Labels
<1> QED
  BY <1>1, ProtocolStep, PTL DEF Spec

\* Every variable keeps its type: in particular no file system of an unknown
\* type is made.
THEOREM TypeCorrect == Spec => []TypeOK
<1>1. PInv => TypeOK
  BY DEF PInv
<1> QED
  BY <1>1, ProtocolInvariant, PTL

\* unmountdevice deletes no device that is still mounted, on any path
\* (main.go:384-396).
THEOREM DevicesOutliveMounts == Spec => NoDeleteUnderMount
<1>1. PInv /\ [Next]_vars =>
          [\A n \in Nodes : n \in devices \ devices' => n \notin global \cup pods]_vars
  <2> SUFFICES ASSUME PInv, Next, NEW n \in Nodes, n \in devices \ devices'
               PROVE  n \notin global \cup pods
    OBVIOUS
  <2>1. PICK m \in Nodes : DeleteScsiDevice(m) \/ DeviceAppears(m)
    BY DEF Next, Environment, Step, CallMountDevice, CallMount, CallUnmount, CallUnmountDevice,
           Attach, Detach, PodWrites, Breaks, HasFSOnVolumeDevice, LsblkFails, MakeFs, MakeDir,
           MountDevice, MountError, MountRefused, MountFails, RemakeFs, Mount, Unmount, GetDevices,
           UmountDevice, RemoveMultipathForDevice, CommandFails, Die, kernel
  <2>2. m = n /\ pc[n] = "delete"
    BY <2>1 DEF DeleteScsiDevice, DeviceAppears
  <2> QED
    BY <2>2 DEF PInv, Protocol
<1> QED
  BY <1>1, ProtocolInvariant, PTL DEF Spec, NoDeleteUnderMount

-----------------------------------------------------------------------------
\* A call that nothing has misled reaches mkfs only where there is nothing, nothing
\* sound, or a type that lsblk's reader does not know.
LInv ==
    /\ fs = "none" => ~data /\ global = {}
    /\ \A n \in Nodes \ misled :
        /\ pc[n] = "mkfs" => fs \in {"none", "corrupt", "unlisted"}
        /\ pc[n] = "remake" => fs \in {"none", "corrupt"}

\* What a step does to LInv and to the data of the pods.
Explained ==
    /\ LInv'
    /\ data /\ fs # "corrupt" /\ ~data' =>
        \/ fs = "unlisted"
        \/ \E n \in misled : pc[n] \in {"mkfs", "remake"} /\ pc'[n] # pc[n]

LEMMA InformedStep ==
    ASSUME PInv, LInv, Informed
    PROVE  Explained
<1> USE DEF PInv, TypeOK, Protocol, LInv, Explained, Running, Contents, Labels, Idle, Goto, Exit,
            volume, kernel, mounts, local
<1>1. misled' = misled \cap Running
  BY DEF Informed
<1>2. ASSUME Environment
      PROVE  Explained
  BY <1>1, <1>2 DEF Environment, CallMountDevice, CallMount, CallUnmount, CallUnmountDevice,
                    Attach, DeviceAppears, Detach, PodWrites, Breaks
<1>3. ASSUME NEW n \in Nodes, (LsblkFails(n) /\ fs # "listed") \/ HasFSOnVolumeDevice(n)
      PROVE  Explained
  BY <1>1, <1>3 DEF LsblkFails, HasFSOnVolumeDevice
<1>4. ASSUME NEW n \in Nodes, MakeDir(n) \/ MountDevice(n) \/ MountError(n)
      PROVE  Explained
  BY <1>1, <1>4 DEF MakeDir, MountDevice, MountError, MountFails
<1>5. ASSUME NEW n \in Nodes, Mount(n) \/ Unmount(n) \/ GetDevices(n) \/ UmountDevice(n)
      PROVE  Explained
  BY <1>1, <1>5 DEF Mount, Unmount, GetDevices, UmountDevice
<1>6. ASSUME NEW n \in Nodes,
             DeleteScsiDevice(n) \/ RemoveMultipathForDevice(n) \/ CommandFails(n)
      PROVE  Explained
  BY <1>1, <1>6 DEF DeleteScsiDevice, RemoveMultipathForDevice, CommandFails
<1>7. ASSUME NEW n \in Nodes, Die(n)
      PROVE  Explained
  BY <1>1, <1>7 DEF Die, HasType
<1> QED
  BY <1>2, <1>3, <1>4, <1>5, <1>6, <1>7 DEF Informed

LEMMA MisledStep ==
    ASSUME PInv, LInv, NEW n \in Nodes, Deceived(n) \/ Overtaken(n)
    PROVE  Explained
<1> USE DEF PInv, TypeOK, LInv, Explained, Running, Contents, Labels, Goto, Exit,
            volume, kernel, mounts, local
<1>1. CASE Deceived(n)
  BY <1>1 DEF Deceived, LsblkFails, MountRefused, MountFails
<1>2. CASE Overtaken(n) /\ MakeFs(n)
  BY <1>2 DEF Overtaken, MakeFs, Made
<1>3. CASE Overtaken(n) /\ RemakeFs(n)
  BY <1>3 DEF Overtaken, RemakeFs, Made, HasType
<1> QED
  BY <1>1, <1>2, <1>3 DEF Overtaken

\* The history variable only watches: its steps are steps of NodeMount.
LEMMA HistoryIsNext ==
    ASSUME [NextH]_varsH
    PROVE  [Next]_vars
BY DEF NextH, varsH, Informed, Deceived, Overtaken, Next, Step

\* Whatever fails, dies or runs at the same time, for any number of nodes and any
\* mix of types: data on a sound file system is lost to mkfs in the ways that
\* DataLostForAReason lists and in no other (main.go:223-283).
THEOREM DataLossExplained == SpecH => DataLostForAReason
<1>1. InitH => PInv /\ LInv
  BY ConstantsAssumption DEF InitH, Init, PInv, TypeOK, Protocol, Contents, Labels, LInv
<1>2. PInv /\ LInv /\ [NextH]_varsH =>
          /\ PInv' /\ LInv'
          /\ [data /\ fs # "corrupt" /\ ~data' =>
                \/ fs = "unlisted"
                \/ \E n \in misled : pc[n] \in {"mkfs", "remake"} /\ pc'[n] # pc[n]]_varsH
  <2> SUFFICES ASSUME PInv, LInv, [NextH]_varsH
               PROVE  PInv' /\ LInv' /\ (NextH => Explained)
    BY DEF Explained
  <2>1. PInv'
    BY HistoryIsNext, ProtocolStep
  <2>2. CASE NextH
    BY <2>1, <2>2, InformedStep, MisledStep DEF NextH, Explained
  <2>3. CASE UNCHANGED varsH
    BY <2>1, <2>3 DEF varsH, vars, LInv, NextH, Explained
  <2> QED
    BY <2>2, <2>3
<1> QED
  BY <1>1, <1>2, PTL DEF SpecH, DataLostForAReason

-----------------------------------------------------------------------------
\* What data needs: one node at a time, types that lsblk's reader knows, in the
\* PVs and on the volume from the start, no false answer of lsblk, and no false
\* "bad superblock" for PVs that ask for a type.
Calm ==
    /\ ~MultiAttach
    /\ Before \subseteq {"none", "listed"}
    /\ \A n \in Nodes : FsType[n] # "unlisted"
    /\ "lsblk" \notin Faults
    /\ "refused" \in Faults => \A n \in Nodes : FsType[n] = "unset"

\* mkfs is reached only for a volume whose data, if any, is broken, or without
\* a type.
DInv ==
    /\ \A m, n \in attached : m = n
    /\ fs # "unlisted"
    /\ data => fs \in {"listed", "corrupt"}
    /\ \A n \in Nodes : n \in global => fs \in {"listed", "corrupt"}
    /\ \A n \in Nodes :
        /\ pc[n] = "mkfs" => fs \in {"none", "corrupt"}
        /\ pc[n] = "remake" => fs \in {"none", "corrupt"} \/ FsType[n] = "unset"
        /\ pc[n] \in {"mkdir", "mountDevice", "remake"} /\ data /\ fs = "listed" => hasFS[n]

LEMMA DataStep ==
    ASSUME Calm, PInv, DInv, [Next]_vars
    PROVE  DInv' /\ (data /\ fs # "corrupt" => data')
<1> USE DEF Calm, PInv, TypeOK, Protocol, DInv, Contents, Labels, Idle, Goto, Exit,
            volume, kernel, mounts, local
<1> DEFINE Goal == DInv' /\ (data /\ fs # "corrupt" => data')
<1>1. ASSUME NEW n \in Nodes, Step(n)
      PROVE  Goal
  <2>1. CASE HasFSOnVolumeDevice(n) \/ LsblkFails(n)
    BY <2>1 DEF HasFSOnVolumeDevice, LsblkFails
  <2>2. CASE MakeFs(n) \/ MakeDir(n)
    BY <2>2 DEF MakeFs, Made, MakeDir
  <2>3. CASE MountDevice(n) \/ Mount(n) \/ Unmount(n)
    BY <2>3 DEF MountDevice, Mount, Unmount
  <2>4. CASE MountError(n) \/ MountRefused(n)
    BY <2>4 DEF MountError, MountRefused, MountFails
  <2>5. CASE RemakeFs(n)
    <3>1. pc[n] = "remake" /\ n \in attached /\ n \notin global
      BY <2>5 DEF RemakeFs
    <3>2. \/ UNCHANGED <<fs, data>>
          \/ fs' = "listed" /\ data' = FALSE /\ ~(data /\ fs = "listed")
      BY <2>5, ConstantsAssumption DEF RemakeFs, Made, HasType, FsTypes
    <3>3. \A m \in Nodes : pc'[m] = "idle"
      <4> SUFFICES ASSUME NEW m \in Nodes, pc'[m] # "idle"
                   PROVE  FALSE
        OBVIOUS
      <4>1. m # n /\ pc[m] # "idle"
        BY <2>5 DEF RemakeFs
      <4>2. m \in attached
        BY <4>1
      <4> QED
        BY <3>1, <4>1, <4>2
    <3>4. UNCHANGED <<attached, global>>
      BY <2>5 DEF RemakeFs
    <3> QED
      BY <3>1, <3>2, <3>3, <3>4
  <2>6. CASE GetDevices(n) \/ UmountDevice(n) \/ DeleteScsiDevice(n)
    BY <2>6 DEF GetDevices, UmountDevice, DeleteScsiDevice
  <2>7. CASE RemoveMultipathForDevice(n) \/ CommandFails(n)
    BY <2>7 DEF RemoveMultipathForDevice, CommandFails
  <2> QED
    BY <1>1, <2>1, <2>2, <2>3, <2>4, <2>5, <2>6, <2>7 DEF Step
<1>2. ASSUME NEW n \in Nodes, Die(n)
      PROVE  Goal
  BY <1>2 DEF Die, HasType
<1>3. ASSUME NEW n \in Nodes,
             CallMountDevice(n) \/ CallMount(n) \/ CallUnmount(n) \/ CallUnmountDevice(n)
      PROVE  Goal
  BY <1>3 DEF CallMountDevice, CallMount, CallUnmount, CallUnmountDevice
<1>4. ASSUME NEW n \in Nodes, Attach(n) \/ DeviceAppears(n) \/ Detach(n)
      PROVE  Goal
  BY <1>4 DEF Attach, DeviceAppears, Detach
<1>5. ASSUME NEW n \in Nodes, PodWrites(n)
      PROVE  Goal
  BY <1>5 DEF PodWrites
<1>6. ASSUME Breaks \/ UNCHANGED vars
      PROVE  Goal
  BY <1>6 DEF Breaks, vars
<1> QED
  BY <1>1, <1>2, <1>3, <1>4, <1>5, <1>6 DEF Next, Environment

\* Under Calm, what pods have written to a sound file system is never lost to
\* mkfs, whatever else fails or dies (main.go:223-283).
THEOREM DataIsKept == Calm /\ Spec => DataKept
<1> SUFFICES ASSUME Calm PROVE Spec => DataKept
  OBVIOUS
<1>1. Init => DInv
  BY DEF Init, DInv, Calm
<1>2. PInv /\ DInv /\ [Next]_vars => DInv' /\ [data /\ fs # "corrupt" => data']_vars
  BY DataStep
<1> QED
  BY <1>1, <1>2, ProtocolInvariant, PTL DEF Spec, DataKept

-----------------------------------------------------------------------------
\* What is mounted, or about to be, has devices under it.
Backed ==
    \A n \in Nodes :
        n \in global \/ pc[n] \in {"check", "mkfs", "mkdir", "mountDevice", "remake"} =>
            n \in devices

LEMMA BackedStep ==
    ASSUME PInv, Backed, [Next]_vars
    PROVE  Backed'
<1> USE DEF PInv, TypeOK, Protocol, Backed, Labels, Idle, Goto, Exit,
            volume, kernel, mounts, local
<1>1. ASSUME NEW n \in Nodes, Step(n)
      PROVE  Backed'
  <2>1. CASE HasFSOnVolumeDevice(n) \/ LsblkFails(n) \/ MakeFs(n) \/ MakeDir(n) \/ MountDevice(n)
    BY <2>1 DEF HasFSOnVolumeDevice, LsblkFails, MakeFs, MakeDir, MountDevice
  <2>2. CASE MountError(n) \/ MountRefused(n) \/ RemakeFs(n)
    BY <2>2 DEF MountError, MountRefused, MountFails, RemakeFs
  <2>3. CASE Mount(n) \/ Unmount(n) \/ GetDevices(n) \/ UmountDevice(n)
    BY <2>3 DEF Mount, Unmount, GetDevices, UmountDevice
  <2>4. CASE DeleteScsiDevice(n)
    BY <2>4 DEF DeleteScsiDevice
  <2>5. CASE RemoveMultipathForDevice(n) \/ CommandFails(n)
    BY <2>5 DEF RemoveMultipathForDevice, CommandFails
  <2> QED
    BY <1>1, <2>1, <2>2, <2>3, <2>4, <2>5 DEF Step
<1>2. ASSUME NEW n \in Nodes, Die(n)
      PROVE  Backed'
  BY <1>2 DEF Die
<1>3. ASSUME Environment
      PROVE  Backed'
  BY <1>3 DEF Environment, CallMountDevice, CallMount, CallUnmount, CallUnmountDevice,
              Attach, DeviceAppears, Detach, PodWrites, Breaks
<1>4. CASE UNCHANGED vars
  BY <1>4 DEF vars
<1> QED
  BY <1>1, <1>2, <1>3, <1>4 DEF Next

\* The cleanup that MountService sees.
Cleaning == {n \in Nodes : pc[n] \in {"delete", "flush"}}

\* A step that leaves attachments, devices and mounts alone and moves a process
\* neither into the cleanup nor out of it is none of the service.
LEMMA Invisible ==
    ASSUME PInv, NEW n \in Nodes, NEW label, Goto(n, label),
           pc[n] \notin {"delete", "flush"}, label \notin {"delete", "flush"},
           UNCHANGED <<attached, devices, global, pods>>
    PROVE  UNCHANGED Service!vars
<1>1. Cleaning' = Cleaning
  BY DEF PInv, TypeOK, Goto, Cleaning
<1> QED
  BY <1>1 DEF Service!vars, Cleaning

\* Every step of a driver process is a step of the service or leaves it alone.
LEMMA DriverKeepsOrder ==
    ASSUME PInv, Backed, NEW n \in Nodes, Step(n) \/ Die(n)
    PROVE  [Service!Next]_Service!vars
<1> USE DEF kernel, mounts
<1>1. TypeOK /\ pc \in [Nodes -> Labels] /\ pc[n] # "idle" /\ n \in attached
  <2>1. pc[n] # "idle"
    BY DEF Step, Die, Idle, HasFSOnVolumeDevice, LsblkFails, MakeFs, MakeDir, MountDevice,
           MountError, MountRefused, MountFails, RemakeFs, Mount, Unmount, GetDevices, UmountDevice, DeleteScsiDevice,
           RemoveMultipathForDevice, CommandFails
  <2> QED
    BY <2>1 DEF PInv, TypeOK, Protocol
<1>2. CASE HasFSOnVolumeDevice(n) \/ LsblkFails(n) \/ MakeFs(n) \/ MakeDir(n) \/ GetDevices(n)
  <2>1. PICK label \in {"mkdir", "mkfs", "mountDevice", "umount"} : Goto(n, label)
    BY <1>2 DEF HasFSOnVolumeDevice, LsblkFails, MakeFs, MakeDir, GetDevices
  <2>2. /\ pc[n] \notin {"delete", "flush"}
        /\ UNCHANGED <<attached, devices, global, pods>>
    BY <1>2 DEF HasFSOnVolumeDevice, LsblkFails, MakeFs, MakeDir, GetDevices
  <2> QED
    BY <2>1, <2>2, Invisible
<1>3. CASE MountError(n) \/ MountRefused(n) \/ RemakeFs(n) \/ CommandFails(n)
  <2>1. PICK label \in {"idle", "remake"} : Goto(n, label)
    BY <1>3 DEF MountError, MountRefused, MountFails, RemakeFs, CommandFails, Exit
  <2>2. /\ pc[n] \notin {"delete", "flush"}
        /\ UNCHANGED <<attached, devices, global, pods>>
    BY <1>3 DEF MountError, MountRefused, MountFails, RemakeFs, CommandFails
  <2> QED
    BY <2>1, <2>2, Invisible
<1>4. CASE MountDevice(n)
  <2>1. Cleaning' = Cleaning
    BY <1>1, <1>4 DEF MountDevice, Exit, Goto, Cleaning
  <2>2. n \in devices /\ n \notin global /\ n \notin Cleaning
    BY <1>4 DEF MountDevice, PInv, Protocol, Backed, Cleaning
  <2>3. Service!Mount(n)
    BY <1>1, <1>4, <2>1, <2>2 DEF MountDevice, Service!Mount, Cleaning
  <2> QED
    BY <2>3 DEF Service!Next
<1>5. CASE Mount(n)
  <2>1. Cleaning' = Cleaning
    BY <1>1, <1>5 DEF Mount, Exit, Goto, Cleaning
  <2>2. n \in global
    BY <1>5 DEF Mount, PInv, Protocol
  <2>3. Service!Bind(n)
    BY <1>5, <2>1, <2>2 DEF Mount, Service!Bind, Cleaning
  <2> QED
    BY <2>3 DEF Service!Next
<1>6. CASE Unmount(n)
  <2>1. Cleaning' = Cleaning
    BY <1>1, <1>6 DEF Unmount, Exit, Goto, Cleaning
  <2>2. n \in pods
    BY <1>6 DEF Unmount, PInv, Protocol
  <2>3. Service!Unbind(n)
    BY <1>6, <2>1, <2>2 DEF Unmount, Service!Unbind, Cleaning
  <2> QED
    BY <2>3 DEF Service!Next
<1>7. CASE UmountDevice(n)
  <2>1. Cleaning' = Cleaning \cup {n}
    BY <1>1, <1>7 DEF UmountDevice, Goto, Cleaning
  <2>2. n \in global \ pods
    BY <1>7 DEF UmountDevice, PInv, Protocol
  <2>3. Service!Unmount(n)
    BY <1>7, <2>1, <2>2 DEF UmountDevice, Service!Unmount, Cleaning
  <2> QED
    BY <2>3 DEF Service!Next
<1>8. CASE DeleteScsiDevice(n)
  <2>1. Cleaning' = Cleaning /\ n \in Cleaning
    BY <1>1, <1>8 DEF DeleteScsiDevice, Goto, Cleaning
  <2>2. CASE UNCHANGED devices
    BY <1>8, <2>1, <2>2 DEF DeleteScsiDevice, Service!vars, Cleaning
  <2>3. CASE devices' = devices \ {n}
    <3>1. Service!Remove(n)
      BY <1>8, <2>1, <2>3 DEF DeleteScsiDevice, Service!Remove, Cleaning
    <3> QED
      BY <3>1 DEF Service!Next
  <2> QED
    BY <1>8, <2>2, <2>3 DEF DeleteScsiDevice
<1>9. CASE RemoveMultipathForDevice(n) \/ Die(n)
  <2>1. Exit(n) /\ UNCHANGED <<attached, devices, global, pods>>
    BY <1>9 DEF RemoveMultipathForDevice, Die
  <2>2. CASE n \in Cleaning
    <3>1. Cleaning' = Cleaning \ {n}
      BY <1>1, <2>1 DEF Exit, Goto, Cleaning
    <3>2. Service!End(n)
      BY <2>1, <2>2, <3>1 DEF Service!End, Cleaning
    <3> QED
      BY <3>2 DEF Service!Next
  <2>3. CASE n \notin Cleaning
    BY <2>1, <2>3, Invisible DEF Exit, Cleaning
  <2> QED
    BY <2>2, <2>3
<1> QED
  BY <1>2, <1>3, <1>4, <1>5, <1>6, <1>7, <1>8, <1>9 DEF Step

\* So is every step of Kubernetes, the pods and the platform.
LEMMA EnvironmentKeepsOrder ==
    ASSUME PInv, Environment
    PROVE  [Service!Next]_Service!vars
<1> USE DEF kernel, mounts
<1>1. ASSUME NEW n \in Nodes,
             CallMountDevice(n) \/ CallMount(n) \/ CallUnmount(n) \/ CallUnmountDevice(n)
      PROVE  UNCHANGED Service!vars
  <2>1. PICK label \in {"check", "bind", "unbind", "lookup"} : Goto(n, label)
    BY <1>1 DEF CallMountDevice, CallMount, CallUnmount, CallUnmountDevice
  <2> QED
    BY <1>1, <2>1, Invisible
       DEF CallMountDevice, CallMount, CallUnmount, CallUnmountDevice, Idle
<1>2. ASSUME NEW n \in Nodes, Attach(n)
      PROVE  Service!Attach(n)
  BY <1>2 DEF Attach, Service!Attach
<1>3. ASSUME NEW n \in Nodes, DeviceAppears(n)
      PROVE  Service!Appear(n)
  BY <1>3 DEF DeviceAppears, Service!Appear
<1>4. ASSUME NEW n \in Nodes, Detach(n)
      PROVE  Service!Detach(n)
  BY <1>4 DEF Detach, Service!Detach, Idle
<1>5. ASSUME (\E n \in Nodes : PodWrites(n)) \/ Breaks
      PROVE  UNCHANGED Service!vars
  BY <1>5 DEF PodWrites, Breaks, Service!vars
<1> QED
  BY <1>1, <1>2, <1>3, <1>4, <1>5 DEF Environment, Service!Next

\* The calls of a node, whatever fails or dies, keep the order of MountService
\* (main.go:219-315, 374-422).
THEOREM CallsKeepOrder == Spec => ImplementsMountService
<1>1. Init => Service!Init /\ Backed
  BY DEF Init, Service!Init, Backed
<1>2. PInv /\ Backed /\ [Next]_vars => Backed' /\ [Service!Next]_Service!vars
  <2> SUFFICES ASSUME PInv, Backed, [Next]_vars
               PROVE  Backed' /\ [Service!Next]_Service!vars
    OBVIOUS
  <2>1. CASE UNCHANGED vars
    BY <2>1, BackedStep DEF vars, Service!vars
  <2> QED
    BY <2>1, BackedStep, DriverKeepsOrder, EnvironmentKeepsOrder DEF Next
<1> QED
  BY <1>1, <1>2, ProtocolInvariant, PTL DEF Spec, ImplementsMountService, Service!Spec
=============================================================================

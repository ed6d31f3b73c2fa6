# Specifications of the Power OpenStack Kubernetes volume driver

This directory holds TLA+ specifications of the flex volume driver
(`cmd/flexplugin`) and of the dynamic provisioner (`cmd/provisioner`), the TLC
configurations that check small instances of them, and proofs that TLAPS checks
for every value of the constants. Paths below are relative to `src/`.

## The system

Both programs sit between Kubernetes and OpenStack (Cinder for volumes, Nova for
servers, Neutron for ports, Keystone for tokens). Neither keeps anything on
disk apart from one lock file: what outlives a process is in OpenStack, in
Kubernetes, or in the kernel of a node.

| Component | Source | State | Operations |
|---|---|---|---|
| Flex driver, controller side | `cmd/flexplugin/main.go`, `pkg/utils/rest_utils.go`, `util.go` | none of its own; Cinder metadata `k8s_pvOrVolumeName`, Nova attachments | `attach`, `detach`, `isattached` |
| Device path | `pkg/utils/volume_utils.go:29-130` | none | `GetVolumeDirectoryName` |
| Flex driver, waiting for devices | `main.go:154-216`, `volume_utils.go:134-161, 313-351` | the SCSI scan lock file; disks and by-id links of the node | `waitforattach` |
| Flex driver, mounts | `main.go:219-319, 363-423`, `volume_utils.go:165-310` | file system on the volume, mounts, devices, multipath maps | `mountdevice`, `mount`, `unmount`, `unmountdevice`; `waitfordetach` answers Success and does nothing |
| Entry point | `main.go:427-531`, `util.go:50-124` | the variable `cloud` of one process | argument check, dispatch, `init`, `getvolumename` |
| Lookups of a server | `util.go:174-269`, `rest_utils.go:371-412` | none | `ResolveNodeAddress`, `GetServerIDFromNodeName`, the maps of servers and hypervisors by address and by name |
| Commands | `util.go:272-305` | two processes, three goroutines, a pipe | `RunCommand`, `RunPipedCommands` |
| OpenStack client | `rest_utils.go` | a token | one method per request |
| Dynamic provisioner | `pkg/volume/provision.go`, `delete.go` | Cinder volumes, PV objects | `Provision`, `Delete` |
| Provisioner process | `cmd/provisioner/main.go` | none | hands control to the controller library |

How they interact: every flex driver call is a process of its own, started by
the kubelet of a node or by the controller manager; it prints one JSON answer and
exits. Calls on one controller overlap freely. They meet in Cinder (the name that
`attach` writes is what `detach` finds the volume by), in Nova (attachments), in
the lock file of a node (`waitforattach`) and on the volume itself
(`mountdevice`). The provisioner is one process that works on several claims at
once; its volumes are the ones the flex driver attaches.

What is hard, and what correctness means:

- *Controller side.* An operation is three to six requests with nothing to make
  them atomic: calls overlap, a request fails with or without its effect, the
  process dies. Correct means that an attachment never exists without the name
  detach needs, that the name gives that volume and no other, that the path is
  one of the volume asked for, that a call only
  changes the attachment it was asked about, that Success is told of the truth,
  and that a call ends.
- *waitforattach.* The scan lock is given up on after two minutes, and the
  deferred unlock runs in processes that never got it. Correct means no leaked
  lock, no stolen lock, overlap only after a timeout, and an end to every call.
- *Mounts.* `mountdevice` formats a volume that has no file system, and takes
  three different failures for that. Correct means never formatting data away,
  and never deleting a device under a mount nor leaving one behind.
- *Device cleanup.* `unmountdevice` finds the devices of a directory by the words
  of two commands' output, unmounts, and deletes by name, next to calls for other
  volumes and scans that use names again. Correct means that only devices of the
  volume it unmounted go, and that nothing is left without a reason. One of the
  lookups is a pipe between two processes whose end is a matter of order.
- *Entry point.* Positional arguments are counted in one table and indexed in
  another place; `attach` looks its server up in Neutron, and for the path again
  in DNS and Nova, which may have changed. Correct means an answer to every
  call with its arguments, and a path for the server that got the volume unless
  the sources contradict each other.
- *Provisioner.* Creation is asynchronous, its answer can be lost, the library
  repeats what failed. Correct means that a PV stands for a volume of its own
  claim, that no volume is orphaned, and that a deleted claim loses its volume.

`PROJECT.json` lists the hazards line by line with the properties aimed at them.

## The modules

| Module | Models | Proofs |
|---|---|---|
| `DevicePath` | the paths of `GetVolumeDirectoryName`, by hypervisor, storage and WWN: a prefix and the key after it | used by `FlexAttach` |
| `AttachService` | abstract: what attach, detach and isattached promise | |
| `FlexAttach` | the three operations, one action per request | `FlexAttachProofs` |
| `FlexAttachHistory` | the same with the attachments that were granted and not given up | |
| `WaitForAttach` | `waitforattach` on one node | `WaitForAttachProofs` |
| `NodeMount` | the mount side, one action per command | `NodeMountProofs` |
| `NodeMountHistory` | the same with the calls that have a false picture of the volume | `NodeMountProofs` |
| `DeviceCleanup` | `unmountdevice` for several volumes of one node, its lookup in detail | `DeviceCleanupProofs` |
| `PipedCommands` | `RunPipedCommands`, line by line | `PipedCommandsProofs` |
| `DriverCall` | a call from `main` to its answer, and the lookups of `attach` | `DriverCallProofs` |
| `VolumeStore` | abstract: what the provisioner promises | |
| `Provisioner` | `Provision` and `Delete` for several claims | `ProvisionerProofs` |
| `ProvisionerHistory` | the same with the volumes that a failure made an operation forget | `ProvisionerProofs` |
| `MountService` | abstract: the order in which the node side attaches, mounts, unmounts and deletes; implemented by `NodeMount` (for each node) and `DeviceCleanup` (for each volume) | |
| `Lifecycle` | `VolumeStore`, the names in the metadata and `MountService` together | `LifecycleProofs` |

The modules whose names begin with `MC` hold the constants and symmetry sets of
the instances. The three `History` modules add variables for a property
that needs to know what has happened before. Their next-state relations take the
steps of the module they extend and only say what becomes of those
variables, so they allow the same behaviours.

### FlexAttach

`pc[c]` is the request a driver process does next, `req[c]` its arguments,
`vmID`, `volume`, `polls` its local variables; `status`, `pvMeta` and `nova` are
Cinder's and Nova's. A slot `c` is used by one process after the other, so
any number of calls run in sequence and `Calls` bounds how many overlap. The
actions follow `main.go:63-151` and `322-360`: `InitCloud`, `GetVMID`,
`GetVolume` (the polling loop of `GetCinderVolume`), `UpdateVolumeMetadata`,
`AttachVolumeToVM`, and the three requests of `GetVolumeDirectoryName`
(`GetAllOSVMs`, `GetHypervisors`, `GetStorageHostRegistration`);
`GetVolumeByMetadataProperty`, `DetachVolumeFromVM`; `IsVolumeAttached`. A write either takes effect and is
answered, or takes effect and its answer is lost (the call ends in Failed), or
fails (`Fail`). `Die` ends the process anywhere. `Platform` is Cinder and Nova
finishing or undoing what they accepted.

The path is computed from the volume as the polling loop last read it. Whether
that has a `volume_wwn` is a fact of its own (`wwn`), apart from its status: a volume
of `WWNLate` may be ready without one, and each read is decoded over the one before.
The server is the one that Nova's list has under the address, so `GetHypervisors` takes
any type of hypervisor there is, not that of `vmID`; an empty list or one that
failed, a name that no longer resolves and a hypervisor that is not listed all
give an empty path with Success. The storage registration may be missing. A path is
a prefix and a key: the first 20 characters of the id, the first 25 of it without the
dashes, the WWN or nothing. Two ids may have the same start (`IdHead`, `IdDigits`),
and the instance has two that do: nothing in the code keeps their paths apart,
and no property says that paths of different volumes differ.

`FlexAttachHistory` keeps in `held` the attachments (name, volume, server) whose
attach answered Success and which no detach of that name was started for.

Assumed of the surroundings: nothing is attached and no name is set at the start;
the ports of a node do not change; Nova refuses a second attachment of the same
pair, and of a volume without multi-attach.

`AttachService` has one step per operation and is implemented under the mapping
at the end of `FlexAttach` (`applied` is "Nova has accepted, the path is being
computed", `outcome` is the answer without its path).

### WaitForAttach

`lockFile` is the file's owner, `Nobody` or `Dead` (an owner that was killed).
`Acquire`/`Busy` is the lock loop, `ScsiHostScan`, `UdevdHandleEvents` and
`Lstat` the scan loop, `Resolve` the link, `Unlock` the deferred unlock. The lock
package is external: a file whose owner is dead is taken over in one step, and only
its owner removes it. `Platform` drops devices and lets udev work at any time.

### NodeMount

Each node runs one driver process at a time for the volume, as the kubelet
does; `pc[n]` is its next command. What the processes change is `fs` and `data`
(the volume), `devices` and `maps` (the kernel) and `global` and `pods` (mounts).
File system types are three classes: none asked for, one of `FSTYPES`, another
one. `Faults` turns on what may go wrong, kind by kind, so that a property
can say which failures it survives. `Before` is what the volume may carry when it is
first used (a static volume comes with a file system of any type and with data),
`FsType` what the PV asks for that each node mounts it through. `Attach`, `Detach` and
`DeviceAppears` are the other operations of the driver, seen from here; the last is
the scan of any volume's `waitforattach`, which takes no lock against the calls of
this module and so comes between any two of their commands. An `mkfs` that fails is
taken to leave the volume as it was; one that is killed may leave it half made.

`NodeMountHistory` keeps in `misled` the nodes whose running `mountdevice` believes
something false: `lsblk` failed over a file system it would have named, the kernel
refused a sound file system as a "bad superblock", or another node made a file
system since.

### DeviceCleanup

`NodeMount` takes a failed device lookup for a fault; `DeviceCleanup` has its
causes. `disk` is what the kernel calls each device, `line` and `todo` are the
local variables of each `unmountdevice`: the volume whose line of the mount table
was found, and the devices not deleted yet. `Within` says which directory names
contain which as a word, `Kind` how a volume shows: a plain disk, a multipath map
the code can take apart, one of a product with a blank in its name (the line of
`multipath -l` has six words then), one named by its WWID. The kubelet runs one
operation per volume at a time; `ScsiHostScan` is the scan of any `waitforattach`
and may give any free name to any disk it finds. `DeleteFails` is a write to the delete
file of a device that fails: its error is dropped and the device stays. `excused` is
history: the calls that met a failing command, such a write or such a scan.

### PipedCommands

`main` is the next statement of `RunPipedCommands`, `got` counts how many lines
have come to each place on their way: written by the first command, copied by
the goroutine behind its output, passed through the `io.Pipe`, fed to the second
command, read by it, collected. `Wait` is `os/exec`'s: it returns when the process
and its goroutines have ended. Lines and goroutines are external, as is the rule
that a write to an `io.Pipe` ends only when a reader took it.

### DriverCall

One driver process; the operations are one step each, `attach` one step between
its two lookups. `call` has the operation, the number of arguments behind it and
the node; `Required`, `Optional` and `Indexed` are `createOpArgsMap` and the indices
`createRespMsg` uses. `dns`, `ports`, `listed`, `host` and `up` are DNS, Neutron's
ports, the addresses and hypervisor Nova has for each server, and the hypervisors
it lists. `CreateVMIPToVMDetailsMap` is a function (the last server of the list
wins). A node is named by a word that DNS resolves or by an address: one of either
version is returned as it is, while DNS gives only addresses of version 4.
`portAddr` is history. The kind of the path follows from the type of hypervisor,
as in `DevicePath`; here only the type is kept (`by`). An operation that is no
word the driver knows passes the argument check and gets an empty status: the
constant "Not supported" of `constants.go:61` is never used.

### Provisioner

`state` and `owner` are Cinder's volumes, `claim` and `pv` what Kubernetes has,
`pc`, `vol` and `polls` the operation at work for each claim. `Create`,
`GetCinderVolume`, `Cleanup`, `SavePV` and `DeleteVolume` follow
`provision.go:66-158` and `delete.go:28-55`. The controller library is
external: one operation per claim at a time, a failed one is repeated, a PV is
saved after `Provision` and removed after a `Delete` that answered nil. `Attach`
and `Detach` are the flex driver's: a volume in use is one Cinder does not delete.

`ProvisionerHistory` keeps in `abandoned` the volumes that were forgotten: by the lost
answer of their create, a failed read, a failed cleanup, a delete that failed after
the PV could not be saved, or a crash. `unheard` has those that were deleted without the
library knowing, by a lost answer or a crash.

`VolumeStore` is implemented under the mapping of `Provisioner` that forgets the
operations at work: a bound claim has its volume until it is released, no two
PVs share one, and a PV goes only after its volume.

### MountService

Items are volumes on a node. The specification has the sets of items `attached`,
`present` (the kernel knows a device), `mounted`, `bound` (a pod uses the mount) and
`cleaning`, and promises an order: a mount needs a device of an attached volume,
a pod needs the mount, devices are removed only by a cleanup that has taken the
item's own mount away. A scan may bring devices back at any time, and a
cleanup may end early, as when its process dies. `NodeMount` implements it with
its nodes as items (there is one volume), `DeviceCleanup` with its volumes
as items (there is one node, and no pods), both with `cleaning` read off the
next command of the calls. The two refinements differ in what is hard: crashes,
failing commands and other nodes in one, the lookup of devices by name in the
other. In both the kernel removes no device by itself, and Nova detaches nothing
that is mounted or being cleaned up: the kubelet asks for the detach afterwards.

### Lifecycle

What a volume goes through, from claim to pod and back. The parts run in different
processes on different machines and share nothing but what OpenStack and
Kubernetes keep, so the module composes their abstract specifications:
`VolumeStore` with `MountService` for the pairs of a node and a volume, and between
them `name`, the metadata that `attach` writes (`NameVolume`) and `detach` searches
(`Matches`). Naming and attaching are steps of their own, as in `FlexAttach`: the
claim may be released in between, and the process may die. `Attach` needs a
volume that has a name, which `AttachmentsAreNamed` proves of `FlexAttach`. Three
rules are Cinder's and Nova's: no attached volume is deleted, a deleted one takes
its metadata along, and only a volume that exists is attached.

## What the runs check

| Run | Instance | Shows |
|---|---|---|
| `flex_attach` | 2 calls, 2 nodes, 2 volumes with a PV each, one of them multi-attach, the other with a WWN that may come late, 2 kinds of hypervisor and of storage, 2 reads | types, `AttachmentNamed`, `DetachIdentifies`, `PathNamesVolume`, `RequestsRunOut`, refinement of `AttachService` |
| `wait_for_attach` | 3 processes, 1 volume, 2 lock attempts, 2 scans | `LockHeldByScanner`, `ScanUnlockedOnlyAfterTimeout`, `OnlyHolderReleases`, `AttemptsRunOut`, every call ends |
| `node_mount` | 3 multipath nodes with the volume on all of them at once, PVs that ask for no type, a listed and an unlisted one, a volume that is new or comes with a file system of either kind, every fault | `DataLostForAReason`, refinement of `MountService` |
| `device_cleanup` | 3 volumes (plain, multipath on 2 paths, a map named by WWID), one directory name within another, 3 device names, failing commands, devices that cannot be deleted, crashes | `LeftForAReason`, `DeletesOwnDevices`, refinement of `MountService` |
| `piped_commands` | 4 lines, pipes that hold 2, commands that do not start or die | `OutputComplete`, `NothingLeft`, `NoCircularWait`, `WorkGoesDown`, `Returns` |
| `driver_call` | every operation with 0 to 4 arguments and none, a node named by a word or by one of 2 IPv4 and 1 IPv6 addresses, 2 servers and a router, 2 hypervisors, 2 changes | `PanicsExplained`, `PathExplained` |
| `provisioner` | 3 claims (one refused), 3 volumes, every fault | `PVBacked`, `UnreadyOnlyAfterTimeout`, `OrphanedForAReason`, `OperationsRunOut`, refinement of `VolumeStore` |
| `provisioner_release` | 2 claims, 2 volumes, every fault, fairness | `ReleasedGoes`: only a delete that the library never heard of leaves a PV |
| `lifecycle` | 2 claims, 2 volumes, 2 nodes | `PodsKeepVolumes`, `AttachedIsFound` |

Three more runs end in a counterexample, each against a line of the repository:

| Run | The code does | The repository says |
|---|---|---|
| `flex_attach_shared` | `attach` through a second PV overwrites the name that an attachment granted through the first, and not given up, is found by | `main.go:120-121` |
| `mount_unlisted` | a file system outside `FSTYPES` is formatted again at each mount | `main.go:225` |
| `unmount_multipath` | the multipath map stays, `multipath -f mapper` having failed | `main.go:397` |

Bounds, and why they are enough. Two overlapping calls are what every property
of `FlexAttach` is about (a name, an attachment and the call that wants to
use it); two volumes with a name each are the fewest for which a lookup can
confuse them, and the theorems cover more. The two ids start with the same 20
characters. A third node, whose address belongs to no server's port, is in
`flex_attach_shared`: in `flex_attach` a refused lookup is one way for a call to fail. Two reads
(`MaxPolls`) and two attempts (`MaxTryLock`, `MaxFind`) are the fewest for
which "again" and "last" differ; the code has 100 and 24. Three processes let one
hold the lock while a second has timed out and a third still waits. Three nodes
with one PV each let every two of the three kinds of type meet on one volume, with
a third node in between. Three claims and
volumes allow a repeated `Provision` next to another claim's volume, and a full
quota. For the cleanup, two volumes with names that look alike and a third that
takes their device names are the fewest for which a device can be mistaken;
three names for four paths make names scarce. Four lines through pipes of two
fill every place a line can be in. Two changes are what it takes to put a
second server under an address (a port, then Nova's cache); they are made only
between the steps of `attach`, as nothing else looks twice. In `lifecycle` two claims
and volumes let a name or a volume be taken for another's, and two nodes let a
volume be attached twice. Symmetry is used only over sets no property tells apart, and in no
run with a liveness property; in `flex_attach` the two nodes change
places together with their servers, which are alike there.

Deadlock is checked everywhere but in `provisioner_release` and `lifecycle`, where the
claims are all gone or the volume ids all used in the end, in `driver_call`, whose
one process ends, and in `piped_commands`: there the call ends too, and hangs when the second command is
gone, which `Returns` delimits.

### Fairness

- `WaitForAttach`: weak fairness of each process. A process only waits for the lock,
  for sleeps and for commands that end. Nothing is assumed of the kernel or
  udev, and a process may be killed at any time.
- `FlexAttach` needs none: `RequestsRunOut` bounds the requests of a call, and a
  request that waits for an answer may fail at any time (`Fail`), as when it times
  out.
- `PipedCommands`: weak fairness of the caller, of each kind of line movement and
  of each ending, as processes and goroutines that can run do run. Failures to
  start and deaths are not fair.
- `Provisioner`: weak fairness of each operation (the library repeats what
  failed), of Cinder finishing a creation, of pods giving a volume of a released
  claim back (`Detach`), and strong fairness of the two steps of
  `Delete` that a failing request may preempt: a request repeated for ever
  succeeds some time, and the process lives long enough for it. Without this no delete
  need ever succeed.

## What is proved

The theorems hold for any calls, nodes, volumes, claims, processes, limits and
bindings that satisfy the assumption on the constants in each module (limits
are positive; markers such as `NoVM` are not real values; functions have their
domains).

- `FlexAttachProofs`. The invariant `IInv` adds to types and `AttachmentNamed`
  that an attached volume is ready (so that it cannot be deleted with its
  name), and per call its `Position` (its operation, its arguments, the server
  its node stands for) and its `Knowledge` (a call about to attach has written a
  name that stays, a lookup gave a volume bound to the name, the snapshot is
  explained). From it follow `TypeCorrect`, `AttachmentsAreNamed`,
  `SnapshotsAreExplained`, `DetachFindsItsVolume` (with `OneToOne` bindings: each
  PV has a volume of its own) and `DriverImplementsService`, step by step under
  the refinement mapping. `PathsNameTheirVolume` says that a path attach answers
  with has a prefix of the code's and the id or WWN of the volume it was asked for, or
  else the bare prefix, because no read of the call showed a WWN: then the volume is
  one that may be ready without it, or was still being created at the last read.
- `WaitForAttachProofs`. The invariant adds that a process in a loop has attempts
  left. `LockNeverLeaks`, `UnlockedOnlyAfterTimeout`, `MutualExclusionInTime` (the
  lock file has one owner, and whoever scans without it has timed out: it follows from the
  theorem before it and is in no run) and
  `HolderReleases`.
- Bounds. `CallsAreBounded` (for `FlexAttach` and for `WaitForAttach`),
  `OperationsAreBounded` (`Provisioner`) and `EveryStepCounts` (`PipedCommands`) give
  each operation a number that every step of it makes smaller, whatever the
  other operations and the environment do: `MaxPolls + 7` requests for a driver call,
  `MaxTryLock + 3 MaxFind + 2` steps for `waitforattach`, `MaxPolls + 6` for an operation
  of the provisioner, `15 + 6N` for a pipe of `N` lines. They are action properties and
  need no fairness: no operation loops, whatever fails. That a step which is due is
  taken in the end is what the liveness runs add.
- `NodeMountProofs`. `CallsKeepOrder` is the refinement of `MountService` under every
  fault, command by command; `Backed` (a mounted node has a device) is what it adds to
  the invariant. `Protocol` says what is mounted where a process stands and that
  only an attached node has mounts or processes. `DevicesOutliveMounts` needs no
  more. `DataLossExplained` says under every fault, for any mix of types and any number
  of nodes at a time, what `mkfs` over written data takes: a file system of a type that
  `FSTYPES` lacks, or a call that is misled and stands before an `mkfs`. Each of the
  four ways to get there is needed: TLC finds the loss when one is struck off.
  `DataIsKept` is the other side of it: under `Calm` no data is lost. `Calm` is one node
  at a time, no type that `FSTYPES` lacks, neither asked for nor on the volume when it
  comes to the driver, an `lsblk` that works and, for a PV that asks for a type, no
  false "bad superblock". Crashes, half-made file systems and all other failures are
  allowed. Kubernetes gives the first (for volumes that are not multi-attach) and an
  operator the second; the other two are up to the node.
- `DeviceCleanupProofs`. The invariant says for each call where it stands: while the
  volume is mounted, the line found is its own and what was found are devices of
  the volume, all of them when none of the reasons applies; from "delete" on the
  volume is not mounted, which only the umount of the call brings about.
  `MountsKeepDevices`, `OnlyForAReason` and `OwnDevicesOnly` follow, with any
  faults; a deletion whose error was dropped is one of the reasons. `CallsKeepOrder` is the
  refinement of `MountService` for any number of volumes at once: since a call
  deletes devices of its own volume alone, what it removes is invisible to the others.
- `PipedCommandsProofs`. The invariant orders the six counters, matches goroutines
  with commands, and says what has ended where the call stands and that what ended
  left no line behind. `NoLineLost` and `NothingRunsOn` hold for any
  number of lines and any size of the pipes. `NeverWaitsInACircle` goes along the
  pipe from its end: if nobody can move a line or end, each process and goroutine
  has ended in turn, so that the caller can go on, unless a line waits in the
  `io.Pipe` for a second command that is gone. With `EveryStepCounts` this is
  all of `Returns` but for the fairness.
- `DriverCallProofs`. `PanicsHaveReasons` adds that a call past `main` has what its
  operation requires, and that a client was made for those that use one; it
  rests on `IndexedArgsAreListed`, which compares the table with the switch.
  `PathIsExplained` needs no more than that the second lookup is made for a
  server: when nothing contradicts, that server is the one holder of the address.
  `TypeCorrect` has a part that is not bookkeeping: an address of version 6 is only ever
  the node's own name.
- `ProvisionerProofs`. The invariant is a conjunction over claims, and `Frame`
  shows that operations for one claim leave the others' part alone.
  `VolumesArePrivate` and `ReadyOrTimedOut` hold under every fault;
  so does `OrphansExplained`: whatever Cinder has is in its claim's PV, in the hands of an
  operation, or was forgotten by one of the failures `ProvisionerHistory` names.
  `PVsNameDistinctVolumes` and `ProvisionerImplementsStore` go operation by
  operation (`OperationRefines`).
- `LifecycleProofs`. `OrderLayers` and `StoreKeepsVolumes` are about the two abstract
  specifications: pods use mounts, mounts stand on devices of attached volumes; a
  bound claim has a volume that exists and is its own. As refinements, they
  hold of `NodeMount`, `DeviceCleanup` and `Provisioner` too. `PartsKeepPromises` shows
  that the composition is a behaviour of each part, so both carry over to it.
  `NamesAgree` ties the parts together: a name is that of the PV that stands for
  the volume, and an attached volume has one. `DetachFindsWhatIsAttached` and
  `PodsAreSafe` follow, for any number of claims, volumes and nodes.

Proved and in no run of their own: `NoDeleteUnderMount` and `MountsBacked`, which the
refinement of `MountService` says and more (`OrderLayers`), and
`StaleSnapshotOnlyAfterTimeout`, the step before `PathNamesVolume`; `DataIsKept`, whose
property `mount_unlisted` violates outside `Calm`; `MutualExclusionInTime`.

Only model-checked: the liveness properties (`CallsEnd`, `ReleasedGoes`,
`Returns`), as the proof system does not reason about fairness and `ENABLED`; what
can be said without them is in the bounds above. The composition is of abstract
specifications: that `FlexAttach` keeps the part of `Lifecycle` about names is the
theorems `AttachmentsAreNamed` and `DetachFindsItsVolume`, not a refinement.

## What is not modelled, and why

- `RunCommand`, logging, certificates, configuration from the environment: pure
  I/O without a state that a property is about. The contents of the JSON argument:
  one that does not parse counts as empty (`util.go:44-48`), and its keys are the
  arguments of the operations' modules.
- `CreateHostnameToDetailsMap` (`util.go:236`) calls `GetHypervisors`, while the
  interface and its mock have `ListHypervisors`; the module models what the call
  is meant to do, a list or an error.
- Characters of paths, names and messages, but for the words `grep -w` and the
  device lookup tell apart.
- `GetVMIDThruNova` and `CreateVMIDToIPMap` (`util.go:174-206`): no caller outside tests.
- A save of a PV whose answer the API server loses: the library's save works or fails.
- A PV name that is used again for another volume while the first is attached: the
  bindings of names to volumes are fixed, so a name belongs to the volumes it is
  bound to for good.
- `cmd/provisioner/main.go` beyond handing over to the controller library, and
  the test doubles.

Two behaviours are in the models without a property, as no line of the
repository claims otherwise: a repeated `attach` after a lost answer is refused by
Nova for ever; `isattached` answers false for any failed request.

Properties that hold only with a restriction name it. `OrphanedForAReason`,
`ReleasedGoes`, `DataLostForAReason`, `LeftForAReason` and `PathExplained` do not say
that nothing goes wrong: they list, under every fault, what it takes, and say that
nothing else does. A failed read of a volume being created leaves it behind
(`provision.go:104-108`), and so do a failed cleanup, a lost answer and a crash; the PV of
a released claim stays when a delete took effect unheard, since a repeated one is
answered 404 for ever; `attach` answers Success with no path, or with one by the rule of
another hypervisor. `DataKept` is proved under `Calm` alone.

## Plan

Done: the controller side with its abstract specification, the scan lock, the
provisioner with its own, the mount side, the device cleanup and what both
promise, the commands, the entry point, and the parts together, each with runs and
proofs. What could follow:

1. Bounds for the calls of `NodeMount` and `DeviceCleanup` as for the others.
2. A composition of `FlexAttach` and `WaitForAttach` by their requests and steps, for
   volumes that move between nodes: a link left by an earlier attachment is never
   taken for that of another volume.
3. A refinement of the names of `Lifecycle` by `FlexAttach`.

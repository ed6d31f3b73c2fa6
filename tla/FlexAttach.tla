----------------------------- MODULE FlexAttach -----------------------------
(***************************************************************************)
(* The controller side of the flex driver: attach, detach and isattached.  *)
(* Every driver call is a process of its own (kubelet or the controller    *)
(* manager forks the binary) that talks to Neutron, Cinder and Nova by one *)
(* REST request after the other.  Nothing makes the sequence atomic: calls *)
(* overlap, a request fails with or without having taken effect, and the   *)
(* process may die between two requests.                                   *)
(*                                                                         *)
(* Sources: cmd/flexplugin/main.go (isAttached, attach, detach),           *)
(* pkg/utils/rest_utils.go (the requests), pkg/utils/volume_utils.go (the  *)
(* device path).                                                           *)
(***************************************************************************)
EXTENDS Naturals, FiniteSets, DevicePath

CONSTANTS
    Calls,          \* slots for driver processes
    Nodes,          \* Kubernetes node names
    VMs,            \* Nova server ids
    PVNames,        \* values of kubernetes.io/pvOrVolumeName
    NoVM,           \* device id of a port that belongs to no server
    NoName,         \* volume metadata without k8s_pvOrVolumeName
    Bindings,       \* <<name, volume>>: the flex volume sources that exist
    PortsOf,        \* node -> device ids of the ports that hold its address
    MultiAttach,    \* volumes that may be attached to several VMs
    Hypervisors,    \* types of the hypervisors Nova lists
    HostOf,         \* volume -> type of its storage host
    WWNLate,        \* volumes that may be ready without a WWN
    MaxPolls        \* reads in GetCinderVolume, 100 in the code

ASSUME ConstantsAssumption ==
    /\ Bindings \subseteq PVNames \X Volumes
    /\ PortsOf \in [Nodes -> SUBSET (VMs \cup {NoVM})]
    /\ MultiAttach \subseteq Volumes
    /\ Hypervisors \subseteq HypTypes
    /\ HostOf \in [Volumes -> HostTypes]
    /\ WWNLate \subseteq Volumes
    /\ MaxPolls \in Nat \ {0}
    /\ NoVM \notin VMs
    /\ NoName \notin PVNames

VARIABLES
    status,     \* Cinder: volume -> state of its creation
    pvMeta,     \* Cinder: volume -> metadata k8s_pvOrVolumeName
    nova,       \* Nova: <<VM, volume>> -> state of the attachment
    pc,         \* per call: the request that comes next
    req,        \* per call: operation and arguments
    vmID,       \* per call: result of GetVMID
    volume,     \* per call: the volume as last read from Cinder
    polls,      \* per call: reads of GetCinderVolume so far
    resp        \* per call: what the last process in the slot answered

cloud == <<status, pvMeta, nova>>
local == <<vmID, volume, polls>>
vars  == <<status, pvMeta, nova, pc, req, vmID, volume, polls, resp>>

Statuses    == {"creating", "ready", "error", "gone"}
Attachments == {"none", "attaching", "attached", "detaching"}
Labels      == {"idle", "initCloud", "getVMID", "getVolume", "updateMeta",
                "novaAttach", "listServers", "hypervisors", "registration",
                "lookup", "novaDetach", "novaGet"}
Ops         == {"none", "attach", "detach", "isattached"}

Requests == [op   : Ops,
             pv   : PVNames \cup {NoName},
             vol  : Volumes \cup {NoVol},
             node : Nodes \cup {NoVM}]

NoReq    == [op |-> "none", pv |-> NoName, vol |-> NoVol, node |-> NoVM]

\* wwn says whether the metadata have a volume_wwn.
Snapshots  == [id : Volumes \cup {NoVol}, status : Statuses, wwn : BOOLEAN]
NoSnapshot == [id |-> NoVol, status |-> "gone", wwn |-> FALSE]

\* The JSON printed on stdout; "none" while there is none, and for a process
\* that died.
Answers == [status : {"none", "Success", "Failed"}, device : Paths, attached : BOOLEAN]

Answer(s, d, a) == [status |-> s, device |-> d, attached |-> a]
NoAnswer        == Answer("none", NoPath, FALSE)
Failed          == Answer("Failed", NoPath, FALSE)

TypeOK ==
    /\ status \in [Volumes -> Statuses]
    /\ pvMeta \in [Volumes -> PVNames \cup {NoName}]
    /\ nova \in [VMs \X Volumes -> Attachments]
    /\ pc \in [Calls -> Labels]
    /\ req \in [Calls -> Requests]
    /\ vmID \in [Calls -> VMs \cup {NoVM}]
    /\ volume \in [Calls -> Snapshots]
    /\ polls \in [Calls -> 0 .. MaxPolls]
    /\ resp \in [Calls -> Answers]

-----------------------------------------------------------------------------
\* No volume starts out attached or named: both are this driver's doing.
Init ==
    /\ status \in [Volumes -> {"creating", "ready"}]
    /\ pvMeta = [v \in Volumes |-> NoName]
    /\ nova = [p \in VMs \X Volumes |-> "none"]
    /\ pc = [c \in Calls |-> "idle"]
    /\ req = [c \in Calls |-> NoReq]
    /\ vmID = [c \in Calls |-> NoVM]
    /\ volume = [c \in Calls |-> NoSnapshot]
    /\ polls = [c \in Calls |-> 0]
    /\ resp = [c \in Calls |-> NoAnswer]

Running(c) == pc[c] # "idle"

Goto(c, label) == pc' = [pc EXCEPT ![c] = label] /\ UNCHANGED <<req, resp>>

\* The process prints its answer and exits: all it knew is gone.
Return(c, answer) ==
    /\ pc' = [pc EXCEPT ![c] = "idle"]
    /\ req' = [req EXCEPT ![c] = NoReq]
    /\ vmID' = [vmID EXCEPT ![c] = NoVM]
    /\ volume' = [volume EXCEPT ![c] = NoSnapshot]
    /\ polls' = [polls EXCEPT ![c] = 0]
    /\ resp' = [resp EXCEPT ![c] = answer]

\* Kubernetes runs the binary.  attach carries the PV name and the volumeID
\* option of one flex source, detach the name alone, isattached the id alone.
ValidRequests ==
    {[op |-> "attach", pv |-> b[1], vol |-> b[2], node |-> n] : b \in Bindings, n \in Nodes}
    \cup {[op |-> "detach", pv |-> b[1], vol |-> NoVol, node |-> n] : b \in Bindings, n \in Nodes}
    \cup {[op |-> "isattached", pv |-> NoName, vol |-> b[2], node |-> n] : b \in Bindings, n \in Nodes}

Start(c) ==
    /\ ~Running(c)
    /\ \E r \in ValidRequests : req' = [req EXCEPT ![c] = r]
    /\ pc' = [pc EXCEPT ![c] = "initCloud"]
    /\ resp' = [resp EXCEPT ![c] = NoAnswer]
    /\ UNCHANGED <<cloud, local>>

\* Authentication with Keystone, which detach follows with the volume lookup
\* and the others with GetVMID.
InitCloud(c) ==
    /\ pc[c] = "initCloud"
    /\ Goto(c, IF req[c].op = "detach" THEN "lookup" ELSE "getVMID")
    /\ UNCHANGED <<cloud, local>>

AfterVMID(op) ==
    CASE op = "attach" -> "getVolume"
      [] op = "detach" -> "novaDetach"
      [] op = "isattached" -> "novaGet"

\* Resolve the node name and ask Neutron for the port with that address: one
\* port is taken at its word, none or several are an error.
GetVMID(c) ==
    /\ pc[c] = "getVMID"
    /\ \E vm \in PortsOf[req[c].node] :
        /\ PortsOf[req[c].node] = {vm}
        /\ vmID' = [vmID EXCEPT ![c] = vm]
    /\ Goto(c, AfterVMID(req[c].op))
    /\ UNCHANGED <<cloud, volume, polls>>

\* Cinder's driver adds the WWN while it creates the volume, unless it is one
\* that does so later or never.
WWNShown(v) == IF status[v] = "ready" /\ v \notin WWNLate THEN {TRUE} ELSE BOOLEAN

\* One read of GetCinderVolume, the n-th.  It is decoded over the read before:
\* metadata it lacks stay.
ReadVolume(c, n, again) ==
    LET v == req[c].vol
    IN  /\ pc[c] = "getVolume"
        /\ status[v] # "gone"
        /\ \E shown \in WWNShown(v) :
            volume' = [volume EXCEPT ![c] =
                [id |-> v, status |-> status[v], wwn |-> volume[c].wwn \/ shown]]
        /\ polls' = [polls EXCEPT ![c] = n]
        /\ Goto(c, IF again THEN "getVolume" ELSE "updateMeta")
        /\ UNCHANGED <<cloud, vmID>>

Creating(c) == status[req[c].vol] = "creating"

\* Variants of the loop: without a bound (the counter starts anew), with one
\* read too many, without a second read.
GetVolumeUnbounded(c) == ReadVolume(c, (polls[c] + 1) % MaxPolls, Creating(c))
GetVolumeOneMore(c)   == ReadVolume(c, polls[c] + 1, Creating(c) /\ polls[c] < MaxPolls)
GetVolumeNoRetry(c)   == ReadVolume(c, polls[c] + 1, FALSE)

\* A volume still "creating" is read again, but the last read counts whatever
\* it shows, and attach never looks at the state.
GetVolume(c) ==
    ReadVolume(c, polls[c] + 1, Creating(c) /\ polls[c] + 1 < MaxPolls)

\* The PV name goes into the metadata of the volume before it is attached, so
\* that detach, which knows the name alone, can find the volume.  The error
\* path after the write is a response that was lost.
UpdateMetadataErrorIgnored(c) ==
    /\ pc[c] = "updateMeta"
    /\ \/ pvMeta' = [pvMeta EXCEPT ![req[c].vol] = req[c].pv]
       \/ pvMeta' = pvMeta
    /\ Goto(c, "novaAttach")
    /\ UNCHANGED <<status, nova, local>>

UpdateVolumeMetadata(c) ==
    /\ pc[c] = "updateMeta"
    /\ status[req[c].vol] # "gone"
    /\ pvMeta' = [pvMeta EXCEPT ![req[c].vol] = req[c].pv]
    /\ \/ Goto(c, "novaAttach") /\ UNCHANGED local
       \/ Return(c, Failed)
    /\ UNCHANGED <<status, nova>>

\* What Nova checks: the server exists, the volume is there, and no attachment
\* stands in the way.  A second attach of the same pair is refused.
Attachable(vm, v) ==
    /\ vm \in VMs
    /\ status[v] = "ready"
    /\ nova[<<vm, v>>] = "none"
    /\ v \notin MultiAttach => \A other \in VMs : nova[<<other, v>>] = "none"

\* A variant that takes any answer of Nova for success.
AttachErrorIgnored(c) ==
    /\ pc[c] = "novaAttach"
    /\ IF Attachable(vmID[c], req[c].vol)
       THEN nova' = [nova EXCEPT ![<<vmID[c], req[c].vol>>] = "attaching"]
       ELSE nova' = nova
    /\ Goto(c, "listServers")
    /\ UNCHANGED <<status, pvMeta, local>>

\* Nova accepts the attachment and works on it after it has answered.
AttachVolumeToVM(c) ==
    /\ pc[c] = "novaAttach"
    /\ Attachable(vmID[c], req[c].vol)
    /\ nova' = [nova EXCEPT ![<<vmID[c], req[c].vol>>] = "attaching"]
    /\ \/ Goto(c, "listServers") /\ UNCHANGED local
       \/ Return(c, Failed)
    /\ UNCHANGED <<status, pvMeta>>

\* The first request of GetVolumeDirectoryName.  CreateVMIPToVMDetailsMap drops
\* its error, so the call goes on whatever comes back.
GetAllOSVMs(c) ==
    /\ pc[c] = "listServers"
    /\ Goto(c, "hypervisors")
    /\ UNCHANGED <<cloud, local>>

\* The second one, and the choice of the rule.  The server is the one listed
\* under the address, which need not be vmID (DriverCall has that lookup): its
\* hypervisor may be any.  The empty path stands for four things the code does
\* not tell apart: the server list failed, the node name did not resolve the
\* second time, the server or its hypervisor is not listed.
GetHypervisors(c) ==
    /\ pc[c] = "hypervisors"
    /\ \/ Return(c, Answer("Success", NoPath, FALSE))
       \/ /\ "kvm" \in Hypervisors
          /\ Return(c, Answer("Success", getDirectoryNameKVM(volume[c].id), FALSE))
       \/ /\ "powervm" \in Hypervisors
          /\ Goto(c, "registration")
          /\ UNCHANGED local
    /\ UNCHANGED cloud

\* The third one, on PowerVM.  A registration that cannot be decoded is only
\* logged and counts as none.
GetStorageHostRegistration(c) ==
    /\ pc[c] = "registration"
    /\ \E host \in {HostOf[volume[c].id], "none"} :
        Return(c, Answer("Success",
                         DirectoryNamePvm(host, volume[c].id, volume[c].wwn), FALSE))
    /\ UNCHANGED cloud

\* The volumes Cinder lists for a PV name.
Matches(pv) == {v \in Volumes : status[v] # "gone" /\ pvMeta[v] = pv}

\* No match and several matches are errors.  detach looks for no WWN.
GetVolumeByMetadataProperty(c) ==
    /\ pc[c] = "lookup"
    /\ \E v \in Volumes :
        /\ Matches(req[c].pv) = {v}
        /\ volume' = [volume EXCEPT ![c] = [id |-> v, status |-> status[v], wwn |-> FALSE]]
    /\ Goto(c, "getVMID")
    /\ UNCHANGED <<cloud, vmID, polls>>

\* A variant that cleans up the name it found the volume by.
DetachWithCleanup(c) ==
    LET v == volume[c].id
    IN  /\ pc[c] = "novaDetach"
        /\ vmID[c] \in VMs
        /\ nova[<<vmID[c], v>>] = "attached"
        /\ nova' = [nova EXCEPT ![<<vmID[c], v>>] = "detaching"]
        /\ pvMeta' = [pvMeta EXCEPT ![v] = NoName]
        /\ Return(c, Answer("Success", NoPath, FALSE))
        /\ UNCHANGED status

\* Nova accepts the removal and answers before it is done.  The metadata stays,
\* for a volume attached elsewhere too.
DetachVolumeFromVM(c) ==
    LET v == volume[c].id
    IN  /\ pc[c] = "novaDetach"
        /\ vmID[c] \in VMs
        /\ nova[<<vmID[c], v>>] = "attached"
        /\ nova' = [nova EXCEPT ![<<vmID[c], v>>] = "detaching"]
        /\ \E answer \in {Answer("Success", NoPath, FALSE), Failed} : Return(c, answer)
        /\ UNCHANGED <<status, pvMeta>>

\* Nova knows no attachment of the pair (a 404), or the request failed: the
\* call answers Success and false for both.
IsVolumeAttached(c) ==
    /\ pc[c] = "novaGet"
    /\ \/ /\ vmID[c] \in VMs
          /\ nova[<<vmID[c], req[c].vol>>] # "none"
          /\ Return(c, Answer("Success", NoPath, TRUE))
       \/ Return(c, Answer("Success", NoPath, FALSE))
    /\ UNCHANGED cloud

\* Every other request that fails, or whose reply the code refuses, ends the
\* call with Failed.
Fail(c) ==
    /\ pc[c] \notin {"idle", "novaGet", "listServers"}
    /\ Return(c, Failed)
    /\ UNCHANGED cloud

\* The process dies without an answer: it is killed, or panics where
\* GetAllOSVMs indexes an empty list.
Die(c) ==
    /\ Running(c)
    /\ Return(c, NoAnswer)
    /\ UNCHANGED cloud

\* Cinder and Nova finish, or undo, what they accepted.
Created(v, s) ==
    /\ status[v] = "creating"
    /\ status' = [status EXCEPT ![v] = s]
    /\ UNCHANGED <<pvMeta, nova, pc, req, local, resp>>

Deleted(v) ==
    /\ status[v] \in {"ready", "error"}
    /\ \A vm \in VMs : nova[<<vm, v>>] = "none"
    /\ status' = [status EXCEPT ![v] = "gone"]
    /\ pvMeta' = [pvMeta EXCEPT ![v] = NoName]
    /\ UNCHANGED <<nova, pc, req, local, resp>>

Settle(vm, v, from, to) ==
    /\ nova[<<vm, v>>] = from
    /\ nova' = [nova EXCEPT ![<<vm, v>>] = to]
    /\ UNCHANGED <<status, pvMeta, pc, req, local, resp>>

Platform ==
    \/ \E v \in Volumes : Created(v, "ready") \/ Created(v, "error") \/ Deleted(v)
    \/ \E vm \in VMs, v \in Volumes :
        \/ Settle(vm, v, "attaching", "attached")
        \/ Settle(vm, v, "attaching", "none")
        \/ Settle(vm, v, "detaching", "none")
        \/ Settle(vm, v, "detaching", "attached")

\* What a running driver process does next.
Step(c) ==
    \/ InitCloud(c)
    \/ GetVMID(c)
    \/ GetVolume(c)
    \/ UpdateVolumeMetadata(c)
    \/ AttachVolumeToVM(c)
    \/ GetAllOSVMs(c)
    \/ GetHypervisors(c)
    \/ GetStorageHostRegistration(c)
    \/ GetVolumeByMetadataProperty(c)
    \/ DetachVolumeFromVM(c)
    \/ IsVolumeAttached(c)
    \/ Fail(c)

Next ==
    \/ \E c \in Calls : Start(c) \/ Step(c) \/ Die(c)
    \/ Platform

Spec == Init /\ [][Next]_vars

-----------------------------------------------------------------------------
\* Every PV name stands for one volume and every volume for one name: what
\* dynamic provisioning gives, one PV and one new volume per claim.
OneToOne ==
    \A a, b \in Bindings : a[1] = b[1] <=> a[2] = b[2]

\* Nothing is attached, or being attached or detached, without a name in its
\* metadata that a flex source gave it: attach writes the name before it asks
\* Nova, and no error path or crash in between undoes that order
\* (main.go:120-133).
AttachmentNamed ==
    /\ \A v \in Volumes : pvMeta[v] # NoName => <<pvMeta[v], v>> \in Bindings
    /\ \A vm \in VMs, v \in Volumes : nova[<<vm, v>>] # "none" => pvMeta[v] # NoName

\* As long as a volume is attached anywhere, looking up any PV name bound to it
\* gives this volume and no other: what the comment at main.go:120-121 needs
\* for detach.  Holds when names and volumes are one to one.
DetachIdentifies ==
    \A vm \in VMs : \A b \in Bindings : nova[<<vm, b[2]>>] # "none" => Matches(b[1]) = {b[2]}

\* The requests of GetVolumeDirectoryName: what attach does once Nova has let it
\* through.
PathLabels == {"listServers", "hypervisors", "registration"}

\* A call that was let through by Nova and goes on to compute the device path
\* has read its volume as ready, or has used up all its reads while Cinder was
\* still creating it: the snapshot is older than the attachment
\* (main.go:115,141, rest_utils.go:178-192).
StaleSnapshotOnlyAfterTimeout ==
    \A c \in Calls : pc[c] \in PathLabels =>
        \/ volume[c].status = "ready"
        \/ volume[c].status = "creating" /\ polls[c] = MaxPolls

\* The path that attach answers, if it answers one, has the id or the WWN of the
\* volume it was asked for.  Only a WWN that no read of the call showed is left
\* out, and Success is answered all the same: then the volume is one that may be
\* ready without it, or Cinder was still creating it at the last read the call
\* may make (main.go:115-150, rest_utils.go:178-192, volume_utils.go:89-131).
PathNamesVolume ==
    [][\A c \in Calls :
        Running(c) /\ resp'[c].status = "Success" /\ resp'[c].device # NoPath =>
            \/ resp'[c].device \in PathsNaming(req[c].vol)
            \/ /\ resp'[c].device.key = NoKey /\ ~volume[c].wwn
               /\ \/ req[c].vol \in WWNLate
                  \/ volume[c].status = "creating" /\ polls[c] = MaxPolls]_vars

\* The requests that a call still makes at most.  attach polls Cinder and makes
\* five more after that.  The pages of a list count as one.
RequestsAfterVMID(op) == IF op = "attach" THEN MaxPolls + 5 ELSE 1

RequestsLeft(c) ==
    CASE pc[c] = "initCloud" ->
            IF req[c].op = "detach" THEN 4 ELSE 2 + RequestsAfterVMID(req[c].op)
      [] pc[c] = "lookup" -> 3
      [] pc[c] = "getVMID" -> 1 + RequestsAfterVMID(req[c].op)
      [] pc[c] = "getVolume" -> 5 + MaxPolls - polls[c]
      [] pc[c] = "updateMeta" -> 5
      [] pc[c] = "novaAttach" -> 4
      [] pc[c] = "listServers" -> 3
      [] pc[c] = "hypervisors" -> 2
      [] pc[c] \in {"registration", "novaDetach", "novaGet"} -> 1
      [] pc[c] = "idle" -> 0

\* Each request brings a call nearer to its end, whatever is answered: a call makes
\* MaxPolls + 7 requests at most (main.go:63-151, 322-360, rest_utils.go:178-192,
\* volume_utils.go:29-82).
RequestsRunOut ==
    [][\A c \in Calls :
        Running(c) /\ (pc'[c] # pc[c] \/ polls'[c] # polls[c]) =>
            RequestsLeft(c)' < RequestsLeft(c)]_vars

\* The promise of AttachService.
Service == INSTANCE AttachService WITH
    applied <- [c \in Calls |-> pc[c] \in PathLabels],
    outcome <- [c \in Calls |-> [status |-> resp[c].status, attached |-> resp[c].attached]]

\* Each call changes at most the attachment it was asked about and answers
\* Success (or attached) only for what it did (or saw) itself, whatever the
\* other calls do meanwhile (main.go:63-151, 322-360).
ImplementsService == Service!Spec
=============================================================================

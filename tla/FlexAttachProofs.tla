-------------------------- MODULE FlexAttachProofs --------------------------
(***************************************************************************)
(* Theorems of FlexAttach: type correctness, the invariants about names    *)
(* and snapshots, and that it implements AttachService.                    *)
(***************************************************************************)
EXTENDS FlexAttach, TLAPS

AttachLabels == {"getVolume", "updateMeta", "novaAttach"} \cup PathLabels

USE DEF AttachLabels, PathLabels

\* What a call knows about itself: its operation is the one its position in
\* the code belongs to.
Position(c) ==
    /\ pc[c] = "idle" => req[c] = NoReq
    /\ pc[c] # "idle" => req[c] \in ValidRequests
    /\ pc[c] \in AttachLabels => req[c].op = "attach"
    /\ pc[c] \in {"lookup", "novaDetach"} => req[c].op = "detach"
    /\ pc[c] = "novaGet" => req[c].op = "isattached"
    /\ pc[c] \in AttachLabels \cup {"novaDetach", "novaGet"} => PortsOf[req[c].node] = {vmID[c]}

\* What it knows about the cloud: the name it has written is still there
\* unless the volume is gone, and the snapshot it has taken is explained.
Knowledge(c) ==
    /\ pc[c] \in {"novaAttach"} \cup PathLabels =>
           pvMeta[req[c].vol] # NoName \/ status[req[c].vol] = "gone"
    /\ pc[c] \in {"getVMID", "novaDetach"} /\ req[c].op = "detach" =>
           <<req[c].pv, volume[c].id>> \in Bindings
    /\ pc[c] \in {"idle", "initCloud", "getVMID", "lookup"} => polls[c] = 0
    /\ pc[c] = "getVolume" => polls[c] < MaxPolls
    /\ pc[c] \in {"updateMeta", "novaAttach"} \cup PathLabels =>
           /\ volume[c].id = req[c].vol
           /\ volume[c].status # "gone"
           /\ volume[c].status = "creating" => polls[c] = MaxPolls
           /\ volume[c].status = "error" => status[req[c].vol] \in {"error", "gone"}
           /\ volume[c].status = "ready" /\ ~volume[c].wwn => req[c].vol \in WWNLate
    /\ pc[c] \in PathLabels => volume[c].status # "error" /\ vmID[c] \in VMs

AttachedIsReady ==
    \A vm \in VMs, v \in Volumes : nova[<<vm, v>>] # "none" => status[v] = "ready"

IInv ==
    /\ TypeOK
    /\ AttachmentNamed
    /\ AttachedIsReady
    /\ \A c \in Calls : Position(c) /\ Knowledge(c)

-----------------------------------------------------------------------------
\* What Kubernetes asks is well formed, and an attach or isattached names a
\* volume of a flex source.
LEMMA RequestFacts ==
    \A r \in ValidRequests :
        /\ r \in Requests
        /\ r # NoReq
        /\ r.node \in Nodes
        /\ r.op \in {"attach", "detach", "isattached"}
        /\ r.op = "attach" => r.vol \in Volumes /\ r.pv \in PVNames /\ <<r.pv, r.vol>> \in Bindings
        /\ r.op = "isattached" => r.vol \in Volumes
BY ConstantsAssumption, PathAssumption, SMT DEF ValidRequests, Requests, Ops, NoReq

\* The records a call starts from and ends with have their types.
LEMMA RecordTypes ==
    /\ NoReq \in Requests
    /\ NoSnapshot \in Snapshots
    /\ NoAnswer \in Answers
    /\ Failed \in Answers
    /\ \A s \in {"none", "Success", "Failed"}, d \in Paths, a \in BOOLEAN :
           Answer(s, d, a) \in Answers
    /\ NoPath \in Paths
    /\ \A v \in Volumes : getDirectoryNameKVM(v) \in Paths
    /\ \A k \in HostTypes, v \in Volumes, w \in BOOLEAN : DirectoryNamePvm(k, v, w) \in Paths
<1>1. /\ NoReq \in Requests
      /\ NoSnapshot \in Snapshots
  BY DEF NoReq, Requests, Ops, NoSnapshot, Snapshots, Statuses
<1>2. NoPath \in Paths
  BY DEF NoPath, Path, Paths, PathKinds, Keys
<1>3. \A s \in {"none", "Success", "Failed"}, d \in Paths, a \in BOOLEAN :
          Answer(s, d, a) \in Answers
  BY DEF Answer, Answers
<1>4. NoAnswer \in Answers /\ Failed \in Answers
  BY <1>2, <1>3 DEF NoAnswer, Failed
<1>5. \A v \in Volumes : IdHead[v] \in Keys /\ IdDigits[v] \in Keys /\ WWN[v] \in Keys
  BY DEF Keys
<1>6. \A v \in Volumes : getDirectoryNameKVM(v) \in Paths
  BY <1>5 DEF getDirectoryNameKVM, Path, Paths, PathKinds
<1>7. \A k \in HostTypes, v \in Volumes, w \in BOOLEAN : DirectoryNamePvm(k, v, w) \in Paths
  <2>1. NoKey \in Keys
    BY DEF Keys
  <2> QED
    BY <1>5, <2>1
       DEF DirectoryNamePvm, HostTypes, Path, Paths, PathKinds, getDirectoryNamePvmLIO,
           getDirectoryNamePvmXiv, getDirectoryNameForPhyp
<1> QED
  BY <1>1, <1>2, <1>3, <1>4, <1>6, <1>7

\* Ending a call keeps the types of everything it resets.
LEMMA ReturnTypes ==
    ASSUME TypeOK, NEW c \in Calls, NEW a \in Answers, Return(c, a)
    PROVE  /\ pc' \in [Calls -> Labels]
           /\ req' \in [Calls -> Requests]
           /\ vmID' \in [Calls -> VMs \cup {NoVM}]
           /\ volume' \in [Calls -> Snapshots]
           /\ polls' \in [Calls -> 0 .. MaxPolls]
           /\ resp' \in [Calls -> Answers]
BY RecordTypes, ConstantsAssumption DEF TypeOK, Return, Labels

\* The volume an attach or isattached works on is a volume.
LEMMA CallVolume ==
    ASSUME NEW c \in Calls, Position(c)
    PROVE  /\ pc[c] \in AttachLabels =>
                /\ req[c].vol \in Volumes
                /\ req[c].pv \in PVNames
                /\ <<req[c].pv, req[c].vol>> \in Bindings
           /\ pc[c] = "novaGet" => req[c].vol \in Volumes
BY RequestFacts DEF Position

\* The steps that end a call with some answer, or go on to the next request of
\* the path, and leave the cloud alone.
QuietStep(c) ==
    \/ GetAllOSVMs(c) \/ GetHypervisors(c) \/ GetStorageHostRegistration(c)
    \/ IsVolumeAttached(c) \/ Fail(c) \/ Die(c)

QuietMove(c) ==
    /\ \/ pc[c] = "listServers" /\ Goto(c, "hypervisors")
       \/ pc[c] = "hypervisors" /\ Goto(c, "registration")
    /\ UNCHANGED <<cloud, local>>

LEMMA QuietSteps ==
    ASSUME IInv, NEW c \in Calls, QuietStep(c)
    PROVE  \/ \E a \in Answers : Return(c, a) /\ UNCHANGED cloud
           \/ QuietMove(c)
<1> USE ConstantsAssumption, RecordTypes
<1>1. CASE GetAllOSVMs(c)
  BY <1>1 DEF GetAllOSVMs, QuietMove
<1>2. CASE GetHypervisors(c)
  <2>1. volume[c].id \in Volumes
    BY <1>2, CallVolume DEF IInv, Knowledge, GetHypervisors
  <2>2. CASE Return(c, Answer("Success", NoPath, FALSE))
    BY <1>2, <2>2 DEF GetHypervisors
  <2>3. CASE Return(c, Answer("Success", getDirectoryNameKVM(volume[c].id), FALSE))
    BY <1>2, <2>1, <2>3 DEF GetHypervisors
  <2>4. CASE Goto(c, "registration") /\ UNCHANGED local
    BY <1>2, <2>4 DEF GetHypervisors, QuietMove
  <2> QED
    BY <1>2, <2>2, <2>3, <2>4 DEF GetHypervisors
<1>3. CASE GetStorageHostRegistration(c)
  <2>1. volume[c].id \in Volumes
    BY <1>3, CallVolume DEF IInv, Knowledge, GetStorageHostRegistration
  <2>2. volume[c].wwn \in BOOLEAN
    BY DEF IInv, TypeOK, Snapshots
  <2>3. {HostOf[volume[c].id], "none"} \subseteq HostTypes
    BY <2>1 DEF HostTypes
  <2> QED
    BY <1>3, <2>1, <2>2, <2>3 DEF GetStorageHostRegistration
<1>4. CASE IsVolumeAttached(c)
  BY <1>4 DEF IsVolumeAttached
<1>5. CASE Fail(c)
  BY <1>5 DEF Fail
<1>6. CASE Die(c)
  BY <1>6 DEF Die
<1> QED
  BY <1>1, <1>2, <1>3, <1>4, <1>5, <1>6 DEF QuietStep

\* Every step keeps the types.
LEMMA TypeStep ==
    ASSUME IInv, [Next]_vars
    PROVE  TypeOK'
<1> USE ConstantsAssumption, PathAssumption
<1>1. TypeOK
  BY DEF IInv
<1>2. ASSUME NEW c \in Calls, Start(c)
      PROVE  TypeOK'
  BY <1>1, <1>2, RequestFacts, RecordTypes DEF TypeOK, Start, cloud, local, Labels
<1>3. ASSUME NEW c \in Calls, InitCloud(c)
      PROVE  TypeOK'
  BY <1>1, <1>3 DEF TypeOK, InitCloud, Goto, cloud, local, Labels
<1>4. ASSUME NEW c \in Calls, GetVMID(c)
      PROVE  TypeOK'
  <2>1. req[c].op \in {"attach", "detach", "isattached"} /\ req[c].node \in Nodes
    BY <1>4, RequestFacts DEF IInv, Position, GetVMID
  <2>2. AfterVMID(req[c].op) \in Labels
    BY <2>1 DEF AfterVMID, Labels
  <2> QED
    BY <1>1, <1>4, <2>1, <2>2 DEF TypeOK, GetVMID, Goto, cloud
<1>5. ASSUME NEW c \in Calls, GetVolume(c)
      PROVE  TypeOK'
  <2>1. req[c].vol \in Volumes /\ polls[c] < MaxPolls
    BY <1>5, CallVolume DEF IInv, Knowledge, GetVolume, ReadVolume
  <2>2. polls[c] + 1 \in 0 .. MaxPolls
    BY <1>1, <2>1 DEF TypeOK
  <2>3. \A w \in BOOLEAN :
            [id |-> req[c].vol, status |-> status[req[c].vol], wwn |-> volume[c].wwn \/ w]
                \in Snapshots
    BY <1>1, <2>1 DEF TypeOK, Snapshots
  <2>4. WWNShown(req[c].vol) \subseteq BOOLEAN
    BY DEF WWNShown
  <2>5. volume' \in [Calls -> Snapshots]
    BY <1>1, <1>5, <2>3, <2>4 DEF TypeOK, GetVolume, ReadVolume
  <2> QED
    BY <1>1, <1>5, <2>1, <2>2, <2>5 DEF TypeOK, GetVolume, ReadVolume, Goto, cloud, Labels
<1>6. ASSUME NEW c \in Calls, UpdateVolumeMetadata(c)
      PROVE  TypeOK'
  <2>1. req[c].vol \in Volumes /\ req[c].pv \in PVNames
    BY <1>6, CallVolume DEF IInv, UpdateVolumeMetadata
  <2>2. CASE Goto(c, "novaAttach") /\ UNCHANGED local
    BY <1>1, <1>6, <2>1, <2>2 DEF TypeOK, UpdateVolumeMetadata, Goto, local, Labels
  <2>3. CASE Return(c, Failed)
    BY <1>1, <1>6, <2>1, <2>3, ReturnTypes, RecordTypes DEF TypeOK, UpdateVolumeMetadata
  <2> QED
    BY <1>6, <2>2, <2>3 DEF UpdateVolumeMetadata
<1>7. ASSUME NEW c \in Calls, AttachVolumeToVM(c)
      PROVE  TypeOK'
  <2>1. nova' \in [VMs \X Volumes -> Attachments]
    BY <1>1, <1>7 DEF TypeOK, AttachVolumeToVM, Attachments
  <2>2. CASE Goto(c, "listServers") /\ UNCHANGED local
    BY <1>1, <1>7, <2>1, <2>2 DEF TypeOK, AttachVolumeToVM, Goto, local, Labels
  <2>3. CASE Return(c, Failed)
    BY <1>1, <1>7, <2>1, <2>3, ReturnTypes, RecordTypes DEF TypeOK, AttachVolumeToVM
  <2> QED
    BY <1>7, <2>2, <2>3 DEF AttachVolumeToVM
<1>8. ASSUME NEW c \in Calls, NEW a \in Answers, Return(c, a), UNCHANGED cloud
      PROVE  TypeOK'
  BY <1>1, <1>8, ReturnTypes DEF TypeOK, cloud
<1>9. ASSUME NEW c \in Calls, GetVolumeByMetadataProperty(c)
      PROVE  TypeOK'
  BY <1>1, <1>9 DEF TypeOK, GetVolumeByMetadataProperty, Goto, cloud, Labels, Snapshots
<1>10. ASSUME NEW c \in Calls, DetachVolumeFromVM(c)
       PROVE  TypeOK'
  <2>1. nova' \in [VMs \X Volumes -> Attachments]
    BY <1>1, <1>10 DEF TypeOK, DetachVolumeFromVM, Attachments
  <2>2. PICK a \in Answers : Return(c, a)
    BY <1>10, RecordTypes DEF DetachVolumeFromVM
  <2> QED
    BY <1>1, <1>10, <2>1, <2>2, ReturnTypes DEF TypeOK, DetachVolumeFromVM
<1>11. ASSUME Platform
       PROVE  TypeOK'
  <2>1. ASSUME NEW v \in Volumes, NEW s \in {"ready", "error"}, Created(v, s)
        PROVE  TypeOK'
    BY <1>1, <2>1 DEF TypeOK, Created, local, Statuses
  <2>2. ASSUME NEW v \in Volumes, Deleted(v)
        PROVE  TypeOK'
    BY <1>1, <2>2 DEF TypeOK, Deleted, local, Statuses
  <2>3. ASSUME NEW vm \in VMs, NEW v \in Volumes, NEW from \in Attachments,
               NEW to \in Attachments, Settle(vm, v, from, to)
        PROVE  TypeOK'
    BY <1>1, <2>3 DEF TypeOK, Settle, local
  <2> QED
    BY <1>11, <2>1, <2>2, <2>3 DEF Platform, Attachments
<1>12. ASSUME NEW c \in Calls, QuietStep(c)
       PROVE  TypeOK'
  <2>1. CASE QuietMove(c)
    BY <1>1, <2>1 DEF TypeOK, QuietMove, Goto, cloud, local, Labels
  <2> QED
    BY <1>8, <1>12, <2>1, QuietSteps
<1>13. ASSUME UNCHANGED vars
       PROVE  TypeOK'
  BY <1>1, <1>13 DEF TypeOK, vars
<1> QED
  BY <1>2, <1>3, <1>4, <1>5, <1>6, <1>7, <1>9, <1>10, <1>11, <1>12, <1>13
     DEF Next, Step, QuietStep

\* Every step keeps each call's position in the code consistent with its
\* request.
LEMMA PositionStep ==
    ASSUME IInv, [Next]_vars, NEW d \in Calls
    PROVE  Position(d)'
<1> USE ConstantsAssumption, PathAssumption
<1>1. TypeOK /\ Position(d)
  BY DEF IInv
<1>2. ASSUME NEW c \in Calls, Start(c)
      PROVE  Position(d)'
  BY <1>1, <1>2, RequestFacts DEF TypeOK, Position, Start, local, NoReq
<1>3. ASSUME NEW c \in Calls, InitCloud(c)
      PROVE  Position(d)'
  BY <1>1, <1>3 DEF TypeOK, Position, InitCloud, Goto, local
<1>4. ASSUME NEW c \in Calls, GetVMID(c)
      PROVE  Position(d)'
  <2>1. Position(c) /\ req[c].op \in {"attach", "detach", "isattached"} /\ pc[c] # "idle"
    BY <1>4, RequestFacts DEF IInv, Position, GetVMID
  <2>2. PortsOf[req[c].node] = {vmID'[c]} /\ req' = req
    BY <1>1, <1>4 DEF TypeOK, GetVMID, Goto
  <2> QED
    BY <1>1, <1>4, <2>1, <2>2 DEF TypeOK, Position, GetVMID, AfterVMID, Goto
<1>5. ASSUME NEW c \in Calls, GetVolume(c)
      PROVE  Position(d)'
  BY <1>1, <1>5 DEF TypeOK, Position, GetVolume, ReadVolume, Goto
<1>6. ASSUME NEW c \in Calls, NEW a, Return(c, a)
      PROVE  Position(d)'
  BY <1>1, <1>6 DEF TypeOK, Position, Return
<1>7. ASSUME NEW c \in Calls, UpdateVolumeMetadata(c)
      PROVE  Position(d)'
  <2>1. CASE Goto(c, "novaAttach") /\ UNCHANGED local
    BY <1>1, <1>7, <2>1 DEF TypeOK, Position, UpdateVolumeMetadata, Goto, local
  <2> QED
    BY <1>6, <1>7, <2>1 DEF UpdateVolumeMetadata
<1>8. ASSUME NEW c \in Calls, AttachVolumeToVM(c)
      PROVE  Position(d)'
  <2>1. CASE Goto(c, "listServers") /\ UNCHANGED local
    BY <1>1, <1>8, <2>1 DEF TypeOK, Position, AttachVolumeToVM, Goto, local
  <2> QED
    BY <1>6, <1>8, <2>1 DEF AttachVolumeToVM
<1>9. ASSUME NEW c \in Calls, GetVolumeByMetadataProperty(c)
      PROVE  Position(d)'
  BY <1>1, <1>9 DEF TypeOK, Position, GetVolumeByMetadataProperty, Goto
<1>10. ASSUME NEW c \in Calls, DetachVolumeFromVM(c) \/ QuietStep(c)
       PROVE  Position(d)'
  <2>1. CASE QuietMove(c)
    BY <1>1, <2>1 DEF TypeOK, Position, QuietMove, Goto, local
  <2> QED
    BY <1>6, <1>10, <2>1, QuietSteps DEF DetachVolumeFromVM
<1>11. ASSUME Platform \/ UNCHANGED vars
       PROVE  Position(d)'
  BY <1>1, <1>11 DEF Position, Platform, Created, Deleted, Settle, vars, local
<1> QED
  BY <1>2, <1>3, <1>4, <1>5, <1>7, <1>8, <1>9, <1>10, <1>11 DEF Next, Step, QuietStep

\* Every step keeps what each call relies on: no other call and nothing the
\* platform does takes a written name back or makes a failed volume ready.
LEMMA KnowledgeStep ==
    ASSUME IInv, [Next]_vars, NEW d \in Calls
    PROVE  Knowledge(d)'
<1> USE ConstantsAssumption, PathAssumption
<1>1. TypeOK /\ Position(d) /\ Knowledge(d) /\ AttachmentNamed /\ AttachedIsReady
  BY DEF IInv
<1>2. ASSUME NEW c \in Calls, Start(c)
      PROVE  Knowledge(d)'
  BY <1>1, <1>2 DEF TypeOK, Position, Knowledge, Start, Running, cloud, local
<1>3. ASSUME NEW c \in Calls, InitCloud(c)
      PROVE  Knowledge(d)'
  BY <1>1, <1>3 DEF TypeOK, Knowledge, InitCloud, Goto, cloud, local
<1>4. ASSUME NEW c \in Calls, GetVMID(c)
      PROVE  Knowledge(d)'
  <2>1. req[c].op \in {"attach", "detach", "isattached"}
    BY <1>4, RequestFacts DEF IInv, Position, GetVMID
  <2> QED
    BY <1>1, <1>4, <2>1 DEF TypeOK, Knowledge, GetVMID, AfterVMID, Goto, cloud
<1>5. ASSUME NEW c \in Calls, GetVolume(c)
      PROVE  Knowledge(d)'
  <2>1. req[c].vol \in Volumes /\ req[c].op = "attach" /\ polls[c] < MaxPolls
    BY <1>5, CallVolume DEF IInv, Position, Knowledge, GetVolume, ReadVolume
  <2>2. CASE d # c
    BY <1>1, <1>5, <2>2 DEF TypeOK, Knowledge, GetVolume, ReadVolume, Goto, cloud
  <2>3. CASE d = c
    <3>0. PICK shown \in WWNShown(req[c].vol) :
              volume'[c] = [id |-> req[c].vol, status |-> status[req[c].vol],
                            wwn |-> volume[c].wwn \/ shown]
      BY <1>1, <1>5 DEF TypeOK, GetVolume, ReadVolume
    <3>4. status[req[c].vol] = "ready" /\ req[c].vol \notin WWNLate => volume'[c].wwn
      <4> SUFFICES ASSUME status[req[c].vol] = "ready", req[c].vol \notin WWNLate
                   PROVE  volume'[c].wwn
        OBVIOUS
      <4>1. shown = TRUE
        BY DEF WWNShown
      <4>2. volume'[c].wwn = (volume[c].wwn \/ shown)
        BY <3>0
      <4> QED
        BY <4>1, <4>2, Zenon
    <3>1. /\ volume'[c].id = req[c].vol
          /\ volume'[c].status = status[req[c].vol]
          /\ status' = status /\ pvMeta' = pvMeta /\ req' = req
          /\ polls'[c] = polls[c] + 1
          /\ status[req[c].vol] # "gone"
      BY <1>1, <1>5, <3>0 DEF TypeOK, GetVolume, ReadVolume, Goto, cloud
    <3>2. \/ pc'[c] = "getVolume" /\ polls[c] + 1 < MaxPolls
          \/ /\ pc'[c] = "updateMeta"
             /\ status[req[c].vol] = "creating" => ~(polls[c] + 1 < MaxPolls)
      BY <1>1, <1>5 DEF TypeOK, GetVolume, ReadVolume, Creating, Goto
    <3>3. polls[c] \in 0 .. MaxPolls
      BY <1>1 DEF TypeOK
    <3> QED
      BY <2>1, <2>3, <3>1, <3>2, <3>3, <3>4 DEF Knowledge
  <2> QED
    BY <2>2, <2>3
<1>6. ASSUME NEW c \in Calls, NEW a, Return(c, a), UNCHANGED <<status, pvMeta>>
      PROVE  Knowledge(d)'
  BY <1>1, <1>6 DEF TypeOK, Knowledge, Return
<1>7. ASSUME NEW c \in Calls, UpdateVolumeMetadata(c)
      PROVE  Knowledge(d)'
  <2>1. req[c].vol \in Volumes /\ req[c].pv \in PVNames /\ req[c].op = "attach"
    BY <1>7, CallVolume DEF IInv, Position, UpdateVolumeMetadata
  <2>2. CASE Goto(c, "novaAttach") /\ UNCHANGED local
    BY <1>1, <1>7, <2>1, <2>2 DEF TypeOK, Knowledge, UpdateVolumeMetadata, Goto, local
  <2>3. CASE Return(c, Failed)
    BY <1>1, <1>7, <2>1, <2>3 DEF TypeOK, Knowledge, UpdateVolumeMetadata, Return
  <2> QED
    BY <1>7, <2>2, <2>3 DEF UpdateVolumeMetadata
<1>8. ASSUME NEW c \in Calls, AttachVolumeToVM(c)
      PROVE  Knowledge(d)'
  <2>1. CASE Goto(c, "listServers") /\ UNCHANGED local
    <3>1. req[c].op = "attach" /\ Knowledge(c)
      BY <1>8 DEF IInv, Position, AttachVolumeToVM
    <3> QED
      BY <1>1, <1>8, <2>1, <3>1 DEF TypeOK, Knowledge, AttachVolumeToVM, Attachable, Goto, local
  <2> QED
    BY <1>6, <1>8, <2>1 DEF AttachVolumeToVM
<1>9. ASSUME NEW c \in Calls, GetVolumeByMetadataProperty(c)
      PROVE  Knowledge(d)'
  <2>1. PICK v \in Volumes :
            /\ Matches(req[c].pv) = {v}
            /\ volume' = [volume EXCEPT ![c] =
                   [id |-> v, status |-> status[v], wwn |-> FALSE]]
    BY <1>9 DEF GetVolumeByMetadataProperty
  <2>2. pvMeta[v] = req[c].pv
    BY <2>1 DEF Matches
  <2>3. <<req[c].pv, v>> \in Bindings
    <3>1. req[c] \in ValidRequests /\ req[c].op = "detach"
      BY <1>9 DEF IInv, Position, GetVolumeByMetadataProperty
    <3>2. req[c].pv \in PVNames
      BY <3>1 DEF ValidRequests
    <3> QED
      BY <1>1, <2>1, <2>2, <3>2 DEF AttachmentNamed
  <2> QED
    BY <1>1, <1>9, <2>1, <2>3 DEF TypeOK, Knowledge, GetVolumeByMetadataProperty, Goto, cloud
<1>10. ASSUME NEW c \in Calls, DetachVolumeFromVM(c) \/ QuietStep(c)
       PROVE  Knowledge(d)'
  <2>1. CASE QuietMove(c)
    BY <1>1, <2>1 DEF TypeOK, Knowledge, QuietMove, Goto, cloud, local
  <2> QED
    BY <1>6, <1>10, <2>1, QuietSteps DEF DetachVolumeFromVM, cloud
<1>11. ASSUME Platform
       PROVE  Knowledge(d)'
  <2>1. ASSUME NEW v \in Volumes, NEW s \in {"ready", "error"}, Created(v, s)
        PROVE  Knowledge(d)'
    BY <1>1, <2>1, CallVolume DEF TypeOK, Knowledge, Created, local
  <2>2. ASSUME NEW v \in Volumes, Deleted(v)
        PROVE  Knowledge(d)'
    BY <1>1, <2>2, CallVolume DEF TypeOK, Knowledge, Deleted, local
  <2>3. ASSUME NEW vm \in VMs, NEW v \in Volumes, NEW from, NEW to, Settle(vm, v, from, to)
        PROVE  Knowledge(d)'
    BY <1>1, <2>3 DEF Knowledge, Settle, local
  <2> QED
    BY <1>11, <2>1, <2>2, <2>3 DEF Platform
<1>12. ASSUME UNCHANGED vars
       PROVE  Knowledge(d)'
  BY <1>1, <1>12 DEF Knowledge, vars
<1> QED
  BY <1>2, <1>3, <1>4, <1>5, <1>7, <1>8, <1>9, <1>10, <1>11, <1>12 DEF Next, Step, QuietStep

\* Every step keeps attachments named and their volumes ready.
LEMMA NamesStep ==
    ASSUME IInv, [Next]_vars
    PROVE  AttachmentNamed' /\ AttachedIsReady'
<1> USE ConstantsAssumption, PathAssumption
<1>1. TypeOK /\ AttachmentNamed /\ AttachedIsReady
  BY DEF IInv
<1>2. ASSUME UNCHANGED cloud
      PROVE  AttachmentNamed' /\ AttachedIsReady'
  BY <1>1, <1>2 DEF AttachmentNamed, AttachedIsReady, cloud
<1>3. ASSUME NEW c \in Calls, UpdateVolumeMetadata(c)
      PROVE  AttachmentNamed' /\ AttachedIsReady'
  <2>1. /\ req[c].vol \in Volumes
        /\ req[c].pv \in PVNames
        /\ <<req[c].pv, req[c].vol>> \in Bindings
    BY <1>3, CallVolume DEF IInv, UpdateVolumeMetadata
  <2> QED
    BY <1>1, <1>3, <2>1 DEF TypeOK, AttachmentNamed, AttachedIsReady, UpdateVolumeMetadata
<1>4. ASSUME NEW c \in Calls, AttachVolumeToVM(c)
      PROVE  AttachmentNamed' /\ AttachedIsReady'
  <2>1. req[c].vol \in Volumes /\ pvMeta[req[c].vol] # NoName
    BY <1>4, CallVolume DEF IInv, Knowledge, AttachVolumeToVM, Attachable
  <2> QED
    BY <1>1, <1>4, <2>1
       DEF TypeOK, AttachmentNamed, AttachedIsReady, AttachVolumeToVM, Attachable
<1>5. ASSUME NEW c \in Calls, DetachVolumeFromVM(c)
      PROVE  AttachmentNamed' /\ AttachedIsReady'
  BY <1>1, <1>5 DEF TypeOK, AttachmentNamed, AttachedIsReady, DetachVolumeFromVM
<1>6. ASSUME Platform
      PROVE  AttachmentNamed' /\ AttachedIsReady'
  <2>1. ASSUME NEW v \in Volumes, NEW s \in {"ready", "error"}, Created(v, s)
        PROVE  AttachmentNamed' /\ AttachedIsReady'
    BY <1>1, <2>1 DEF TypeOK, AttachmentNamed, AttachedIsReady, Created
  <2>2. ASSUME NEW v \in Volumes, Deleted(v)
        PROVE  AttachmentNamed' /\ AttachedIsReady'
    BY <1>1, <2>2 DEF TypeOK, AttachmentNamed, AttachedIsReady, Deleted
  <2>3. ASSUME NEW vm \in VMs, NEW v \in Volumes, NEW from \in {"attaching", "detaching"},
               NEW to, Settle(vm, v, from, to)
        PROVE  AttachmentNamed' /\ AttachedIsReady'
    BY <1>1, <2>3 DEF TypeOK, AttachmentNamed, AttachedIsReady, Settle
  <2> QED
    BY <1>6, <2>1, <2>2, <2>3 DEF Platform
<1>7. ASSUME NEW c \in Calls, QuietStep(c)
      PROVE  AttachmentNamed' /\ AttachedIsReady'
  BY <1>2, <1>7, QuietSteps DEF QuietMove, cloud
<1> QED
  BY <1>2, <1>3, <1>4, <1>5, <1>6, <1>7
     DEF Next, Step, QuietStep, Start, InitCloud, GetVMID, GetVolume, ReadVolume,
         GetVolumeByMetadataProperty, cloud, vars

-----------------------------------------------------------------------------
\* The inductive invariant holds in every reachable state, whatever the sets of
\* calls, nodes, servers, volumes, names and flex sources.
THEOREM InductiveInvariant == Spec => []IInv
<1>1. Init => IInv
  <2> SUFFICES ASSUME Init PROVE IInv
    OBVIOUS
  <2>1. TypeOK
    BY RecordTypes, ConstantsAssumption
       DEF Init, TypeOK, Statuses, Attachments, Labels
  <2> QED
    BY <2>1 DEF Init, IInv, AttachmentNamed, AttachedIsReady, Position, Knowledge
<1>2. IInv /\ [Next]_vars => IInv'
  BY TypeStep, PositionStep, KnowledgeStep, NamesStep DEF IInv
<1> QED
  BY <1>1, <1>2, PTL DEF Spec

\* Every variable keeps its type.
THEOREM TypeCorrect == Spec => []TypeOK
<1>1. IInv => TypeOK
  BY DEF IInv
<1> QED
  BY <1>1, InductiveInvariant, PTL

\* Whatever is attached was named first, over every interleaving of calls,
\* failures and deaths (main.go:120-133).
THEOREM AttachmentsAreNamed == Spec => []AttachmentNamed
<1>1. IInv => AttachmentNamed
  BY DEF IInv
<1> QED
  BY <1>1, InductiveInvariant, PTL

\* If flex sources pair names and volumes one to one, the metadata lookup of
\* detach finds exactly the attached volume (main.go:330, rest_utils.go:250-289).
THEOREM DetachFindsItsVolume == OneToOne => (Spec => []DetachIdentifies)
<1> SUFFICES ASSUME OneToOne
             PROVE  Spec => []DetachIdentifies
  OBVIOUS
<1>1. IInv => DetachIdentifies
  <2>0. SUFFICES ASSUME IInv
                 PROVE  DetachIdentifies
    OBVIOUS
  <2> SUFFICES ASSUME NEW vm \in VMs, NEW b \in Bindings, nova[<<vm, b[2]>>] # "none"
               PROVE  Matches(b[1]) = {b[2]}
    BY DEF DetachIdentifies
  <2>1. b[1] \in PVNames /\ b[2] \in Volumes /\ b = <<b[1], b[2]>>
    BY ConstantsAssumption
  <2>2. /\ status[b[2]] = "ready"
        /\ pvMeta[b[2]] # NoName
        /\ <<pvMeta[b[2]], b[2]>> \in Bindings
    BY <2>0, <2>1 DEF IInv, AttachmentNamed, AttachedIsReady
  <2>3. pvMeta[b[2]] = b[1]
    BY <2>2 DEF OneToOne
  <2>4. ASSUME NEW v \in Volumes, pvMeta[v] = b[1]
        PROVE  v = b[2]
    <3>1. <<b[1], v>> \in Bindings
      BY <2>0, <2>1, <2>4, ConstantsAssumption DEF IInv, AttachmentNamed
    <3> QED
      BY <3>1 DEF OneToOne
  <2> QED
    BY <2>1, <2>2, <2>3, <2>4 DEF Matches
<1> QED
  BY <1>1, InductiveInvariant, PTL

\* The path an attach computes comes from a volume that was read as ready, or
\* from the last read of one that was still being created (rest_utils.go:178-192).
THEOREM SnapshotsAreExplained == Spec => []StaleSnapshotOnlyAfterTimeout
<1>1. IInv => StaleSnapshotOnlyAfterTimeout
  BY DEF IInv, TypeOK, Knowledge, StaleSnapshotOnlyAfterTimeout, Snapshots, Statuses
<1> QED
  BY <1>1, InductiveInvariant, PTL

-----------------------------------------------------------------------------
\* The two state functions AttachService sees in place of variables.
Applied == [c \in Calls |-> pc[c] \in PathLabels]
OutcomeOf == [c \in Calls |-> [status |-> resp[c].status, attached |-> resp[c].attached]]

\* A step that neither ends a call nor moves it in or out of the path labels
\* is invisible to the service.
LEMMA Invisible ==
    ASSUME NEW c \in Calls, NEW label, TypeOK, Goto(c, label),
           pc[c] \in PathLabels <=> label \in PathLabels
    PROVE  Applied' = Applied /\ OutcomeOf' = OutcomeOf
BY DEF TypeOK, Goto, Applied, OutcomeOf

\* Ending a call is Finish with the two fields of the answer the service knows.
LEMMA ReturnFinishes ==
    ASSUME NEW c \in Calls, NEW a \in Answers, TypeOK, Return(c, a)
    PROVE  Service!Finish(c, [status |-> a.status, attached |-> a.attached])
<1>1. Applied' = [Applied EXCEPT ![c] = FALSE]
  <2>1. Applied \in [Calls -> BOOLEAN] /\ Applied' \in [Calls -> BOOLEAN]
    BY DEF Applied
  <2>2. ASSUME NEW d \in Calls
        PROVE  Applied'[d] <=> (d # c /\ Applied[d])
    <3>1. pc'[d] = IF d = c THEN "idle" ELSE pc[d]
      BY DEF TypeOK, Return
    <3>2. Applied'[d] <=> pc'[d] \in PathLabels
      BY Zenon DEF Applied
    <3>3. Applied[d] <=> pc[d] \in PathLabels
      BY Zenon DEF Applied
    <3> QED
      BY <3>1, <3>2, <3>3
  <2> QED
    BY <2>1, <2>2
<1>2. OutcomeOf' = [OutcomeOf EXCEPT ![c] = [status |-> a.status, attached |-> a.attached]]
  BY DEF TypeOK, Return, OutcomeOf
<1> QED
  BY <1>1, <1>2 DEF Return, Service!Finish, Applied, OutcomeOf

\* Every step of the driver is a step of the service or leaves it alone.
LEMMA ServiceStep ==
    ASSUME IInv, [Next]_vars
    PROVE  [Service!Next]_Service!vars
<1> USE ConstantsAssumption, PathAssumption
<1> DEFINE Same == UNCHANGED <<nova, req, Applied, OutcomeOf>>
<1>0. Same => UNCHANGED Service!vars
  BY DEF Service!vars, Applied, OutcomeOf
<1>1. TypeOK /\ \A c \in Calls : Position(c) /\ Knowledge(c)
  BY DEF IInv
<1>2. ASSUME NEW c \in Calls, Start(c)
      PROVE  Service!Begin(c)
  <2>1. Applied' = Applied
    BY <1>1, <1>2 DEF TypeOK, Start, Running, Applied
  <2>2. OutcomeOf' = [OutcomeOf EXCEPT ![c] = [status |-> "none", attached |-> FALSE]]
    BY <1>1, <1>2 DEF TypeOK, Start, OutcomeOf, NoAnswer, Answer
  <2> QED
    BY <1>1, <1>2, <2>1, <2>2
       DEF Start, Running, Position, Service!Begin, Service!Outcome, Applied, OutcomeOf, cloud
<1>3. ASSUME NEW c \in Calls,
             InitCloud(c) \/ GetVMID(c) \/ GetVolume(c) \/ GetVolumeByMetadataProperty(c)
      PROVE  Same
  <2>1. PICK label : Goto(c, label) /\ label \notin PathLabels
    <3>1. CASE InitCloud(c)
      BY <3>1 DEF InitCloud
    <3>2. CASE GetVMID(c)
      <4>1. req[c].op \in {"attach", "detach", "isattached"}
        BY <1>1, <3>2, RequestFacts DEF Position, GetVMID
      <4> QED
        BY <3>2, <4>1 DEF GetVMID, AfterVMID
    <3>3. CASE GetVolume(c)
      BY <3>3 DEF GetVolume, ReadVolume
    <3>4. CASE GetVolumeByMetadataProperty(c)
      BY <3>4 DEF GetVolumeByMetadataProperty
    <3> QED
      BY <1>3, <3>1, <3>2, <3>3, <3>4
  <2>2. pc[c] \notin PathLabels /\ nova' = nova /\ req' = req
    BY <1>3, <2>1 DEF InitCloud, GetVMID, GetVolume, ReadVolume,
                      GetVolumeByMetadataProperty, Goto, cloud
  <2> QED
    BY <1>1, <2>1, <2>2, Invisible
<1>4. ASSUME NEW c \in Calls, NEW a \in Answers, Return(c, a), nova' = nova,
             pc[c] # "idle", a.status \in {"none", "Failed"}, a.attached = FALSE
      PROVE  Service!GiveUp(c)
  <2>1. req[c] # NoReq
    BY <1>1, <1>4, RequestFacts DEF Position
  <2> QED
    BY <1>1, <1>4, <2>1, ReturnFinishes DEF Service!GiveUp, Service!Outcome
<1>5. Failed \in Answers /\ NoAnswer \in Answers
  BY RecordTypes
<1>6. ASSUME NEW c \in Calls, UpdateVolumeMetadata(c)
      PROVE  Same \/ Service!GiveUp(c)
  <2>1. CASE Goto(c, "novaAttach") /\ UNCHANGED local
    BY <1>1, <1>6, <2>1, Invisible DEF UpdateVolumeMetadata, Goto
  <2>2. CASE Return(c, Failed)
    BY <1>4, <1>5, <1>6, <2>2 DEF UpdateVolumeMetadata, Failed, Answer
  <2> QED
    BY <1>6, <2>1, <2>2 DEF UpdateVolumeMetadata
<1>7. ASSUME NEW c \in Calls, AttachVolumeToVM(c)
      PROVE  Service!Attach(c)
  <2>1. /\ req[c].op = "attach"
        /\ PortsOf[req[c].node] = {vmID[c]}
        /\ ~Applied[c]
    BY <1>1, <1>7 DEF Position, AttachVolumeToVM, Applied
  <2>2. CASE Goto(c, "listServers") /\ UNCHANGED local
    <3>1. Applied' = [Applied EXCEPT ![c] = TRUE] /\ OutcomeOf' = OutcomeOf
      BY <1>1, <2>2 DEF TypeOK, Goto, Applied, OutcomeOf
    <3> QED
      BY <1>7, <2>1, <2>2, <3>1
         DEF AttachVolumeToVM, Attachable, Goto, Service!Attach, Service!ServersOf, Applied, OutcomeOf
  <2>3. CASE Return(c, Failed)
    <3>1. Service!Finish(c, Service!Outcome("Failed", FALSE))
      BY <1>1, <1>5, <2>3, ReturnFinishes DEF Service!Outcome, Failed, Answer
    <3> QED
      BY <1>7, <2>1, <3>1
         DEF AttachVolumeToVM, Attachable, Service!Attach, Service!ServersOf, Applied
  <2> QED
    BY <1>7, <2>2, <2>3 DEF AttachVolumeToVM
<1>8. ASSUME NEW c \in Calls,
             GetAllOSVMs(c) \/ GetHypervisors(c) \/ GetStorageHostRegistration(c)
      PROVE  Same \/ Service!Attached(c)
  <2>1. CASE QuietMove(c)
    <3>1. nova' = nova /\ req' = req
      BY <2>1 DEF QuietMove, Goto, cloud
    <3> QED
      BY <1>1, <2>1, <3>1, Invisible DEF QuietMove
  <2>2. CASE ~QuietMove(c)
    <3>1. PICK a \in Answers : Return(c, a) /\ UNCHANGED cloud
      BY <1>8, <2>2, QuietSteps DEF QuietStep
    <3>2. a = resp'[c]
      BY <1>1, <3>1 DEF TypeOK, Return
    <3>3. pc[c] \in PathLabels /\ resp'[c].status = "Success" /\ resp'[c].attached = FALSE
      <4>1. CASE GetAllOSVMs(c)
        BY <2>2, <4>1 DEF GetAllOSVMs, QuietMove
      <4>2. CASE GetHypervisors(c)
        <5>1. ~(Goto(c, "registration") /\ UNCHANGED local)
          BY <2>2, <4>2 DEF GetHypervisors, QuietMove
        <5>2. \E d : Return(c, Answer("Success", d, FALSE))
          BY <4>2, <5>1 DEF GetHypervisors
        <5> QED
          BY <1>1, <4>2, <5>2 DEF TypeOK, GetHypervisors, Return, Answer
      <4>3. CASE GetStorageHostRegistration(c)
        BY <1>1, <4>3 DEF TypeOK, GetStorageHostRegistration, Return, Answer
      <4> QED
        BY <1>8, <4>1, <4>2, <4>3
    <3>4. Service!Finish(c, Service!Outcome("Success", FALSE))
      BY <1>1, <3>1, <3>2, <3>3, ReturnFinishes DEF Service!Outcome
    <3> QED
      BY <3>1, <3>3, <3>4 DEF Service!Attached, Applied, cloud
  <2> QED
    BY <2>1, <2>2
<1>9. ASSUME NEW c \in Calls, DetachVolumeFromVM(c)
      PROVE  Service!Detach(c)
  <2>1. /\ req[c].op = "detach"
        /\ PortsOf[req[c].node] = {vmID[c]}
        /\ <<req[c].pv, volume[c].id>> \in Bindings
    BY <1>1, <1>9 DEF Position, Knowledge, DetachVolumeFromVM
  <2>2. volume[c].id \in Volumes
    BY <2>1
  <2>3. \E s \in {"Success", "Failed"} : Service!Finish(c, Service!Outcome(s, FALSE))
    <3>1. PICK a \in {Answer("Success", NoPath, FALSE), Failed} : Return(c, a)
      BY <1>9 DEF DetachVolumeFromVM
    <3>2. a \in Answers
      BY <3>1, RecordTypes
    <3>3. a.status \in {"Success", "Failed"} /\ a.attached = FALSE
      BY <3>1 DEF Failed, Answer
    <3> QED
      BY <1>1, <3>1, <3>2, <3>3, ReturnFinishes DEF Service!Outcome
  <2> QED
    BY <1>9, <2>1, <2>2, <2>3 DEF DetachVolumeFromVM, Service!Detach, Service!ServersOf
<1>10. ASSUME NEW c \in Calls, IsVolumeAttached(c)
       PROVE  Service!Report(c)
  <2>1. /\ req[c].op = "isattached"
        /\ PortsOf[req[c].node] = {vmID[c]}
        /\ nova' = nova
    BY <1>1, <1>10 DEF Position, IsVolumeAttached, cloud
  <2>2. PICK verdict \in BOOLEAN :
            /\ Return(c, Answer("Success", NoPath, verdict))
            /\ verdict => vmID[c] \in VMs /\ nova[<<vmID[c], req[c].vol>>] # "none"
    BY <1>10 DEF IsVolumeAttached
  <2>3. Service!Finish(c, Service!Outcome("Success", verdict))
    BY <1>1, <2>2, RecordTypes, ReturnFinishes DEF Service!Outcome, Answer
  <2>4. verdict => \E vm \in Service!ServersOf(req[c].node) : nova[<<vm, req[c].vol>>] # "none"
    BY <2>1, <2>2 DEF Service!ServersOf
  <2> QED
    BY <2>1, <2>3, <2>4, Zenon DEF Service!Report
<1>11. ASSUME NEW c \in Calls, Fail(c) \/ Die(c)
       PROVE  Service!GiveUp(c)
  <2>1. pc[c] # "idle" /\ nova' = nova /\ \E a \in {Failed, NoAnswer} : Return(c, a)
    BY <1>11 DEF Fail, Die, Running, cloud
  <2> QED
    BY <1>4, <1>5, <2>1 DEF Failed, NoAnswer, Answer
<1>12. ASSUME Platform
       PROVE  Same \/ Service!Next
  <2>1. ASSUME UNCHANGED <<nova, pc, req, resp>>
        PROVE  Same
    BY <2>1 DEF Applied, OutcomeOf
  <2>2. ASSUME NEW vm \in VMs, NEW v \in Volumes, NEW from, NEW to, Settle(vm, v, from, to)
        PROVE  Service!Settle(vm, v, from, to)
    BY <2>2 DEF Settle, Service!Settle
  <2> QED
    BY <1>12, <2>1, <2>2 DEF Platform, Created, Deleted, Service!Next
<1>13. ASSUME UNCHANGED vars
       PROVE  Same
  BY <1>13 DEF vars, Applied, OutcomeOf
<1>14. ASSUME NEW c \in Calls,
              \/ Service!Begin(c) \/ Service!Attach(c) \/ Service!Attached(c)
              \/ Service!Detach(c) \/ Service!Report(c) \/ Service!GiveUp(c)
       PROVE  Service!Next
  BY <1>14 DEF Service!Next
<1> HIDE DEF Same
<1> QED
  BY <1>0, <1>2, <1>3, <1>6, <1>7, <1>8, <1>9, <1>10, <1>11, <1>12, <1>13, <1>14
     DEF Next, Step

\* The driver, with its requests, failures and deaths, implements the service:
\* at most one change per call, the one asked for, and Success only after it
\* (main.go:63-151, 322-360).
THEOREM DriverImplementsService == Spec => ImplementsService
<1>1. Init => Service!Init
  <2> SUFFICES ASSUME Init PROVE Service!Init
    OBVIOUS
  <2>1. [c \in Calls |-> pc[c] \in PathLabels] = [c \in Calls |-> FALSE]
    <3>1. \A c \in Calls : (pc[c] \in PathLabels) = FALSE
      BY DEF Init
    <3> QED
      BY <3>1, Zenon
  <2>2. [c \in Calls |-> [status |-> resp[c].status, attached |-> resp[c].attached]]
          = [c \in Calls |-> [status |-> "none", attached |-> FALSE]]
    BY DEF Init, NoAnswer, Answer
  <2> QED
    BY <2>1, <2>2 DEF Init, Service!Init, Service!Outcome
<1>2. IInv /\ [Next]_vars => [Service!Next]_Service!vars
  BY ServiceStep
<1> QED
  BY <1>1, <1>2, InductiveInvariant, PTL DEF Spec, ImplementsService, Service!Spec

-----------------------------------------------------------------------------
\* A call that runs has not answered yet.
Silent == \A c \in Calls : Running(c) => resp[c] = NoAnswer

LEMMA SilentUntilReturn == Spec => []Silent
<1>1. Init => Silent
  BY DEF Init, Silent, Running
<1>2. IInv /\ Silent /\ [Next]_vars => Silent'
  <2> SUFFICES ASSUME IInv, Silent, [Next]_vars
               PROVE  Silent'
    OBVIOUS
  <2>1. TypeOK
    BY DEF IInv
  <2>2. ASSUME NEW c \in Calls, Start(c)
        PROVE  Silent'
    BY <2>1, <2>2 DEF TypeOK, Silent, Start, Running
  <2>3. ASSUME NEW c \in Calls, NEW label, Running(c), Goto(c, label)
        PROVE  Silent'
    BY <2>1, <2>3 DEF TypeOK, Silent, Goto, Running
  <2>4. ASSUME NEW c \in Calls, NEW a, Return(c, a)
        PROVE  Silent'
    BY <2>1, <2>4 DEF TypeOK, Silent, Return, Running
  <2>5. ASSUME NEW c \in Calls,
               \/ InitCloud(c) \/ GetVMID(c) \/ GetVolume(c) \/ UpdateVolumeMetadata(c)
               \/ AttachVolumeToVM(c) \/ GetVolumeByMetadataProperty(c)
        PROVE  Silent'
    <3>1. Running(c)
      BY <2>5 DEF InitCloud, GetVMID, GetVolume, ReadVolume, UpdateVolumeMetadata,
                  AttachVolumeToVM, GetVolumeByMetadataProperty, Running
    <3>2. (\E label : Goto(c, label)) \/ Return(c, Failed)
      BY <2>5 DEF InitCloud, GetVMID, GetVolume, ReadVolume, UpdateVolumeMetadata,
                  AttachVolumeToVM, GetVolumeByMetadataProperty
    <3> QED
      BY <2>3, <2>4, <3>1, <3>2
  <2>6. ASSUME NEW c \in Calls, DetachVolumeFromVM(c) \/ QuietStep(c)
        PROVE  Silent'
    BY <2>3, <2>4, <2>6, QuietSteps DEF DetachVolumeFromVM, QuietMove, Running
  <2>7. ASSUME Platform \/ UNCHANGED vars
        PROVE  Silent'
    BY <2>7 DEF Silent, Running, Platform, Created, Deleted, Settle, vars
  <2> QED
    BY <2>2, <2>5, <2>6, <2>7 DEF Next, Step, QuietStep
<1> QED
  BY <1>1, <1>2, InductiveInvariant, PTL DEF Spec

\* A step that is not the call's own leaves its position, its reads and its
\* answer alone.
LEMMA OthersStay ==
    ASSUME IInv, Next, NEW c \in Calls, ~Start(c), ~Step(c), ~Die(c)
    PROVE  pc'[c] = pc[c] /\ polls'[c] = polls[c] /\ resp'[c] = resp[c]
<1>1. TypeOK
  BY DEF IInv
<1>2. ASSUME NEW d \in Calls, d # c, Start(d)
      PROVE  pc'[c] = pc[c] /\ polls'[c] = polls[c] /\ resp'[c] = resp[c]
  BY <1>1, <1>2 DEF TypeOK, Start, local
<1>3. ASSUME NEW d \in Calls, d # c, NEW a, Return(d, a)
      PROVE  pc'[c] = pc[c] /\ polls'[c] = polls[c] /\ resp'[c] = resp[c]
  BY <1>1, <1>3 DEF TypeOK, Return
<1>4. ASSUME NEW d \in Calls, d # c, NEW label, Goto(d, label), polls'[c] = polls[c]
      PROVE  pc'[c] = pc[c] /\ polls'[c] = polls[c] /\ resp'[c] = resp[c]
  BY <1>1, <1>4 DEF TypeOK, Goto
<1>5. ASSUME NEW d \in Calls, d # c, Step(d) \/ Die(d)
      PROVE  pc'[c] = pc[c] /\ polls'[c] = polls[c] /\ resp'[c] = resp[c]
  <2>1. CASE InitCloud(d) \/ GetVMID(d) \/ GetVolumeByMetadataProperty(d)
    BY <1>4, <1>5, <2>1 DEF InitCloud, GetVMID, GetVolumeByMetadataProperty, local
  <2>2. CASE GetVolume(d)
    BY <1>1, <1>4, <1>5, <2>2 DEF TypeOK, GetVolume, ReadVolume
  <2>3. CASE UpdateVolumeMetadata(d) \/ AttachVolumeToVM(d)
    BY <1>3, <1>4, <1>5, <2>3 DEF UpdateVolumeMetadata, AttachVolumeToVM, local
  <2>4. CASE DetachVolumeFromVM(d) \/ QuietStep(d)
    BY <1>3, <1>4, <1>5, <2>4, QuietSteps DEF DetachVolumeFromVM, QuietMove, local
  <2> QED
    BY <1>5, <2>1, <2>2, <2>3, <2>4 DEF Step, QuietStep
<1>6. ASSUME Platform
      PROVE  pc'[c] = pc[c] /\ polls'[c] = polls[c] /\ resp'[c] = resp[c]
  BY <1>6 DEF Platform, Created, Deleted, Settle, local
<1> QED
  BY <1>2, <1>5, <1>6 DEF Next

\* On PowerVM the path names the volume, or is a bare prefix for want of the WWN
\* (volume_utils.go:58-82, 89-122).
LEMMA PathsName ==
    ASSUME NEW host \in HostTypes, NEW v \in Volumes, NEW w \in BOOLEAN
    PROVE  \/ DirectoryNamePvm(host, v, w) \in PathsNaming(v)
           \/ DirectoryNamePvm(host, v, w).key = NoKey /\ ~w
BY DEF DirectoryNamePvm, HostTypes, PathsNaming, Path, getDirectoryNamePvmLIO,
       getDirectoryNamePvmXiv, getDirectoryNameForPhyp

\* Every path that attach answers has a key of the volume that was asked for,
\* unless no read of the call showed its WWN: then Cinder may leave the WWN out of
\* a ready volume, or all reads were used up while Cinder was creating this one
\* (main.go:115-150).
THEOREM PathsNameTheirVolume == Spec => PathNamesVolume
<1>1. IInv /\ Silent /\ [Next]_vars =>
        [\A c \in Calls :
            Running(c) /\ resp'[c].status = "Success" /\ resp'[c].device # NoPath =>
                \/ resp'[c].device \in PathsNaming(req[c].vol)
                \/ /\ resp'[c].device.key = NoKey /\ ~volume[c].wwn
                   /\ \/ req[c].vol \in WWNLate
                      \/ volume[c].status = "creating" /\ polls[c] = MaxPolls]_vars
  <2> SUFFICES ASSUME IInv, Silent, Next,
                      NEW c \in Calls, Running(c), resp'[c].status = "Success",
                      resp'[c].device # NoPath
               PROVE  \/ resp'[c].device \in PathsNaming(req[c].vol)
                      \/ /\ resp'[c].device.key = NoKey /\ ~volume[c].wwn
                         /\ \/ req[c].vol \in WWNLate
                            \/ volume[c].status = "creating" /\ polls[c] = MaxPolls
    OBVIOUS
  <2>1. TypeOK /\ Position(c) /\ Knowledge(c)
    BY DEF IInv
  <2>2. resp[c] = NoAnswer
    BY DEF Silent
  <2>3. Step(c)
    <3>1. ~Start(c)
      BY DEF Start
    <3>2. ~Die(c)
      BY <2>1 DEF TypeOK, Die, Return, NoAnswer, Answer
    <3> QED
      BY <2>2, <3>1, <3>2, OthersStay DEF NoAnswer, Answer
  <2>4. PICK device : Return(c, Answer("Success", device, resp'[c].attached))
                      /\ device = resp'[c].device
                      /\ \/ GetHypervisors(c) /\ device = getDirectoryNameKVM(volume[c].id)
                         \/ /\ GetStorageHostRegistration(c)
                            /\ \E host \in {HostOf[volume[c].id], "none"} :
                                device = DirectoryNamePvm(host, volume[c].id, volume[c].wwn)
    <3>1. ASSUME NEW label, Goto(c, label)
          PROVE  FALSE
      BY <2>2, <3>1 DEF Goto, NoAnswer, Answer
    <3>2. ASSUME NEW s, NEW d, NEW b, Return(c, Answer(s, d, b))
          PROVE  s = "Success" /\ d # NoPath /\ resp'[c] = Answer(s, d, b)
                 /\ d = resp'[c].device /\ b = resp'[c].attached
      BY <2>1, <3>2 DEF TypeOK, Return, Answer
    <3>3. CASE GetHypervisors(c)
      BY <3>1, <3>2, <3>3 DEF GetHypervisors
    <3>4. CASE GetStorageHostRegistration(c)
      <4>1. PICK host \in {HostOf[volume[c].id], "none"} :
                Return(c, Answer("Success",
                                 DirectoryNamePvm(host, volume[c].id, volume[c].wwn), FALSE))
        BY <3>4 DEF GetStorageHostRegistration
      <4> QED
        BY <3>2, <3>4, <4>1
    <3>5. ~Return(c, Failed)
      BY <3>2 DEF Failed
    <3>6. ~Return(c, Answer("Success", NoPath, TRUE)) /\ ~Return(c, Answer("Success", NoPath, FALSE))
      BY <3>2
    <3> QED
      BY <2>3, <3>1, <3>3, <3>4, <3>5, <3>6
         DEF Step, InitCloud, GetVMID, GetVolume, ReadVolume, UpdateVolumeMetadata,
             AttachVolumeToVM, GetAllOSVMs, GetVolumeByMetadataProperty, DetachVolumeFromVM,
             IsVolumeAttached, Fail
  <2>5. pc[c] \in PathLabels
    BY <2>4 DEF GetHypervisors, GetStorageHostRegistration
  <2>6. volume[c].id = req[c].vol /\ req[c].vol \in Volumes
    BY <2>1, <2>5, CallVolume DEF Knowledge
  <2>7. volume[c].wwn \in BOOLEAN
    BY <2>1 DEF TypeOK, Snapshots
  <2>8. CASE device = getDirectoryNameKVM(volume[c].id)
    BY <2>4, <2>6, <2>8 DEF PathsNaming
  <2>9. ASSUME NEW host \in {HostOf[volume[c].id], "none"},
               device = DirectoryNamePvm(host, volume[c].id, volume[c].wwn)
        PROVE  \/ device \in PathsNaming(req[c].vol)
               \/ device.key = NoKey /\ ~volume[c].wwn
    <3>1. host \in HostTypes
      BY <2>6, ConstantsAssumption DEF HostTypes
    <3> QED
      BY <2>6, <2>7, <2>9, <3>1, PathsName
  <2>10. ~volume[c].wwn => \/ req[c].vol \in WWNLate
                           \/ volume[c].status = "creating" /\ polls[c] = MaxPolls
    BY <2>1, <2>5 DEF TypeOK, Knowledge, Snapshots, Statuses
  <2> QED
    BY <2>4, <2>8, <2>9, <2>10
<1> QED
  BY <1>1, InductiveInvariant, SilentUntilReturn, PTL DEF Spec, PathNamesVolume

\* Every request, answered or not, leaves a call fewer to make, so that no call
\* makes more than MaxPolls + 7, whatever the cloud does (main.go:63-151, 322-360).
THEOREM CallsAreBounded == Spec => RequestsRunOut
<1>1. IInv /\ [Next]_vars =>
        [\A c \in Calls :
            Running(c) /\ (pc'[c] # pc[c] \/ polls'[c] # polls[c]) =>
                RequestsLeft(c)' < RequestsLeft(c)]_vars
  <2> SUFFICES ASSUME IInv, Next, NEW c \in Calls, Running(c),
                      pc'[c] # pc[c] \/ polls'[c] # polls[c]
               PROVE  RequestsLeft(c)' < RequestsLeft(c)
    OBVIOUS
  <2> USE ConstantsAssumption DEF RequestsLeft, RequestsAfterVMID
  <2>1. TypeOK /\ Position(c) /\ Knowledge(c)
    BY DEF IInv
  <2>2. polls[c] \in Nat /\ MaxPolls \in Nat /\ MaxPolls > 0 /\ pc[c] \in Labels \ {"idle"}
    BY <2>1 DEF TypeOK, Running
  <2>3. pc[c] = "getVolume" => polls[c] < MaxPolls
    BY <2>1 DEF Knowledge
  <2>4. req[c].op \in {"attach", "detach", "isattached"}
    BY <2>1, RequestFacts DEF Position, Running
  <2>5. ASSUME NEW a, Return(c, a)
        PROVE  RequestsLeft(c)' < RequestsLeft(c)
    <3>1. RequestsLeft(c)' = 0
      BY <2>1, <2>5 DEF TypeOK, Return
    <3>2. RequestsLeft(c) \in Nat \ {0}
      BY <2>2, <2>3 DEF Labels
    <3> HIDE DEF RequestsLeft
    <3> QED
      BY <3>1, <3>2
  <2>6. CASE InitCloud(c)
    BY <2>1, <2>2, <2>4, <2>6 DEF TypeOK, InitCloud, Goto
  <2>7. CASE GetVMID(c)
    <3>1. pc[c] = "getVMID" /\ pc'[c] = AfterVMID(req[c].op) /\ req' = req /\ polls' = polls
      BY <2>1, <2>7 DEF TypeOK, GetVMID, Goto
    <3>2. polls[c] = 0
      BY <2>1, <3>1 DEF Knowledge
    <3> QED
      BY <2>2, <2>4, <3>1, <3>2 DEF AfterVMID
  <2>8. CASE GetVolume(c)
    <3>1. /\ pc[c] = "getVolume"
          /\ polls'[c] = polls[c] + 1
          /\ pc'[c] \in {"getVolume", "updateMeta"}
      BY <2>1, <2>8 DEF TypeOK, GetVolume, ReadVolume, Goto
    <3>2. RequestsLeft(c) = 5 + MaxPolls - polls[c]
      BY <3>1
    <3>3. CASE pc'[c] = "getVolume"
      <4>1. RequestsLeft(c)' = 5 + MaxPolls - (polls[c] + 1)
        BY <3>1, <3>3
      <4> HIDE DEF RequestsLeft
      <4> QED
        BY <2>2, <3>2, <4>1
    <3>4. CASE pc'[c] = "updateMeta"
      <4>1. RequestsLeft(c)' = 5
        BY <3>4
      <4> HIDE DEF RequestsLeft
      <4> QED
        BY <2>2, <2>3, <3>1, <3>2, <4>1
    <3> QED
      BY <3>1, <3>3, <3>4
  <2>9. CASE UpdateVolumeMetadata(c) \/ AttachVolumeToVM(c)
    <3>1. CASE Return(c, Failed)
      BY <2>5, <3>1
    <3>2. CASE UpdateVolumeMetadata(c) /\ Goto(c, "novaAttach")
      <4>1. pc[c] = "updateMeta" /\ pc'[c] = "novaAttach"
        BY <2>1, <3>2 DEF TypeOK, UpdateVolumeMetadata, Goto
      <4> QED
        BY <4>1
    <3>3. CASE AttachVolumeToVM(c) /\ Goto(c, "listServers")
      <4>1. pc[c] = "novaAttach" /\ pc'[c] = "listServers"
        BY <2>1, <3>3 DEF TypeOK, AttachVolumeToVM, Goto
      <4> QED
        BY <4>1
    <3> QED
      BY <2>9, <3>1, <3>2, <3>3 DEF UpdateVolumeMetadata, AttachVolumeToVM
  <2>10. CASE GetVolumeByMetadataProperty(c)
    <3>1. pc[c] = "lookup" /\ pc'[c] = "getVMID" /\ req' = req /\ req[c].op = "detach"
      BY <2>1, <2>10 DEF TypeOK, Position, GetVolumeByMetadataProperty, Goto
    <3> QED
      BY <3>1
  <2>11. CASE DetachVolumeFromVM(c) \/ QuietStep(c)
    <3>1. CASE QuietMove(c)
      <4>1. \/ pc[c] = "listServers" /\ pc'[c] = "hypervisors"
            \/ pc[c] = "hypervisors" /\ pc'[c] = "registration"
        BY <2>1, <3>1 DEF TypeOK, QuietMove, Goto
      <4> QED
        BY <4>1
    <3> QED
      BY <2>5, <2>11, <3>1, QuietSteps DEF DetachVolumeFromVM
  <2>12. Step(c) \/ Die(c)
    BY OthersStay DEF Start
  <2> QED
    BY <2>6, <2>7, <2>8, <2>9, <2>10, <2>11, <2>12 DEF Step, QuietStep
<1> QED
  BY <1>1, InductiveInvariant, PTL DEF Spec, RequestsRunOut
=============================================================================

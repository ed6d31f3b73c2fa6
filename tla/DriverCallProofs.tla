-------------------------- MODULE DriverCallProofs --------------------------
(***************************************************************************)
(* Proofs about DriverCall: its types, why a call may panic, and how the   *)
(* path attach answers can miss the server that got the volume, for every  *)
(* number of names, addresses, servers, hypervisors and changes.           *)
(***************************************************************************)
EXTENDS DriverCall, TLAPS

\* Each step, one by one.
LEMMA StepCases ==
    ASSUME Next
    PROVE  \/ NoOperation \/ Refuse \/ Main \/ InitCloud \/ Dispatch
           \/ ResolveForPort \/ GetVMID \/ Attach \/ ResolveForPath \/ GetAllOSVMs
           \/ GetVolumeDirectoryName \/ Operate \/ Fail
           \/ DNSChanges \/ PortMade \/ PortRemoved \/ NovaRefreshes \/ Migrated \/ HostRemoved
  BY DEF Next, Driver, World

-----------------------------------------------------------------------------
(***************************************************************************)
(* Lemmas about the lookups.                                               *)
(***************************************************************************)

\* The name of the call's node resolves to itself when it is an address, to an
\* address of version 4 or to nothing otherwise.
LEMMA ResolveType ==
    ASSUME TypeOK, NEW a \in ResolveNodeAddress(call.node)
    PROVE  a \in Resolved
  BY DEF TypeOK, ResolveNodeAddress, Resolved, Address

\* Whatever it resolves to is an address or nothing.
LEMMA ResolvedType == Resolved \subseteq Address \cup {NoAddress}
  BY DEF Resolved, Address

\* The port lookup names a device or nothing.
LEMMA DeviceType ==
    ASSUME NEW a
    PROVE  GetServerIDFromNodeName(a) \in Devices \cup {NoServer}
<1>1. CASE \E d \in DevicesAt(a) : DevicesAt(a) = {d}
  <2>1. (CHOOSE d \in DevicesAt(a) : TRUE) \in DevicesAt(a) BY <1>1
  <2> QED BY <2>1, <1>1 DEF GetServerIDFromNodeName, DevicesAt
<1>2. CASE ~ \E d \in DevicesAt(a) : DevicesAt(a) = {d}
  BY <1>2 DEF GetServerIDFromNodeName
<1> QED BY <1>1, <1>2

\* Of the servers listed under one address one comes last, when there are any
\* and they are the one server given.
LEMMA SoleHolder ==
    ASSUME NEW addrs, NEW a \in Address, NEW s \in Servers, Holders(addrs, a) = {s}
    PROVE  CreateVMIPToVMDetailsMap(addrs)[a] = s
<1>1. ListedAt[s] \in Nat BY ConstantsAssumption
<1>2. \A t \in Holders(addrs, a) : ListedAt[t] <= ListedAt[s] BY <1>1
<1>3. (CHOOSE u \in Holders(addrs, a) : \A t \in Holders(addrs, a) : ListedAt[t] <= ListedAt[u]) = s
  BY <1>2
<1> QED BY <1>3 DEF CreateVMIPToVMDetailsMap

\* The hypervisor of a host that is listed has its own type.
LEMMA HostType ==
    ASSUME TypeOK, NEW h, NEW type \in CreateHostnameToDetailsMap(h)
    PROVE  PathBy(type) \in HypTypes \cup {"none"}
  BY ConstantsAssumption DEF TypeOK, CreateHostnameToDetailsMap, PathBy, HypTypes

-----------------------------------------------------------------------------
(***************************************************************************)
(* Types.                                                                  *)
(***************************************************************************)

\* The answers a call may give.
LEMMA AnswerTypes ==
    /\ NoAnswer \in Answers /\ Success \in Answers /\ Failed \in Answers /\ Empty \in Answers
    /\ \A by \in HypTypes \cup {"none"} : [status |-> "Success", by |-> by] \in Answers
  BY DEF Answers, NoAnswer, Success, Failed, Empty

\* A list the lookup stores is one.
LEMMA ListType ==
    ASSUME TypeOK
    PROVE  NothingListed \in Lists /\ \A f \in BOOLEAN : Listing(f) \in Lists
  BY DEF TypeOK, NothingListed, Listing, Lists

LEMMA InitType ==
    ASSUME Init
    PROVE  TypeOK
<1>1. dns \in [Names -> SUBSET Address] BY DEF Init, Address
<1>2. ports \subseteq Address \X Devices /\ listed \in [Servers -> SUBSET Address]
  <2>1. PICK owner \in [Address -> Devices] :
            /\ ports = {<<a, owner[a]>> : a \in Address}
            /\ listed = [s \in Servers |-> {a \in Address : owner[a] = s}]
    BY DEF Init
  <2> QED BY <2>1
<1>3. call \in Calls /\ NoAddress \in Resolved BY DEF Init, Calls, Resolved
<1>4. NothingListed \in Lists BY DEF Init, NothingListed, Lists
<1>5. resp \in Answers BY AnswerTypes DEF Init
<1>6. host \in [Servers -> Hosts] /\ up \subseteq Hosts BY DEF Init
<1>7. changes \in 0 .. MaxChanges BY ConstantsAssumption DEF Init
<1>8. pc \in Labels BY DEF Init, Labels
<1>9. cloud \in BOOLEAN /\ addr = NoAddress /\ portAddr = NoAddress /\ vm = NoServer
      /\ list = NothingListed
  BY DEF Init
<1> QED BY <1>1, <1>2, <1>3, <1>4, <1>5, <1>6, <1>7, <1>8, <1>9 DEF TypeOK

LEMMA TypeStep ==
    ASSUME TypeOK, [Next]_vars
    PROVE  TypeOK'
<1> USE DEF TypeOK, Resolved
<1>1. CASE NoOperation
  BY <1>1 DEF NoOperation, Panic, Labels, world, local
<1>2. CASE Refuse
  BY <1>2, AnswerTypes DEF Refuse, Answer, Labels, world, local
<1>3. CASE Main
  BY <1>3 DEF Main, Goto, Labels, world, local
<1>4. CASE InitCloud
  BY <1>4 DEF InitCloud, Goto, Labels, world
<1>5. CASE Dispatch
  BY <1>5 DEF Dispatch, Goto, Panic, Labels, world, local
<1>6. CASE ResolveForPort
  <2>1. Resolved' = Resolved BY <1>6 DEF ResolveForPort, Goto, Resolved
  <2>2. addr' \in Resolved BY <1>6, ResolveType DEF ResolveForPort
  <2> QED BY <1>6, <2>1, <2>2 DEF ResolveForPort, Goto, Labels, world
<1>7. CASE GetVMID
  BY <1>7, DeviceType DEF GetVMID, Goto, Labels, world
<1>8. CASE Attach
  BY <1>8 DEF Attach, Goto, Labels, world, local
<1>9. CASE ResolveForPath
  <2>1. Resolved' = Resolved BY <1>9 DEF ResolveForPath, Goto, Resolved
  <2>2. addr' \in Resolved BY <1>9, ResolveType DEF ResolveForPath
  <2> QED BY <1>9, <2>1, <2>2 DEF ResolveForPath, Goto, Labels, world
<1>10. CASE GetAllOSVMs
  <2>1. list' \in Lists BY <1>10, ListType DEF GetAllOSVMs
  <2>2. pc' \in Labels BY <1>10 DEF GetAllOSVMs, Goto, Panic, Labels
  <2> QED BY <1>10, <2>1, <2>2 DEF GetAllOSVMs, Goto, Panic, world
<1>11. CASE GetVolumeDirectoryName
  <2>1. resp' \in Answers
    <3>1. CASE ListedServer = NoServer
      BY <1>11, <3>1, AnswerTypes DEF GetVolumeDirectoryName, Answer, PathBy
    <3>2. CASE ListedServer # NoServer
      BY <1>11, <3>2, AnswerTypes, HostType DEF GetVolumeDirectoryName, Answer
    <3> QED BY <3>1, <3>2
  <2> QED BY <1>11, <2>1 DEF GetVolumeDirectoryName, Answer, Labels, world, local
<1>12. CASE Operate
  BY <1>12, AnswerTypes DEF Operate, Answer, Labels, world, local
<1>13. CASE Fail
  BY <1>13, AnswerTypes DEF Fail, Answer, Labels, world, local
<1>14. CASE DNSChanges
  BY <1>14, ConstantsAssumption DEF DNSChanges, Change, local
<1>15. CASE PortMade
  BY <1>15, ConstantsAssumption DEF PortMade, Change, local
<1>16. CASE PortRemoved
  BY <1>16, ConstantsAssumption DEF PortRemoved, Change, local
<1>17. CASE NovaRefreshes
  BY <1>17, ConstantsAssumption DEF NovaRefreshes, Change, local
<1>18. CASE Migrated
  BY <1>18, ConstantsAssumption DEF Migrated, Change, local
<1>19. CASE HostRemoved
  BY <1>19, ConstantsAssumption DEF HostRemoved, Change, local
<1>20. CASE UNCHANGED vars
  BY <1>20 DEF vars
<1> QED
  BY <1>1, <1>2, <1>3, <1>4, <1>5, <1>6, <1>7, <1>8, <1>9, <1>10, <1>11, <1>12, <1>13, <1>14,
     <1>15, <1>16, <1>17, <1>18, <1>19, <1>20, StepCases

\* Every variable keeps its type: above all, the lookups work with an address of
\* version 6 only when the node is named by it (util.go:251-271).
THEOREM TypeCorrect == Spec => []TypeOK
  BY InitType, TypeStep, PTL DEF Spec

-----------------------------------------------------------------------------
(***************************************************************************)
(* Why a call panics.                                                      *)
(***************************************************************************)

\* A call past main has the arguments its operation requires.
Checked ==
    pc \notin {"main", "answered", "panicked"} =>
        call.op # "missing" /\ call.args >= Required(call.op)

\* createRespMsg has made a client for the operations that use one.
ClientMade == (pc = "dispatch" /\ NeedsCloud(call.op)) => cloud

\* The second lookup is made for a server that just got a volume.
OnlyAttach == pc \in {"again", "list", "hypervisors"} => call.op = "attach" /\ vm \in Servers

PanicInv == Checked /\ ClientMade /\ OnlyAttach /\ PanicsExplained

\* No index of createRespMsg is beyond the arguments createOpArgsMap lists.
LEMMA IndexedArgsAreListed ==
    ASSUME NEW op \in Operations \cup {"unknown"}
    PROVE  Indexed(op) <= Required(op) + Optional(op)
  BY DEF Operations, Indexed, Required, Optional

LEMMA PanicInit ==
    ASSUME Init
    PROVE  PanicInv
  BY DEF Init, PanicInv, Checked, ClientMade, OnlyAttach, PanicsExplained

LEMMA PanicStep ==
    ASSUME TypeOK, PanicInv, [Next]_vars
    PROVE  PanicInv'
<1> USE DEF PanicInv, Checked, ClientMade, OnlyAttach, PanicsExplained
<1>1. CASE NoOperation
  BY <1>1 DEF NoOperation, Panic
<1>2. CASE Refuse
  BY <1>2 DEF Refuse, Answer
<1>3. CASE Main
  BY <1>3 DEF Main, Goto, ValidateArgs
<1>4. CASE InitCloud
  BY <1>4 DEF InitCloud, Goto
<1>5. CASE Dispatch
  <2>1. call.op \in Operations \cup {"unknown"} /\ call.args \in Nat
    BY <1>5 DEF Dispatch, TypeOK, Calls
  <2>2. CASE call.args < Indexed(call.op)
    <3>1. Indexed(call.op) \in Nat /\ Required(call.op) \in Nat /\ Optional(call.op) \in Nat
      BY DEF Indexed, Required, Optional
    <3>2. call.args < Required(call.op) + Optional(call.op)
      BY <2>1, <2>2, <3>1, IndexedArgsAreListed
    <3> QED BY <1>5, <2>2, <3>2 DEF Dispatch, Panic
  <2>3. CASE call.args >= Indexed(call.op)
    <3>1. ~(UsesCloud(call.op) /\ ~cloud) BY <1>5 DEF Dispatch, UsesCloud, NeedsCloud
    <3>2. ~(call.args < Indexed(call.op)) BY <2>1, <2>3 DEF Indexed
    <3> QED BY <1>5, <3>1, <3>2 DEF Dispatch, Goto
  <2> QED BY <2>1, <2>2, <2>3 DEF Indexed
<1>6. CASE ResolveForPort
  BY <1>6 DEF ResolveForPort, Goto
<1>7. CASE GetVMID
  BY <1>7 DEF GetVMID, Goto
<1>8. CASE Attach
  BY <1>8 DEF Attach, Goto, local
<1>9. CASE ResolveForPath
  BY <1>9 DEF ResolveForPath, Goto
<1>10. CASE GetAllOSVMs
  <2>1. PICK failure \in BOOLEAN :
            /\ list' = Listing(failure)
            /\ \/ Goto("hypervisors")
               \/ ~failure /\ (\A s \in Servers : listed[s] = {}) /\ Panic
    BY <1>10 DEF GetAllOSVMs
  <2>2. CASE Goto("hypervisors")
    BY <1>10, <2>2 DEF GetAllOSVMs, Goto
  <2>3. CASE ~failure /\ (\A s \in Servers : listed[s] = {}) /\ Panic
    <3>1. ~list'.failed /\ \A s \in Servers : list'.addrs[s] = {} BY <2>1, <2>3 DEF Listing
    <3> QED BY <1>10, <2>3, <3>1 DEF GetAllOSVMs, Panic
  <2> QED BY <2>1, <2>2, <2>3
<1>11. CASE GetVolumeDirectoryName
  BY <1>11 DEF GetVolumeDirectoryName, Answer
<1>12. CASE Operate
  BY <1>12 DEF Operate, Answer
<1>13. CASE Fail
  BY <1>13 DEF Fail, Answer
<1>14. CASE UNCHANGED <<pc, call, local, resp>>
  BY <1>14 DEF local
<1> QED
  BY <1>1, <1>2, <1>3, <1>4, <1>5, <1>6, <1>7, <1>8, <1>9, <1>10, <1>11, <1>12, <1>13, <1>14,
     StepCases
  DEF vars, local, Change, DNSChanges, PortMade, PortRemoved, NovaRefreshes, Migrated, HostRemoved

\* A driver process that panics lacks its operation or an argument listed as
\* optional, or met a server list without an address.
THEOREM PanicsHaveReasons == Spec => []PanicsExplained
<1>1. Spec => []PanicInv BY PanicInit, PanicStep, TypeCorrect, PTL DEF Spec
<1>2. PanicInv => PanicsExplained BY DEF PanicInv
<1> QED BY <1>1, <1>2, PTL

-----------------------------------------------------------------------------
(***************************************************************************)
(* What the path is for.                                                   *)
(***************************************************************************)

\* When the sources do not contradict each other and nothing is missing, the
\* list has the server that got the volume, and no other, under the address.
LEMMA ListedIsAttached ==
    ASSUME TypeOK, vm \in Servers, ~Contradicted, ~Incomplete
    PROVE  ListedServer = vm
<1>1. addr \in Address BY ResolvedType DEF TypeOK, Incomplete
<1>2. Holders(list.addrs, addr) = {vm} BY DEF Contradicted, Incomplete, Holders
<1>3. CreateVMIPToVMDetailsMap(list.addrs)[addr] = vm BY <1>1, <1>2, SoleHolder
<1> QED BY <1>3 DEF ListedServer, Incomplete

\* When something is missing but nothing contradicts, the path is empty.
LEMMA MissingIsEmpty ==
    ASSUME TypeOK, vm \in Servers, ~Contradicted, Incomplete, ListedServer # NoServer
    PROVE  /\ ListedServer = vm
           /\ list.host[ListedServer] \notin up
<1>1. addr \in Address /\ ~list.failed BY ResolvedType DEF TypeOK, ListedServer
<1>2. ListedServer = CreateVMIPToVMDetailsMap(list.addrs)[addr] BY <1>1 DEF ListedServer
<1>3. Holders(list.addrs, addr) # {} BY <1>1, <1>2 DEF CreateVMIPToVMDetailsMap
<1>4. Holders(list.addrs, addr) = {vm} BY <1>3 DEF Contradicted, Holders
<1>5. ListedServer = vm BY <1>1, <1>2, <1>4, SoleHolder
<1>6. addr \in list.addrs[vm] BY <1>4 DEF Holders
<1>7. addr # NoAddress BY <1>1, ConstantsAssumption
<1> QED BY <1>1, <1>5, <1>6, <1>7 DEF Incomplete

LEMMA PathInit ==
    ASSUME Init
    PROVE  PathExplained
  BY DEF Init, PathExplained

\* Once answered, nothing the property speaks of changes any more.
LEMMA PathStep ==
    ASSUME TypeOK, PanicInv, PathExplained, [Next]_vars
    PROVE  PathExplained'
<1>1. CASE GetVolumeDirectoryName
  <2>1. vm \in Servers BY <1>1 DEF GetVolumeDirectoryName, PanicInv, OnlyAttach
  <2>2. PICK type \in (IF ListedServer = NoServer
                       THEN {"none"}
                       ELSE CreateHostnameToDetailsMap(list.host[ListedServer])) :
            Answer([status |-> "Success", by |-> PathBy(type)])
    BY <1>1 DEF GetVolumeDirectoryName
  <2>3. resp'.by = PathBy(type) /\ UNCHANGED <<call, addr, portAddr, vm, list, up>>
    BY <2>2 DEF Answer, world, local
  <2>4. CASE Contradicted
    BY <2>3, <2>4 DEF PathExplained, Contradicted
  <2>5. CASE ~Contradicted /\ ~Incomplete
    <3>1. ListedServer = vm BY <2>1, <2>5, ListedIsAttached
    <3>2. list.host[vm] \in up BY <2>5 DEF Incomplete
    <3>3. vm # NoServer BY <2>1, ConstantsAssumption DEF Devices
    <3>4. type = HypOf[list.host[vm]] BY <2>2, <3>1, <3>2, <3>3 DEF CreateHostnameToDetailsMap
    <3> QED BY <2>3, <3>4 DEF PathExplained
  <2>6. CASE ~Contradicted /\ Incomplete
    <3>1. type = "none"
      <4>1. CASE ListedServer = NoServer BY <2>2, <4>1
      <4>2. CASE ListedServer # NoServer
        BY <2>1, <2>2, <2>6, <4>2, MissingIsEmpty DEF CreateHostnameToDetailsMap
      <4> QED BY <4>1, <4>2
    <3>2. resp'.by = "none" BY <2>3, <3>1 DEF PathBy
    <3>3. Incomplete' BY <2>3, <2>6 DEF Incomplete
    <3> QED BY <3>2, <3>3 DEF PathExplained
  <2> QED BY <2>4, <2>5, <2>6
<1>2. CASE Operate
  BY <1>2 DEF Operate, Answer, PathExplained
<1>3. CASE Refuse \/ Fail
  BY <1>3 DEF Refuse, Fail, Answer, Failed, PathExplained
<1>4. CASE pc' # "answered"
  BY <1>4 DEF PathExplained
<1>5. CASE UNCHANGED vars
  BY <1>5 DEF vars, PathExplained, Contradicted, Incomplete
<1>6. CASE DNSChanges \/ PortMade \/ PortRemoved \/ NovaRefreshes \/ Migrated \/ HostRemoved
  <2>1. pc' # "answered"
    BY <1>6
    DEF Change, DNSChanges, PortMade, PortRemoved, NovaRefreshes, Migrated, HostRemoved
  <2> QED BY <2>1 DEF PathExplained
<1>7. CASE \/ NoOperation \/ Main \/ InitCloud \/ Dispatch \/ ResolveForPort \/ GetVMID
           \/ Attach \/ ResolveForPath \/ GetAllOSVMs
  <2>1. pc' # "answered"
    BY <1>7
    DEF NoOperation, Main, InitCloud, Dispatch, ResolveForPort, GetVMID, Attach,
        ResolveForPath, GetAllOSVMs, Goto, Panic
  <2> QED BY <2>1 DEF PathExplained
<1> QED
  BY <1>1, <1>2, <1>3, <1>5, <1>6, <1>7, StepCases

\* The path attach answers is by the rule of the hypervisor that runs the
\* server with the volume, unless the two lookups contradict each other, and
\* empty only if they do or if the second one found nothing.
THEOREM PathIsExplained == Spec => []PathExplained
<1>1. Spec => []PanicInv BY PanicInit, PanicStep, TypeCorrect, PTL DEF Spec
<1> QED BY <1>1, PathInit, PathStep, TypeCorrect, PTL DEF Spec
=============================================================================

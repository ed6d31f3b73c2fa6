----------------------------- MODULE DriverCall -----------------------------
(***************************************************************************)
(* One call of the flex volume driver, from the start of the process to    *)
(* its answer: main, ValidateArgs and createRespMsg, and the lookups that  *)
(* lead attach from a node name to a server and from there to the kind of  *)
(* the device path (ResolveNodeAddress, GetServerIDFromNodeName and the    *)
(* maps of pkg/utils/util.go).  DNS, Neutron and Nova are external, and    *)
(* change while the call is between two of its requests.                   *)
(*                                                                         *)
(* What the operations do once they are dispatched is in FlexAttach,       *)
(* WaitForAttach, NodeMount and DeviceCleanup: here each is one step, and  *)
(* attach one step between its two lookups.  Driver processes share        *)
(* nothing of what is modelled here, so a single one is enough.            *)
(***************************************************************************)
EXTENDS Naturals

CONSTANTS
    Names,          \* node names that need DNS
    V4, V6,         \* addresses; a node may also be named by one
    NoAddress,      \* the empty string of ResolveNodeAddress
    Servers,
    Others,         \* what else owns ports: routers, load balancers
    NoServer,
    ListedAt,       \* server -> its place in the list Nova answers
    Hosts,          \* hypervisors
    HypOf,          \* hypervisor -> its type
    MaxChanges      \* bound on the changes of DNS, Neutron and Nova

\* Libvirt, KVM and PowerVM with KVM; PHYP and PowerVM; any other type.
HypTypes == {"kvm", "powervm", "other"}

Devices == Servers \cup Others
Address == V4 \cup V6
Nodes   == Names \cup Address

ASSUME ConstantsAssumption ==
    /\ NoAddress \notin Address
    /\ V4 \cap V6 = {} /\ Names \cap Address = {}
    /\ NoServer \notin Devices
    /\ Servers \cap Others = {}
    /\ ListedAt \in [Servers -> Nat]
    /\ \A s, t \in Servers : ListedAt[s] = ListedAt[t] => s = t
    /\ HypOf \in [Hosts -> HypTypes]
    /\ MaxChanges \in Nat

VARIABLES
    dns,        \* name -> addresses DNS has for it
    ports,      \* Neutron's ports, pairs of an address and a device
    listed,     \* server -> addresses Nova has cached for it
    host,       \* server -> its hypervisor
    up,         \* hypervisors Nova lists
    changes,    \* changes made so far
    pc,         \* where the driver process is
    call,       \* its arguments
    cloud,      \* whether the global variable cloud was set
    addr,       \* what the last ResolveNodeAddress returned
    portAddr,   \* what it returned for the port lookup (history)
    vm,         \* vmID of attach
    list,       \* the servers as GetAllOSVMs returned them
    resp        \* the answer

world == <<dns, ports, listed, host, up, changes>>
local == <<cloud, addr, portAddr, vm, list>>
vars  == <<dns, ports, listed, host, up, changes, pc, call, cloud, addr, portAddr, vm, list, resp>>

Operations == {"init", "getvolumename", "isattached", "attach", "waitforattach", "mountdevice",
               "mount", "detach", "waitfordetach", "unmountdevice", "unmount"}

\* args counts what follows the operation.  Any other word may come in its
\* place ("unknown"), and nothing at all ("missing").
Calls == [op : Operations \cup {"unknown", "missing"}, args : Nat, node : Nodes]

\* The servers of a list with what it says of each; failed stands for the nil
\* list that CreateVMIPToVMDetailsMap makes of any error.
Lists  == [failed : BOOLEAN, addrs : [Servers -> SUBSET Address], host : [Servers -> Hosts]]
Listing(failure) == [failed |-> failure, addrs |-> listed, host |-> host]

\* status "empty" is that of a Response nobody filled in.  by is the type of
\* hypervisor whose rule made the path, "none" for an empty path.
Answers  == [status : {"none", "Success", "Failed", "empty"}, by : HypTypes \cup {"none"}]
NoAnswer == [status |-> "none", by |-> "none"]
Success  == [status |-> "Success", by |-> "none"]
Failed   == [status |-> "Failed", by |-> "none"]
Empty    == [status |-> "empty", by |-> "none"]

Labels == {"main", "initCloud", "dispatch", "resolve", "port", "operate", "again", "list",
           "hypervisors", "answered", "panicked"}

\* What a lookup may give the call: DNS only addresses of version 4, so one of
\* version 6 is how the node was named.
Resolved == V4 \cup {NoAddress} \cup (V6 \cap {call.node})

TypeOK ==
    /\ dns \in [Names -> SUBSET Address]
    /\ ports \subseteq Address \X Devices
    /\ listed \in [Servers -> SUBSET Address]
    /\ host \in [Servers -> Hosts]
    /\ up \subseteq Hosts
    /\ changes \in 0 .. MaxChanges
    /\ pc \in Labels
    /\ call \in Calls
    /\ cloud \in BOOLEAN
    /\ addr \in Resolved
    /\ portAddr \in Resolved
    /\ vm \in Devices \cup {NoServer}
    /\ list \in Lists
    /\ resp \in Answers

-----------------------------------------------------------------------------
(***************************************************************************)
(* The argument check.                                                     *)
(***************************************************************************)

\* createOpArgsMap: how many arguments follow the operation.  A word that is
\* no operation has no entry, which counts as none required.
Required(op) ==
    CASE op \in {"mountdevice", "detach"} -> 2
      [] op \in {"init", "getvolumename", "unknown", "missing"} -> 0
      [] OTHER -> 1

Optional(op) ==
    IF op \in {"getvolumename", "isattached", "attach", "waitforattach", "mountdevice", "mount"}
    THEN 1
    ELSE 0

\* The greatest index of args createRespMsg uses for the operation.
Indexed(op) ==
    CASE op \in {"init", "unknown"} -> 0
      [] op \in {"isattached", "attach", "waitforattach", "mount", "detach"} -> 2
      [] op = "mountdevice" -> 3
      [] OTHER -> 1

\* A variant that counts the operation itself as an argument.
CountsOperation(c) == c.args + 1 >= Required(c.op)

ValidateArgs(c) == c.args >= Required(c.op)

\* Operations createRespMsg makes a client for, and those that use it.
NeedsCloud(op) == op \in {"attach", "detach", "isattached"}
UsesCloud(op)  == op \in {"attach", "detach", "isattached"}

-----------------------------------------------------------------------------
(***************************************************************************)
(* The lookups.                                                            *)
(***************************************************************************)

\* A name that is an address, of either version, is returned as it is; of the
\* addresses of another name the first of version 4, in the order DNS gives them,
\* which is any.  A lookup that fails and a name without such an address give the
\* empty string.  A variant takes the first address of either version.
AnyAddress(n)         == IF n \in Address THEN {n} ELSE dns[n] \cup {NoAddress}
ResolveNodeAddress(n) == IF n \in Address THEN {n} ELSE (dns[n] \cap V4) \cup {NoAddress}

DevicesAt(a) == {d \in Devices : <<a, d>> \in ports}

\* The device of the one port with the address; none or several are an error,
\* for which NoServer stands.
GetServerIDFromNodeName(a) ==
    IF \E d \in DevicesAt(a) : DevicesAt(a) = {d}
    THEN CHOOSE d \in DevicesAt(a) : TRUE
    ELSE NoServer

\* Address -> server: a server overwrites those before it in the list.
Holders(addrs, a) == {s \in Servers : a \in addrs[s]}

CreateVMIPToVMDetailsMap(addrs) ==
    [a \in Address |->
        IF Holders(addrs, a) = {}
        THEN NoServer
        ELSE CHOOSE s \in Holders(addrs, a) :
                \A t \in Holders(addrs, a) : ListedAt[t] <= ListedAt[s]]

\* The map of hypervisors by name, each entry with a copy of its own; "none" for
\* one that is not in it.  A variant keeps the address of the loop variable:
\* whatever hypervisor comes last in the list is found under every name.
TypesShared(h) ==
    IF h \in up THEN {HypOf[l] : l \in up} ELSE {"none"}

CreateHostnameToDetailsMap(h) == IF h \in up THEN {HypOf[h]} ELSE {"none"}

-----------------------------------------------------------------------------
(***************************************************************************)
(* The call.                                                               *)
(***************************************************************************)
NothingListed == [failed |-> TRUE, addrs |-> [s \in Servers |-> {}], host |-> host]

\* The process starts with up to one argument more than any operation takes.
\* Neutron and Nova agree so far: what they disagree on later are changes.
Init ==
    /\ dns \in [Names -> {{a} : a \in V4}]
    /\ \E owner \in [Address -> Devices] :
        /\ ports = {<<a, owner[a]>> : a \in Address}
        /\ listed = [s \in Servers |-> {a \in Address : owner[a] = s}]
    /\ host \in [Servers -> Hosts]
    /\ up = Hosts
    /\ changes = 0
    /\ pc = "main"
    /\ call \in [op : Operations \cup {"unknown"}, args : 0 .. 4, node : Nodes]
              \cup [op : {"missing"}, args : {0}, node : Nodes]
    /\ cloud = FALSE
    /\ addr = NoAddress
    /\ portAddr = NoAddress
    /\ vm = NoServer
    /\ list = NothingListed
    /\ resp = NoAnswer

Answer(r) == pc' = "answered" /\ resp' = r /\ UNCHANGED <<call, world, local>>

Panic == pc' = "panicked" /\ UNCHANGED <<call, resp>>

Goto(label) == pc' = label /\ UNCHANGED <<call, resp>>

\* main takes the operation from an empty list.
NoOperation ==
    /\ pc = "main"
    /\ call.op = "missing"
    /\ Panic
    /\ UNCHANGED <<world, local>>

Refuse ==
    /\ pc = "main"
    /\ call.op # "missing"
    /\ ~ValidateArgs(call)
    /\ Answer(Failed)

Main ==
    /\ pc = "main"
    /\ call.op # "missing"
    /\ ValidateArgs(call)
    /\ Goto(IF NeedsCloud(call.op) THEN "initCloud" ELSE "dispatch")
    /\ UNCHANGED <<world, local>>

\* The configuration is read and Keystone asked for a token.
InitCloud ==
    /\ pc = "initCloud"
    /\ cloud' = TRUE
    /\ Goto("dispatch")
    /\ UNCHANGED <<world, addr, portAddr, vm, list>>

\* createRespMsg takes the arguments it passes on; one that is not there, or a
\* client that was not made, ends the process.
Dispatch ==
    /\ pc = "dispatch"
    /\ IF call.args < Indexed(call.op) \/ (UsesCloud(call.op) /\ ~cloud)
       THEN Panic
       ELSE Goto(IF UsesCloud(call.op) THEN "resolve" ELSE "operate")
    /\ UNCHANGED <<world, local>>

\* GetVMID resolves the name and asks Neutron for the port.
ResolveForPort ==
    /\ pc = "resolve"
    /\ addr' \in ResolveNodeAddress(call.node)
    /\ portAddr' = addr'
    /\ Goto("port")
    /\ UNCHANGED <<world, cloud, vm, list>>

GetVMID ==
    /\ pc = "port"
    /\ addr # NoAddress
    /\ GetServerIDFromNodeName(addr) # NoServer
    /\ vm' = GetServerIDFromNodeName(addr)
    /\ Goto("operate")
    /\ UNCHANGED <<world, cloud, addr, portAddr, list>>

\* The rest of every operation but attach, and of an unknown one.
Operate ==
    /\ pc = "operate"
    /\ call.op # "attach"
    /\ IF call.op \in Operations THEN Answer(Success) ELSE Answer(Empty)

\* The volume, its metadata and the attachment to vm: see FlexAttach.
Attach ==
    /\ pc = "operate"
    /\ call.op = "attach"
    /\ vm \in Servers
    /\ Goto("again")
    /\ UNCHANGED <<world, local>>

\* The name is resolved once more, for the path.
ResolveForPath ==
    /\ pc = "again"
    /\ addr' \in ResolveNodeAddress(call.node)
    /\ Goto("list")
    /\ UNCHANGED <<world, cloud, portAddr, vm, list>>

\* An empty list is not an error, and its first element is logged.
GetAllOSVMs ==
    /\ pc = "list"
    /\ \E failure \in BOOLEAN :
        /\ list' = Listing(failure)
        /\ \/ Goto("hypervisors")
           \/ ~failure /\ (\A s \in Servers : listed[s] = {}) /\ Panic
    /\ UNCHANGED <<world, cloud, addr, portAddr, vm>>

\* The server the list has under the address, NoServer also for a list that
\* failed and for a name that was not resolved.
ListedServer ==
    IF list.failed \/ addr = NoAddress
    THEN NoServer
    ELSE CreateVMIPToVMDetailsMap(list.addrs)[addr]

\* Another type of hypervisor makes an empty path.
PathBy(type) == IF type = "other" THEN "none" ELSE type

GetVolumeDirectoryName ==
    /\ pc = "hypervisors"
    /\ \E type \in IF ListedServer = NoServer
                   THEN {"none"}
                   ELSE CreateHostnameToDetailsMap(list.host[ListedServer]) :
        Answer([status |-> "Success", by |-> PathBy(type)])

\* Operations that answer nothing but Success once they are dispatched; what
\* fails in isattached after the port lookup counts as "not attached".
NeverFail == {"init", "getvolumename", "waitfordetach", "isattached", "unknown"}

\* The other requests and operations may fail.  The server list may not: its
\* error is dropped.
Fail ==
    /\ pc \in {"initCloud", "port", "operate", "hypervisors"}
    /\ pc = "operate" => call.op \notin NeverFail
    /\ Answer(Failed)

Driver ==
    \/ NoOperation \/ Refuse \/ Main \/ InitCloud \/ Dispatch
    \/ ResolveForPort \/ GetVMID \/ Attach \/ ResolveForPath \/ GetAllOSVMs
    \/ GetVolumeDirectoryName
    \/ Operate \/ Fail

-----------------------------------------------------------------------------
(***************************************************************************)
(* What changes meanwhile.                                                 *)
(***************************************************************************)
\* Only attach looks at any of it twice.  Changes before its first lookup are
\* those of the step "resolve".
Change ==
    /\ call.op = "attach"
    /\ pc \in {"resolve", "port", "operate", "again", "list", "hypervisors"}
    /\ changes < MaxChanges
    /\ changes' = changes + 1
    /\ UNCHANGED <<pc, call, local, resp>>

DNSChanges ==
    /\ Change
    /\ \E n \in Names, answer \in SUBSET Address : dns' = [dns EXCEPT ![n] = answer]
    /\ UNCHANGED <<ports, listed, host, up>>

\* Two networks may use one address, so a new port may repeat it.
PortMade ==
    /\ Change
    /\ \E a \in Address, d \in Devices : ports' = ports \cup {<<a, d>>}
    /\ UNCHANGED <<dns, listed, host, up>>

PortRemoved ==
    /\ Change
    /\ \E p \in ports : ports' = ports \ {p}
    /\ UNCHANGED <<dns, listed, host, up>>

\* Nova brings what it cached of a server's ports up to date.
NovaRefreshes ==
    /\ Change
    /\ \E s \in Servers : listed' = [listed EXCEPT ![s] = {a \in Address : <<a, s>> \in ports}]
    /\ UNCHANGED <<dns, ports, host, up>>

Migrated ==
    /\ Change
    /\ \E s \in Servers, h \in Hosts : host' = [host EXCEPT ![s] = h]
    /\ UNCHANGED <<dns, ports, listed, up>>

HostRemoved ==
    /\ Change
    /\ \E h \in up : up' = up \ {h}
    /\ UNCHANGED <<dns, ports, listed, host>>

World == DNSChanges \/ PortMade \/ PortRemoved \/ NovaRefreshes \/ Migrated \/ HostRemoved

Next == Driver \/ World

Spec == Init /\ [][Next]_vars

-----------------------------------------------------------------------------
\* A process that panics was started without an operation, or lacks an argument
\* that createOpArgsMap calls optional, or met a server list in which nothing
\* has an address: every call that has all its arguments, required and optional,
\* and finds servers gets an answer.
PanicsExplained ==
    pc = "panicked" =>
        \/ call.op = "missing"
        \/ /\ call.args >= Required(call.op)
           /\ call.args < Required(call.op) + Optional(call.op)
        \/ /\ call.op = "attach" /\ ~list.failed
           /\ \A s \in Servers : list.addrs[s] = {}

\* The sources of the second lookup disagree with those of the first: the name
\* was resolved to another address, or Nova's list has another server, perhaps
\* next to the right one, under the address.
Contradicted ==
    \/ addr # portAddr
    \/ \E s \in Servers \ {vm} : addr \in list.addrs[s]

\* The second lookup lacks something: the list or the name failed, Nova does not
\* have the server under the address, or its hypervisor is not listed.
Incomplete ==
    \/ list.failed
    \/ addr = NoAddress
    \/ addr \notin list.addrs[vm]
    \/ list.host[vm] \notin up

\* The path attach answers is the one of the hypervisor on which Nova listed
\* the server that got the volume; a path by another rule takes a contradiction,
\* an empty one for a known hypervisor takes that or a lookup that found
\* nothing.  Nothing but the address ties the two lookups to one server.
PathExplained ==
    (pc = "answered" /\ call.op = "attach" /\ resp.status = "Success") =>
        \/ Contradicted
        \/ Incomplete /\ resp.by = "none"
        \/ resp.by = PathBy(HypOf[list.host[vm]])
=============================================================================

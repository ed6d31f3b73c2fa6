---------------------------- MODULE AttachService ----------------------------
(***************************************************************************)
(* What the attach side of the driver promises, without its requests: a    *)
(* call changes at most one attachment, the one it was asked about, and    *)
(* answers Success only after that change.  A call that answers Failed or  *)
(* dies promises nothing: the change may have been made.                   *)
(***************************************************************************)
CONSTANTS Calls, VMs, Volumes, Bindings, PortsOf, ValidRequests, NoReq

VARIABLES
    nova,       \* <<VM, volume>> -> state of the attachment
    req,        \* per call: what was asked, NoReq when idle
    applied,    \* per call: an attach that made its attachment
    outcome     \* per call: status and, for isattached, the verdict

vars == <<nova, req, applied, outcome>>

Outcome(s, a) == [status |-> s, attached |-> a]

Init ==
    /\ nova = [p \in VMs \X Volumes |-> "none"]
    /\ req = [c \in Calls |-> NoReq]
    /\ applied = [c \in Calls |-> FALSE]
    /\ outcome = [c \in Calls |-> Outcome("none", FALSE)]

Finish(c, o) ==
    /\ req' = [req EXCEPT ![c] = NoReq]
    /\ applied' = [applied EXCEPT ![c] = FALSE]
    /\ outcome' = [outcome EXCEPT ![c] = o]

Begin(c) ==
    /\ req[c] = NoReq
    /\ \E r \in ValidRequests : req' = [req EXCEPT ![c] = r]
    /\ outcome' = [outcome EXCEPT ![c] = Outcome("none", FALSE)]
    /\ UNCHANGED <<nova, applied>>

\* The servers a call may mean: the device of the only port with the address.
ServersOf(node) == {vm \in VMs : PortsOf[node] = {vm}}

\* A non-multi-attach volume being attached twice is the platform's to refuse;
\* the driver's part is that the pair is the one asked for and was free.
Attach(c) ==
    /\ req[c].op = "attach"
    /\ ~applied[c]
    /\ \E vm \in ServersOf(req[c].node) :
        /\ nova[<<vm, req[c].vol>>] = "none"
        /\ nova' = [nova EXCEPT ![<<vm, req[c].vol>>] = "attaching"]
    /\ \/ applied' = [applied EXCEPT ![c] = TRUE] /\ UNCHANGED <<req, outcome>>
       \/ Finish(c, Outcome("Failed", FALSE))

Attached(c) ==
    /\ applied[c]
    /\ Finish(c, Outcome("Success", FALSE))
    /\ UNCHANGED nova

\* Only a volume the name is bound to, and only on the node that was named.
Detach(c) ==
    /\ req[c].op = "detach"
    /\ \E vm \in ServersOf(req[c].node), v \in Volumes :
        /\ <<req[c].pv, v>> \in Bindings
        /\ nova[<<vm, v>>] = "attached"
        /\ nova' = [nova EXCEPT ![<<vm, v>>] = "detaching"]
    /\ \E s \in {"Success", "Failed"} : Finish(c, Outcome(s, FALSE))

\* True is never answered for a pair that Nova does not know.
Report(c) ==
    /\ req[c].op = "isattached"
    /\ \E verdict \in BOOLEAN :
        /\ verdict => \E vm \in ServersOf(req[c].node) : nova[<<vm, req[c].vol>>] # "none"
        /\ Finish(c, Outcome("Success", verdict))
    /\ UNCHANGED nova

GiveUp(c) ==
    /\ req[c] # NoReq
    /\ \E s \in {"none", "Failed"} : Finish(c, Outcome(s, FALSE))
    /\ UNCHANGED nova

Settle(vm, v, from, to) ==
    /\ nova[<<vm, v>>] = from
    /\ nova' = [nova EXCEPT ![<<vm, v>>] = to]
    /\ UNCHANGED <<req, applied, outcome>>

Next ==
    \/ \E c \in Calls :
        \/ Begin(c) \/ Attach(c) \/ Attached(c) \/ Detach(c) \/ Report(c) \/ GiveUp(c)
    \/ \E vm \in VMs, v \in Volumes :
        \/ \E to \in {"attached", "none"} : Settle(vm, v, "attaching", to)
        \/ \E to \in {"attached", "none"} : Settle(vm, v, "detaching", to)

Spec == Init /\ [][Next]_vars
=============================================================================

-------------------------- MODULE FlexAttachHistory --------------------------
(***************************************************************************)
(* FlexAttach with a history variable: the attachments that attach has     *)
(* answered Success for and that nobody has asked to detach since.  It     *)
(* constrains nothing: every behaviour of FlexAttach is one of this module *)
(* with some value of held.                                                *)
(***************************************************************************)
EXTENDS FlexAttach

VARIABLE held       \* <<PV name, volume, VM>>

varsH == <<status, pvMeta, nova, pc, req, vmID, volume, polls, resp, held>>

\* What a step makes sure of, and what it asks to give up.
Granted ==
    {<<req[c].pv, req[c].vol, vmID[c]>> :
        c \in {d \in Calls : req[d].op = "attach" /\ resp'[d].status = "Success"}}

GivenUp ==
    {h \in held \cup Granted : \E c \in Calls : req'[c].op = "detach" /\ req'[c].pv = h[1]}

InitH == Init /\ held = {}
NextH == Next /\ held' = (held \cup Granted) \ GivenUp
SpecH == InitH /\ [][NextH]_varsH

\* A PV whose attach answered Success, which nobody has asked to detach since and
\* whose volume is still attached, can be detached: its name leads to its volume
\* and no other.  The comment says the name is stored to identify the volume in
\* detach (main.go:120-121); a second PV over the same volume overwrites it.
HeldIsFound ==
    \A h \in held : nova[<<h[3], h[2]>>] # "none" => Matches(h[1]) = {h[2]}
=============================================================================

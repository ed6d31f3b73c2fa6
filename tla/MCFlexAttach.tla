---------------------------- MODULE MCFlexAttach ----------------------------
(* Small instances of FlexAttach. *)
EXTENDS FlexAttach, TLC

CONSTANTS c1, c2, n1, n2, n3, vm1, vm2, v1, v2, p1, p2

\* One PV and one volume per claim.
MCOneToOne == {<<p1, v1>>, <<p2, v2>>}

\* Two static PVs over the same volume.
MCShared == {<<p1, v1>>, <<p2, v1>>}

\* A server per node.
MCTwoServers == (n1 :> {vm1}) @@ (n2 :> {vm2})

\* The address of n3 belongs to a port of no server.
MCPorts == MCTwoServers @@ (n3 :> {NoVM})

\* Between them, with the registration that may be missing, every kind of path.
MCHost == [v \in Volumes |-> IF v = v1 THEN "gpfs" ELSE "xiv"]

\* The ids start alike up to the 20th character.
MCHead   == [v \in Volumes |-> "head"]
MCDigits == [v \in Volumes |-> IF v = v1 THEN "digits1" ELSE "digits2"]
MCWWN    == [v \in Volumes |-> IF v = v1 THEN "wwn1" ELSE "wwn2"]

\* The two nodes with a server change places with their servers.
MCSwap == (n1 :> n2) @@ (n2 :> n1) @@ (vm1 :> vm2) @@ (vm2 :> vm1)

MCSymmetry == Permutations(Calls) \cup {MCSwap}
=============================================================================

--------------------------- MODULE MCNodeMountData ---------------------------
(* The small instance of NodeMountHistory: three PVs over one volume. *)
EXTENDS NodeMountHistory

CONSTANTS n1, n2, n3

MCFsTypes ==
    [n \in Nodes |-> CASE n = n1 -> "unset" [] n = n2 -> "listed" [] n = n3 -> "unlisted"]
=============================================================================

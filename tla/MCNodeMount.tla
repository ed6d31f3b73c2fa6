----------------------------- MODULE MCNodeMount -----------------------------
(* Small instances of NodeMount. *)
EXTENDS NodeMount, TLC

MCUnset == [n \in Nodes |-> "unset"]

MCUnlisted == [n \in Nodes |-> "unlisted"]

MCSymmetry == Permutations(Nodes)
=============================================================================

----------------------------- MODULE MCLifecycle -----------------------------
(* A small instance of Lifecycle: two of everything. *)
EXTENDS Lifecycle, TLC

MCSymmetry == Permutations(Nodes) \cup Permutations(Ids) \cup Permutations(Claims)
=============================================================================

---------------------------- MODULE MCDriverCall ----------------------------
(* Small instances of DriverCall. *)
EXTENDS DriverCall, TLC

CONSTANTS s1, s2,       \* servers, in the order Nova lists them
          h1, h2        \* hypervisors of two types

MCListedAt == s1 :> 1 @@ s2 :> 2
MCHypOf    == h1 :> "kvm" @@ h2 :> "powervm"
MCSymmetry == Permutations(V4)
=============================================================================

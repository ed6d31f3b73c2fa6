---------------------------- MODULE MCProvisioner ----------------------------
(* Small instances of ProvisionerHistory. *)
EXTENDS ProvisionerHistory, TLC

MCSymmetry == Permutations(Ids)
=============================================================================

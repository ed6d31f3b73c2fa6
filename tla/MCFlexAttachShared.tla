------------------------- MODULE MCFlexAttachShared -------------------------
(* The small instance of FlexAttachHistory with two PVs over one volume. *)
EXTENDS FlexAttachHistory, MCFlexAttach
=============================================================================

--------------------------- MODULE MCPipedCommands ---------------------------
(* Small instances of PipedCommands. *)
EXTENDS PipedCommands
=============================================================================

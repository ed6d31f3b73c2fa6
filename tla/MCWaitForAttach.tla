--------------------------- MODULE MCWaitForAttach ---------------------------
(***************************************************************************)
(* A small instance of WaitForAttach: with three processes and two         *)
(* attempts a process can time out while a second one holds the lock and a *)
(* third one still waits for it.                                           *)
(***************************************************************************)
EXTENDS WaitForAttach
=============================================================================

--------------------------- MODULE MCDeviceCleanup ---------------------------
(* Small instances of DeviceCleanup. *)
EXTENDS DeviceCleanup, TLC

CONSTANTS db, db2, log  \* volumes, the directory of db2 being that of db and "-2"

MCPaths    == db :> 1 @@ db2 :> 2 @@ log :> 1
MCKind     == db :> "plain" @@ db2 :> "mpath" @@ log :> "wwid"
MCWithin   == {<<db, db2>>}
MCSymmetry == Permutations(Names)
=============================================================================

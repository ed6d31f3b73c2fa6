SPECIFICATION Spec
CONSTANTS
  db = db
  db2 = db2
  log = log
  Volumes = {db, db2, log}
  NoVolume = NoVolume
  Names = {sda, sdb, sdc}
  Paths <- MCPaths
  Kind <- MCKind
  Within <- MCWithin
  Faults = {"command", "sysfs", "crash"}
SYMMETRY MCSymmetry
INVARIANTS
  TypeOK
  LeftForAReason
PROPERTIES
  DeletesOwnDevices
  ImplementsMountService

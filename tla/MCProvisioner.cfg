SPECIFICATION SpecH
CONSTANTS
  Claims = {k1, k2, k3}
  BadClaims = {k3}
  Ids = {i1, i2, i3}
  NoId = NoId
  MaxPolls = 2
  Faults = {"request", "read", "cleanup", "lost", "save", "crash"}
SYMMETRY MCSymmetry
INVARIANTS
  TypeOK
  PVBacked
  UnreadyOnlyAfterTimeout
  OrphanedForAReason
PROPERTIES
  ImplementsStore
  OperationsRunOut

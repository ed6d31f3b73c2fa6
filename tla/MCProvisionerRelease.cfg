SPECIFICATION FairSpec
CONSTANTS
  Claims = {k1, k2}
  BadClaims = {}
  Ids = {i1, i2}
  NoId = NoId
  MaxPolls = 2
  Faults = {"request", "read", "cleanup", "lost", "save", "crash"}
PROPERTY ReleasedGoes
CHECK_DEADLOCK FALSE

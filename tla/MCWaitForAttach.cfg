SPECIFICATION FairSpec
CONSTANTS
  Procs = {q1, q2, q3}
  Volumes = {v1}
  Nobody = Nobody
  Dead = Dead
  MaxTryLock = 2
  MaxFind = 2
INVARIANTS
  TypeOK
  LockHeldByScanner
  ScanUnlockedOnlyAfterTimeout
PROPERTIES
  OnlyHolderReleases
  AttemptsRunOut
  CallsEnd

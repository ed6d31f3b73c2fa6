SPECIFICATION FairSpec
CONSTANTS
  N = 4
  Capacity = 2
  Faults = {"start1", "start2", "kill1", "kill2"}
INVARIANTS
  TypeOK
  OutputComplete
  NothingLeft
  NoCircularWait
PROPERTIES
  WorkGoesDown
  Returns
CHECK_DEADLOCK FALSE

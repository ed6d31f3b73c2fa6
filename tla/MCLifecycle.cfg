SPECIFICATION Spec
CONSTANTS
  Claims = {k1, k2}
  Ids = {i1, i2}
  NoId = NoId
  NoName = NoName
  Nodes = {n1, n2}
SYMMETRY MCSymmetry
INVARIANTS
  PodsKeepVolumes
  AttachedIsFound
CHECK_DEADLOCK FALSE

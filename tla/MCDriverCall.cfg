SPECIFICATION Spec
CONSTANTS
  s1 = s1
  s2 = s2
  h1 = h1
  h2 = h2
  Names = {n1}
  V4 = {a1, a2}
  V6 = {x1}
  NoAddress = NoAddress
  Servers = {s1, s2}
  Others = {r1}
  NoServer = NoServer
  ListedAt <- MCListedAt
  Hosts = {h1, h2}
  HypOf <- MCHypOf
  MaxChanges = 2
SYMMETRY MCSymmetry
INVARIANTS
  TypeOK
  PanicsExplained
  PathExplained
CHECK_DEADLOCK FALSE

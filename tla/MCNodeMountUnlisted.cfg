SPECIFICATION Spec
CONSTANTS
  Nodes = {n1, n2, n3}
  Multipath = {}
  MultiAttach = FALSE
  Before = {"none", "listed"}
  FsType <- MCUnlisted
  Faults = {}
PROPERTY DataKept

SPECIFICATION Spec
CONSTANTS
  Nodes = {n1, n2, n3}
  Multipath = {n1}
  MultiAttach = FALSE
  Before = {"none", "listed"}
  FsType <- MCUnset
  Faults = {}
PROPERTY MapRemoved

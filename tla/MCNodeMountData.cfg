SPECIFICATION SpecH
CONSTANTS
  n1 = n1
  n2 = n2
  n3 = n3
  Nodes = {n1, n2, n3}
  Multipath = {n1, n2, n3}
  MultiAttach = TRUE
  Before = {"none", "listed", "unlisted"}
  FsType <- MCFsTypes
  Faults = {"command", "lsblk", "refused", "lookup", "sysfs", "corrupt", "crash"}
INVARIANT TypeOK
PROPERTIES
  DataLostForAReason
  ImplementsMountService

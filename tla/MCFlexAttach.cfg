SPECIFICATION Spec
CONSTANTS
  c1 = c1
  c2 = c2
  n1 = n1
  n2 = n2
  n3 = n3
  vm1 = vm1
  vm2 = vm2
  v1 = v1
  v2 = v2
  p1 = p1
  p2 = p2
  NoVol = NoVol
  NoKey = NoKey
  NoVM = NoVM
  NoName = NoName
  Calls = {c1, c2}
  Nodes = {n1, n2}
  VMs = {vm1, vm2}
  Volumes = {v1, v2}
  PVNames = {p1, p2}
  Bindings <- MCOneToOne
  PortsOf <- MCTwoServers
  MultiAttach = {v2}
  Hypervisors = {"kvm", "powervm"}
  HostOf <- MCHost
  WWNLate = {v1}
  IdHead <- MCHead
  IdDigits <- MCDigits
  WWN <- MCWWN
  MaxPolls = 2
SYMMETRY MCSymmetry
INVARIANTS
  TypeOK
  AttachmentNamed
  DetachIdentifies
PROPERTIES
  ImplementsService
  RequestsRunOut
  PathNamesVolume

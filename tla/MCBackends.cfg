SPECIFICATION Spec
CONSTANTS
  n0 = n0
  d1 = d1
  d2 = d2
  k0 = k0
  k1 = k1
  k2 = k2
  k3 = k3
  i0 = i0
  i1 = i1
  i2 = i2
  i3 = i3
  None = None
  Backends <- AllBackends
  ModesOf <- SomeModes
  Subnets <- AllSubnets
  OwnSubnet = n0
  AttrsOf <- MixedAttrs
  Ids <- AllIds
  Ips <- AllIps
  DirectIps <- NoneOrOneNear
  WgModes <- AllWgModes
  Public <- SomePublic
  MaxBatch = 1
  MaxSnapshot <- SomeSnapshots
  MaxResults = 3
  MaxFaults = 1
  MaxMoves = 1
  CtlCapacity = 2
  MaxPackets = 2
INVARIANTS
  BackendKnows
  VxFollows
  WgFollows
  IpsecFollows
  UdpInSync
PROPERTIES
  BackendEnds
CHECK_DEADLOCK FALSE

SPECIFICATION FairSpec
CONSTANTS
  ipx = ipx
  None = None
  Bad = Bad
  Hosts <- SomeHosts
  IfaceOpts <- SomeIfaceOpts
  AttrsSet <- BackendAttrs
  OverwriteIps <- OneIp
  Cidrs <- SomeCidrs
  OptsSet <- AllOpts
  MaxWrites = 2
  MaxFaults = 1
  MaxRestarts = 1
INVARIANTS
  AnnotationsFollow
  ReadyMeansServing
  ExitsClean
  InterfaceFits
PROPERTIES
  Stops
CHECK_DEADLOCK FALSE

SPECIFICATION FairSyncSpec
CONSTANTS
  n1 = n1
  n2 = n2
  c1 = c1
  c2 = c2
  Nodes <- TwoNodes
  Cidrs <- TwoCidrs
  CidrsOf <- AnyCidr
  Versions <- ThreeVersions
  Malformed <- NoAddress
  Depth = 2
  Slots = 1
  MaxChanges = 5
  MaxBreaks = 1
INVARIANTS
  StoreIsRevision
  LeasesFollowNodes
PROPERTY
  Settles
CHECK_DEADLOCK FALSE

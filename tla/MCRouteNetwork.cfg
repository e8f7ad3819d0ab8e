SPECIFICATION FairSpec
CONSTANTS
  d1 = d1
  d2 = d2
  g1 = g1
  g2 = g2
  NoGateway = NoGateway
  Foreign = Foreign
  Subnets <- TwoSubnets
  Gateways <- TwoGateways
  GatewaysOf <- OneStable
  MaxEvents = 3
  MaxFlushes = 1
  MaxFaults = 1
INVARIANTS
  RoutesFollowPeers
PROPERTIES
  Healed
  RunReturns
CHECK_DEADLOCK FALSE

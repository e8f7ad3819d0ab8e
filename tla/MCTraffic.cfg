SPECIFICATION FairTrafficSpec
CONSTANTS
  s1 = s1
  s2 = s2
  NoSubnet = NoSubnet
  Missing = Missing
  Subnets <- TwoSubnets
  TableNames <- BothTables
  MaxEdits = 3
  MaxFailures = 1
  MaxRestarts = 1
INVARIANTS
  MasqDecisions
  ManagersAgree
PROPERTY
  Resynced
CHECK_DEADLOCK FALSE

SPECIFICATION FairSpec
CONSTANTS
  Pods = {p1, p2}
  Envs <- MCEnvs
  LegacyCni = FALSE
  UserIpam = FALSE
  MaxFaults = 1
  MaxChanges = 1
  None = None
INVARIANTS
  Released
  AddedIsMasqueraded
PROPERTIES
  CommandsEnd
CHECK_DEADLOCK FALSE

SPECIFICATION FairSpec
CONSTANTS
  Configs <- MCConfigs
  Subnets = {"s1", "s2"}
  Leftovers <- MCLeftovers
  MaxIds = 17
  MaxKills = 1
  MaxEvents = 2
  Defaults <- P1
  EnvKeys = FALSE
  None = None
INVARIANTS
  AnnouncedIsDevice
  RegisteredFits
PROPERTIES
  IdentityKept
  Registers

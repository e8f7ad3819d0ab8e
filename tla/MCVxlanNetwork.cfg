SPECIFICATION FairSpec
CONSTANTS
  HasDevice = TRUE
  WatcherMayEnd = TRUE
  MaxBatches = 2
  MaxLosses = 3
  MaxFaults = 1
INVARIANTS
  LossNoticed
PROPERTIES
  Ends
  AllHandled
  DeviceRestored
CHECK_DEADLOCK FALSE

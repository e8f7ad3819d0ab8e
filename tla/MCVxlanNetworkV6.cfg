SPECIFICATION FairSpec
CONSTANTS
  HasDevice = FALSE
  WatcherMayEnd = FALSE
  MaxBatches = 2
  MaxLosses = 0
  MaxFaults = 0
PROPERTY
  RunReturns
CHECK_DEADLOCK FALSE

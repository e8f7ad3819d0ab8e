SPECIFICATION FairLoopSpec
CONSTANTS
  Kinds <- AllKinds
  MaxResults = 4
  MaxFaults = 2
INVARIANTS
  ErrorsNeverEndRun
PROPERTY
  Progress
CHECK_DEADLOCK FALSE

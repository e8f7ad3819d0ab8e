SPECIFICATION FairSpec
CONSTANTS
  Depth = 2
  Slots = 2
  MaxEvents = 6
INVARIANTS
  Conserved
  BackpressureNotLoss
  OvertakenOnlyIfRetried
PROPERTY
  EventuallyQueued
CHECK_DEADLOCK FALSE

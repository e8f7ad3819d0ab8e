SPECIFICATION FairSpec
CONSTANTS
  s1 = s1
  s2 = s2
  Subscribers <- TwoSubscribers
  Capacity = 2
  MaxEvents = 4
INVARIANTS
  ContiguousDelivery
PROPERTIES
  ImplementsBroadcast
  EventuallyDelivered
CHECK_DEADLOCK FALSE

CONSTANTS
  Producers = {p1, p2}
  Consumers = {c1, c2}
  Cap = 2
  MaxEmplaces = 2
  MaxPopped = 4
  Garbage = Garbage

SPECIFICATION FairSpec
INVARIANT PoppedInOrder
PROPERTIES ImplementsLocked EmplaceReturns
CHECK_DEADLOCK FALSE

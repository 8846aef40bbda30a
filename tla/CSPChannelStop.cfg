CONSTANTS
  Producers = {p1}
  Consumers = {c1}
  Capacities = {1}
  MaxSends = 1
  NoThread = NoThread

SPECIFICATION FairSpec
PROPERTY StopEndsRecv
CHECK_DEADLOCK FALSE

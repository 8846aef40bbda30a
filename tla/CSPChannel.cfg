CONSTANTS
  Producers = {p1, p2}
  Consumers = {c1, c2}
  Capacities = {0, 2}
  MaxSends = 2
  NoThread = NoThread

SPECIFICATION FairSpec
INVARIANTS TypeOK FifoDelivery CapacityRespected WakeupsSuffice
PROPERTIES EndIsFinal EverythingDelivered SendReturns ImplementsFifo
CHECK_DEADLOCK FALSE

CONSTANTS
  Producers = {p1}
  Consumers = {c1, c2}
  Cap = 1
  MaxEmplaces = 3
  MaxPopped = 3
  Garbage = Garbage

SPECIFICATION Spec
INVARIANT NoOldData
CHECK_DEADLOCK FALSE

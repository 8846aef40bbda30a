CONSTANTS
  Threads = {t1, t2, t3}
  Values = {x, y}
  NoValue = NoValue
  NoThread = NoThread
  MaxPushes = 3

SPECIFICATION Spec
INVARIANT EndsAlive
PROPERTY ImplementsSafeQueue
CHECK_DEADLOCK FALSE

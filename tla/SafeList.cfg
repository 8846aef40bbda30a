CONSTANTS
  Threads = {t1, t2, t3}
  NoThread = NoThread
  MaxCalls = 4
  MaxPushes = 3

SPECIFICATION FairSpec
INVARIANTS PushedInOrder ForEachComplete
PROPERTY CallsReturn
CHECK_DEADLOCK FALSE

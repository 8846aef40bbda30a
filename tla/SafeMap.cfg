CONSTANTS
  Threads = {t1, t2, t3}
  Keys = {0, 1, 2}
  Values = {x, y}
  NoValue = NoValue
  NoThread = NoThread
  NumBuckets = 2
  MaxCalls = 3

SPECIFICATION FairSpec
INVARIANT OneEntryPerKey
PROPERTIES ImplementsAtomicMap CallsReturn
CHECK_DEADLOCK FALSE

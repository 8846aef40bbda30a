CONSTANTS
  Workers = {w1, w2}
  Clients = {c1, c2}
  MaxCommits = 2
  NoThread = NoThread

SPECIFICATION FairSpec
INVARIANTS TakenInOrder WakeupsSuffice
PROPERTIES EveryTaskStarts StopReturns
CHECK_DEADLOCK FALSE

CONSTANTS
  s1 = s1
  s2 = s2
  Sessions = {s1, s2}
  MAX_LENGTH = 4
  MAX_SENDQUE = 1
  Scripts <- MCScripts
  NoSession = NoSession

SPECIFICATION FairSpec
INVARIANTS TypeOK Reassembly EchoInOrder OneWriteAtATime NoZombie
PROPERTIES EchoReturns ClearedIsReleased
CHECK_DEADLOCK FALSE

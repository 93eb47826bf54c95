SPECIFICATION FairSpec
CONSTANTS
  MaxMounts = 4
  Slow = {1, 2, 3}
  Stuck = {2}
INVARIANTS
  TypeOK
  ReturnedOwn
  ReturnedComplete
  NoSendAfterClose
PROPERTIES
  ReturnsUnlessTimedOut
CHECK_DEADLOCK FALSE

SPECIFICATION FairSpec
CONSTANTS
  MaxMounts = 3
  Slow = {1}
  Stuck = {}
PROPERTIES
  Returns
CHECK_DEADLOCK FALSE

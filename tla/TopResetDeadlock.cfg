SPECIFICATION FairSpec
CONSTANTS
  Views = {v1, v2}
  FirstView = v1
  NoView = NoView
  Answers = {}
  Extras = {0}
  Keys = {"switch"}
  Exits = {"crash"}
  Failures = {"reset"}
  MaxGen = 2
  MaxOrphanGen = 0
  MaxPend = 2
PROPERTIES
  RestartCompletes
CHECK_DEADLOCK FALSE

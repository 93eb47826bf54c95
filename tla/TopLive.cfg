SPECIFICATION FairSpec
CONSTANTS
  Views = {v1, v2}
  FirstView = v1
  NoView = NoView
  Answers = {}
  Extras = {0}
  Keys = {"switch"}
  Exits = {"crash", "program"}
  Failures = {}
  MaxGen = 2
  MaxOrphanGen = 0
  MaxPend = 1
INVARIANTS
  OneQuerier
  NoTickerPanic
  NoZeroFrame
PROPERTIES
  HandlersReturn
  RestartCompletes
  ScreenFollows
CHECK_DEADLOCK FALSE

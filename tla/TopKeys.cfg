SPECIFICATION Spec
CONSTANTS
  Views = {v1, v2}
  FirstView = v1
  NoView = NoView
  Answers = {0, 1, 5, 301}
  Extras = {0, 1}
  Keys = {"switch", "refresh", "extra", "verbose", "reload", "resend"}
  Exits = {"program"}
  Failures = {"new", "first", "collect", "reset"}
  MaxGen = 1
  MaxOrphanGen = 1
  MaxPend = 1
INVARIANTS
  TypeOK
  DeltaOfOneView
  CollectorFollows
  RefreshAsAsked
CHECK_DEADLOCK FALSE

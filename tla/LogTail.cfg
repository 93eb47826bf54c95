SPECIFICATION Spec
CONSTANTS
  Paths = {"a", "b"}
  StartPath = "a"
  FallbackPath = "b"
  LinesLimit = 1
  BufSize = 3
  MaxWrites = 3
  MaxRotations = 2
INVARIANTS
  TypeOK
  QuietMeansShown
PROPERTY
  CatchesUp
CHECK_DEADLOCK FALSE

SPECIFICATION Spec
CONSTANTS
  Target = t
  Workers = {}
  Events = {e1}
  MaxClock = 4
  MaxQueries = 2
  MaxSamples = 5
INVARIANTS
  TotalsAgree
CHECK_DEADLOCK FALSE

SPECIFICATION OverviewSpec
CONSTANTS
  p1 = p1
  Pids <- MCPids
  Worlds <- MCWorlds
  Devices = {"disk", "net"}
  Refreshes = {2, 8}
  Pauses = {6}
  Failures = {"system", "panel", "activity", "result", "diff"}
  MaxUpdates = 4
  Aggregates = {"workload"}
INVARIANTS
  TypeOK
  RatesFromLastSnapshot
  ProcfsSuccessive
  ZeroDeltaFlagged
  SizesNotStale
  OverviewSinceLast

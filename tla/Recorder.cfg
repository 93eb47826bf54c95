SPECIFICATION FairSpec
CONSTANTS
  Servers <- MCServers
  Kinds = {"procpidstat", "statements_wal"}
  MinVersion <- MCMinVersion
  Statements = {"statements_wal"}
  ProcPid = "procpidstat"
  Pids = {p1}
  Delays = {0, 1}
  Count = 3
  MaxSessions = 3
INVARIANTS
  TypeOK
  ClosedComplete
  ClosedSurvive
  RatesOverElapsed
PROPERTIES
  RunEnds

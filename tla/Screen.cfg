SPECIFICATION DialogSpec
CONSTANTS
  Views <- MCViews
  FirstView = "activity"
  ProcPid = "procpidstat"
  SysViews = {"tables", "sizes"}
  Groups <- MCGroups
  Ncols <- MCNcols
  Shapes <- MCShapes
  NameLen = 3
  Step = 4
  MaxWidth = 40
  TermWidth = 28
  MaxKeys = 4
  MaxBatches = 2
  MaxPend = 2
  Activity = "activity"
  Statements = {"statements_timings", "statements_general"}
  Menus <- MCMenus
  Files = 2
  MaskGroups = {"active", "idle", "lock"}
  GroupsOf <- MCGroupsOf
  AgeOf <- MCAgeOf
  Ages = {0, 1}
  MaxPresses = 6
  MaxSwitches = 2
INVARIANTS
  SettingsKept
  OwnBatchPrinted
  WindowFits
  WideLastReached
  AnswersGoWhereAsked
  SignalsMatchList
CHECK_DEADLOCK FALSE

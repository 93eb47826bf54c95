SPECIFICATION FairSampleSpec
CONSTANTS
  Ticks = 4
  Gappy = {}
  Versions = {16, 17}
  Damages = {}
  Failures = {"diff"}
  OrderIn = {17}
  OrderAt <- MCOrderAt
  Columns <- MCColumns
  CountAt <- MCCountAt
  Stamp <- MCStamp
  Lex <- MCLex
  Recorded <- MCRecorded
  Wants <- MCWants
  Matching <- MCMatching
PROPERTIES
  ReportEnds
CHECK_DEADLOCK FALSE

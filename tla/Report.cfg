SPECIFICATION FairSampleSpec
CONSTANTS
  Ticks = 4
  Gappy = {1, 2}
  Versions = {16, 17}
  Damages = {"meta","stat","sysinfo"}
  Failures = {"configure","diff"}
  OrderIn = {17}
  OrderAt <- MCOrderAt
  Columns <- MCColumns
  CountAt <- MCCountAt
  Stamp <- MCStamp
  Lex <- MCLex
  Recorded <- MCRecorded
  Wants <- MCWants
  Matching <- MCMatching
INVARIANTS
  PairOfOneTick
  RatesAsRecorded
  TopRows
PROPERTIES
  ImplementsContract
  EndsUnlessCutShort
CHECK_DEADLOCK FALSE

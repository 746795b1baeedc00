SPECIFICATION FairSpec
CONSTANTS
  back = back
  young = young
  edge = edge
  early = early
  late = late
  NoIdx = NoIdx
  NoDay = NoDay
  Seeds = {back, young, edge, early, late}
  Start <- MCStart
  Stop <- MCStop
  Day = 2
  Dt = 5
  Life = 20
  MaxEmpty = 1
  MaxFast = 1
  FirstMonth = 1
  EndMonth = 3
  MonthBegin <- MCMonthBegin
  Workers = 2
INVARIANTS
  TypeOK
  RightMonth
  TimesDecode
  WrittenOnce
  Paired
  NoLingering
PROPERTIES
  AllDelivered
CHECK_DEADLOCK FALSE

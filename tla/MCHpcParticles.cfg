SPECIFICATION FairSpec
CONSTANTS
  s1 = s1
  s2 = s2
  Seeds = {s1, s2}
  Day = 2
  Dt = 3
  Life = 12
  Grace = 3
  LookBack = 2
  StartRelease = 10
  EndRelease = 14
  StartMonth = 2
  EndMonth = 3
  MonthBegin <- MCMonthBegin
  Prior <- MCPrior
  NoDay = NoDay
INVARIANTS
  TypeOK
  RightMonth
  FateAges
  SurvivorsExpired
  Accounted
  FileAgrees
PROPERTIES
  ImplementsLedger
  RunSettles
CHECK_DEADLOCK FALSE

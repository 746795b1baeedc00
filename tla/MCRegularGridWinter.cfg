SPECIFICATION Spec
CONSTANTS
  s1 = s1
  s2 = s2
  Seeds = {s1, s2}
  Day = 1
  Dt = 31
  Integration = 62
  StartRelease = 26
  EndReleases = {29}
  LastMonth = 3
  MonthBegin <- WinterDays
  MaxCachedMonths = 3
INVARIANTS
  NeverMissing
CHECK_DEADLOCK FALSE

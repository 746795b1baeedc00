SPECIFICATION FairSpec
CONSTANTS
  s1 = s1
  s2 = s2
  Seeds = {s1, s2}
  Day = 5
  Dt = 4
  Integration = 8
  StartRelease = 4
  EndReleases = {14, 19}
  LastMonth = 6
  MonthBegin <- ScaledMonths
  MaxCachedMonths = 3
INVARIANTS
  CacheCovers
  LoadedOnce
  DailyFiles
PROPERTIES
  RunEnds
CHECK_DEADLOCK FALSE

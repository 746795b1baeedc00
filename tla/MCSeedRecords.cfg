SPECIFICATION Spec
CONSTANTS
  Blocks <- MCBlocks
  FileDts = {0, 2, 7}
  CsvTimes <- MCCsvTimes
  UnixTo2000 = 6
  Dt = 4
  Cap = 3
  MonthBegin <- MCMonthBegin
  LastMonth = 3
INVARIANTS
  EndsTogether
  SeedsAreSound
  LastNeverFails
CHECK_DEADLOCK FALSE

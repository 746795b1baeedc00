SPECIFICATION Spec
CONSTANTS
  Earliest <- FirstDelta
  Latest <- LastDelta
INVARIANTS
  StepsAreDays
  SecondsRoundTrip
  MonthsPartition
  HorizonCoversLifetime
CHECK_DEADLOCK FALSE

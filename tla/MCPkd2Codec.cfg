SPECIFICATION BlockSpec
CONSTANTS
  NaN = NaN
  Sub = 4
  Pi = 30
  Lons <- MCLons
  Lats <- MCLats
  MinTick <- MCMinTick
  MaxTick = 127
  MaxSamples = 6
INVARIANTS
  ReadsBack
  SeedEnds
PROPERTIES
  Continuous
CHECK_DEADLOCK FALSE

SPECIFICATION BlockSpec
CONSTANTS
  NaN = NaN
  Sub = 4
  Pi = 30
  Lons <- MCSpeeds
  Lats <- MCSpeeds
  MinTick <- MCMinTick
  MaxTick = 127
  MaxSamples = 6
INVARIANTS
  VelocityReadsBack
CHECK_DEADLOCK FALSE

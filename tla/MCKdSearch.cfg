SPECIFICATION KdSpec
CONSTANTS
  HalfTurn = 64
  Unit = 8
  CosSq <- MCCosSq
  LeafMax = 1
  Radius2 = 2400
  FarAway = 1000000
  Clouds <- MCClouds
  Targets <- MCQueries
INVARIANTS
  FindsAcrossTheDateline
CHECK_DEADLOCK FALSE

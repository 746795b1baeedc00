SPECIFICATION Spec
CONSTANTS
  HalfTurn = 64
  Unit = 8
  CosSq <- MCCosSq
  LeafMax = 1
  Radius2 = 3600
  FarAway = 1000000
  NaN = NaN
  Archives <- MCArchives
  MonthDays = 1
  Day = 86400
  Dt = 43200
  Vars = {"u", "v"}
  MaskVar = "salt"
  Queries <- MCQueries
INVARIANTS
  OneSourcePerTime
  GapsOnLines
  Aligned
  AxisCovers
  FindsTheDisc
  NearestBetween
CHECK_DEADLOCK FALSE

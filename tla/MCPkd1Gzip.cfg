SPECIFICATION Spec
CONSTANTS
  Sizes = {1, 2}
  MaxWrites = 4
INVARIANTS
  ReadsBack
  CountTells
CHECK_DEADLOCK FALSE

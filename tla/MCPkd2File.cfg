SPECIFICATION Spec
CONSTANTS
  a = a
  b = b
  Ids = {a, b}
  MaxAdds = 4
  None = None
  Unreadable = Unreadable
  Spoilt = Spoilt
PROPERTIES
  WholeOrEmpty
INVARIANTS
  TypeOK
  NeverStale
CHECK_DEADLOCK FALSE

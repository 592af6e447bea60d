\* Three lines, the first without code; three changes, all on their way at once.
SPECIFICATION Spec
CONSTANTS
  MaxLine = 3
  Blank = {1}
  MaxWeight = 1
  MaxCalls = 3
  MaxOps = 3
INVARIANTS
  TypeOK
  BookIsShown
  BookIsSet
CHECK_DEADLOCK FALSE

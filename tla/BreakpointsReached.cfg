\* A run to a line without code.
SPECIFICATION Spec
CONSTANTS
  MaxLine = 3
  Blank = {1}
  MaxWeight = 1
  MaxCalls = 2
  MaxOps = 3
PROPERTIES
  ReachedRunIsOver
CHECK_DEADLOCK FALSE

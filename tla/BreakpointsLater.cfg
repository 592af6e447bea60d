\* Two changes on their way, the first on a line without code.
SPECIFICATION Spec
CONSTANTS
  MaxLine = 3
  Blank = {1}
  MaxWeight = 1
  MaxCalls = 2
  MaxOps = 3
PROPERTIES
  LaterConfigsPreserved
CHECK_DEADLOCK FALSE

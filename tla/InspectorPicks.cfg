SPECIFICATION FairSpec
CONSTANTS
  None = None
  MaxStop = 1
  MaxGen = 1
  MaxChanges = 1
  MaxActs = 1
  Total = 1
  PageSize = 1
  Depth = 0
  Pumps = {1}
PROPERTY PicksSettle
CHECK_DEADLOCK FALSE

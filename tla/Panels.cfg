SPECIFICATION PanelsSpec
CONSTANTS
  None = None
  Invalid = Invalid
  Running = Running
  Gather = Gather
  Torn = Torn
  p1 = p1
  p2 = p2
  c1 = c1
  c2 = c2
  c3 = c3
  Procs = {p1, p2}
  Commands = {c1, c2, c3}
  MaxEntries = 2
  MaxTime = 1
  MaxStop = 2
  MaxGen = 3
  MaxChanges = 1
  MaxActs = 3
  Total = 3
  PageSize = 2
  Depth = 1
  Pumps = {p1, p2}
  Count = 3
  MaxLen = 2
  MaxRequests = 2
  Files = {1, 2}
  Width = 2
  MaxLine = 4
  MaxPending = 3
  Items = {1, 2}
  MaxScans = 2
  Tokens = {"--directory", "--directory=d", "--project", "run", "--", "-p", "-q", "tool", "python", "./a.py"}
  Installed = {"tool"}
  MaxArgs = 4
  Leaves = {"A", "B"}
  Traced = {"A"}
  GroupDepth = 3
  MaxChain = 3
INVARIANTS
  PanelsTypeOK HistoryIsWhole
  ListsAreWhole NothingOfEarlierStop SelectionAgrees NoStuckLoading
  GraphIsWhole
  ListIsLatest
  CursorAgrees EveryMatchIsPassed
  ScanIsShown ListIsCurrent
  ArgsKept
  TreeIsRead
CHECK_DEADLOCK FALSE

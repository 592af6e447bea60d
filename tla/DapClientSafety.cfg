\* One client: two sequence numbers, two events, one message of another kind.
SPECIFICATION Spec
CONSTANTS
  MaxSeq = 2
  MaxEvents = 2
  MaxReverse = 1
INVARIANTS
  TypeOK
  NoOrphanedWaiter
  TeardownIsComplete
  NoCrossedReplies
  ReportsOnlyRemoteLoss
  WrittenInOrder
PROPERTIES
  EventsInOrder
CHECK_DEADLOCK FALSE

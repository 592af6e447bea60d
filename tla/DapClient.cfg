\* One client: two sequence numbers, one event, one message of another kind.
SPECIFICATION FairSpec
CONSTANTS
  MaxSeq = 2
  MaxEvents = 1
  MaxReverse = 1
PROPERTIES
  RequestsEnd
  LossIsReported
  KeepsPromise
\* A connection that has been torn down does nothing more.
CHECK_DEADLOCK FALSE

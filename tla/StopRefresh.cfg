SPECIFICATION Spec
CONSTANTS
  None = None
  Off = Off
  Error = Error
  Unavailable = Unavailable
  Users = {1}
  MaxStop = 2
  MaxActs = 2
INVARIANTS TypeOK NoLocalsUnlessPaused QuietStopShown WatchesFollowFrame
CHECK_DEADLOCK FALSE

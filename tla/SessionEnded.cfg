\* One connection whose adapter ends the session.
SPECIFICATION FairSpec
CONSTANTS
  Users = {u1}
  Commands = {"connect"}
  MaxClients = 1
  MayBreak = FALSE
  MaxProcs = 0
PROPERTIES
  EndedSessionResets
CHECK_DEADLOCK FALSE

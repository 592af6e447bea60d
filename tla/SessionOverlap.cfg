\* Two commands at a time, from dialogs and keys, on two connections.
SPECIFICATION FairSpec
CONSTANTS
  Users = {u1, u2}
  Commands = {"connect", "disconnect"}
  MaxClients = 2
  MayBreak = TRUE
  MaxProcs = 0
PROPERTIES
  CommandsEnd
  LossResets
CHECK_DEADLOCK FALSE

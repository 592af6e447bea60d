\* Two connect dialogs submitted one after the other.
SPECIFICATION Spec
CONSTANTS
  Users = {u1, u2}
  Commands = {"connect"}
  MaxClients = 2
  MayBreak = TRUE
  MaxProcs = 0
INVARIANTS
  OneActiveSession
CHECK_DEADLOCK FALSE

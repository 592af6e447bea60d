\* A user who waits for each command; every command, three connections.
SPECIFICATION Spec
CONSTANTS
  Users = {u1}
  Commands = {"connect", "attach", "safe_attach", "launch", "disconnect", "terminate", "shutdown"}
  MaxClients = 3
  MayBreak = TRUE
  MaxProcs = 2
INVARIANTS
  TypeOK
  OneSessionIfPrompt
  StateIsHonest
  NoOrphanProcess
PROPERTIES
  ShutdownIsClean
CHECK_DEADLOCK FALSE

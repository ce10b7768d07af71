SPECIFICATION Spec
CONSTANTS
  PCs = {0, 4}
  Boot = 0
  CountMod = 2
  MaxSlice = 1
  CHAIN = 0
  MaxCount = 4
  MaxResets = 2
  StatusVals <- AllModes
  DebugModes = {FALSE, TRUE}
INVARIANTS
  TypeOK
  HostIrqMatchesMailbox
  Rv64Fresh
PROPERTIES
  SretRestores
  SupervisorOnlyByTrap
CHECK_DEADLOCK FALSE

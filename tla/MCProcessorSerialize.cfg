SPECIFICATION Spec
CONSTANTS
  PCs = {0}
  Boot = 0
  CountMod = 4
  MaxSlice = 3
  CHAIN = 1
  MaxCount = 10
  MaxResets = 1
  StatusVals <- TimerInterrupt
  DebugModes = {FALSE}
INVARIANTS
  CountReadExact
CHECK_DEADLOCK FALSE

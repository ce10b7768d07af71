SPECIFICATION Spec
CONSTANTS
  PCs = {0}
  Boot = 0
  CountMod = 4
  MaxSlice = 2
  CHAIN = 1
  MaxCount = 6
  MaxResets = 3
  StatusVals <- TimerInterrupt
  DebugModes = {FALSE}
INVARIANTS
  CountExact
  TimerExact
PROPERTIES
  FreshReadExact
CHECK_DEADLOCK FALSE

SPECIFICATION FairSpec
CONSTANTS
  NProcs = 2
  INTERLEAVE = 1
  CHAIN = 0
  a1 = a1
  Addrs <- NoWord
  NoResv = NoResv
  SeqMod = 2
  DebugOption = FALSE
  UserSignals = TRUE
PROPERTIES
  ExitTerminates
  EveryHartScheduled
  CtrlcReachesPrompt

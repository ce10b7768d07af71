SPECIFICATION Spec
CONSTANTS
  NProcs = 2
  INTERLEAVE = 2
  CHAIN = 1
  a1 = a1
  Addrs <- OneWord
  NoResv = NoResv
  SeqMod = 2
  DebugOption = TRUE
  UserSignals = FALSE
INVARIANTS
  TypeOK
  ReservationClean
  SeqnoPaired
  NeverWaitsForGoneHost
PROPERTIES
  MailServed

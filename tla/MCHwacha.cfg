SPECIFICATION Spec
CONSTANTS
  p1 = p1
  p2 = p2
  Procs <- TwoProcs
  NoProc = NoProc
  MaxRegs = 2
  Lanes = 1
  Banks = 4
  Block <- Insns
  Starts <- AnyStart
  MaxInsns = 6
  Configs <- SomeConfigs
  Lengths = {2, 5}
  Values = {1}
SYMMETRY Symmetry
INVARIANTS TypeOK BlockConsistent
PROPERTIES Virtualised

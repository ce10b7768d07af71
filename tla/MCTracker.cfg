SPECIFICATION Spec
CONSTANTS
  Regs = {0, 1, 2, 3}
  REG_SP = 2
  Cells = {0}
  Insns <- Program
  n1 = n1
  n2 = n2
  n3 = n3
  n4 = n4
  n5 = n5
  Nodes <- SomeNodes
  Null = Null
  UninitFlag = {FALSE, TRUE}
SYMMETRY NodeSymmetry
INVARIANTS
  CountsExact
  NoDangling
  WordHistoryCurrent

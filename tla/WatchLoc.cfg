SPECIFICATION Spec
CONSTANTS
  RING = 4
  CLEARED = 1
  PCs = {4, 8}
  Addrs = {16, 24}
  MaxBurst = 2
  MaxWrites = 6
INVARIANTS
  WhenInOrder

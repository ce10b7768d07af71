SPECIFICATION Spec
CONSTANTS
  LEVELS = 2
  PTIDXBITS = 1
  MemPages = 4
  TLB_ENTRIES = 2
  ICACHE_ENTRIES = 1
  PtPages = {0, 1}
  Ptes <- SomePtes
  w1 = w1
  w2 = w2
  Words <- TwoWords
  InitTables <- SmallTables
  MaxWrites = 1
SYMMETRY WordSymmetry
INVARIANTS
  TypeOK
  TlbCoherent
  IcacheCoherent
  EveryFetchTraced

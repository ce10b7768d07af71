SPECIFICATION Spec
CONSTANTS
  Caches <- Tower
  Sets <- TowerSets
  Ways <- TowerWays
  LineSz <- TowerLines
  TagMode <- TowerTags
  Handlers <- TowerHandlers
  ICaches = {"I"}
  DCaches = {"D"}
  FAWays = 1
  Addrs = {0, 272, 512}
  Bytes = 4
  MaxAccesses = 3
INVARIANTS
  TypeOK
  OneCopy
  TrafficConserved
  StoresAccounted
  HoldsOnlyFetched

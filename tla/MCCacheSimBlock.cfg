SPECIFICATION Spec
CONSTANTS
  Caches <- Single
  Sets <- SingleSets
  Ways <- SingleWays
  LineSz <- SingleLines
  TagMode <- SingleTags
  Handlers <- SingleHandlers
  ICaches = {}
  DCaches = {"D"}
  FAWays = 1
  Addrs = {0, 8}
  Bytes = 4
  MaxAccesses = 4
INVARIANTS
  HitsFetchedBlock

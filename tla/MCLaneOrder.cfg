CONSTANTS
  TileSize = 2
  Fuse = TRUE
  NLanes = 3
  EwCost = 1
  ShapedCost = 3
  MaxLen = 4
  Catalogue <- PlainCatalogue
  Buffers <- MCBuffers
  Programs <- MCPrograms
SPECIFICATION LSpec
CHECK_DEADLOCK FALSE
INVARIANT Justified
INVARIANT Separated
INVARIANT SameAsDirect
INVARIANT TilesCovered
INVARIANT UniformBarriers
INVARIANT ConflictsOrdered

CONSTANTS
  TileSize = 2
  Fuse = TRUE
  NLanes = 2
  EwCost = 1
  ShapedCost = 3
  MaxLen = 3
  Catalogue <- ViewedCatalogue
  Buffers <- MCBuffers
  Programs <- MCPrograms
SPECIFICATION LSpec
CHECK_DEADLOCK FALSE
INVARIANT ConflictsOrdered

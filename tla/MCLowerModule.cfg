CONSTANTS
  Top = 125
  TileSize = 2
  MmaTile = 2
  MaxParts = 3
  ConcatIdxMax = 6
  WhileMode = "auto"
  UnrollTrips = 2
  UnrollOps = 4
  UnrollArena = 200
  NormSegMax = 4
  RegionSlots = 4
  RegionMaxIn = 4
  RegionLoopMin = 2
  LoopBound = 8
  Programs <- MCPrograms
SPECIFICATION Spec
INVARIANT MeaningPreserved
INVARIANT AnyOrder
INVARIANT WritesInBounds
INVARIANT OneWriter

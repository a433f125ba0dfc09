CONSTANTS
  TileSize = 2
  Fuse = TRUE
  NLanes = 3
  EwCost = 1
  ShapedCost = 3
  Mod = 5
  NBarriers = 40
  MaxDepth = 8
  Slots = 2
  MayFail = FALSE
  Freed = Freed
  Jobs <- PeeledJobs
SPECIFICATION LaunchSpec
INVARIANT RaceFree
INVARIANT UniformControl
INVARIANT StagingHeld
INVARIANT SlotsCurrent
INVARIANT UniformWalk
INVARIANT ResultCorrect
PROPERTY Ends

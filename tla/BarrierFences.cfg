CONSTANTS
  Lanes = {l1, l2, l3}
  NBarriers = 4
  PhaseMod = 2
  Capacity = 3
SPECIFICATION FFairSpec
INVARIANT NoLaneAhead
INVARIANT ResetLosesNoArrival
INVARIANT NoLostWakeup
INVARIANT FreshReads
INVARIANT FlipperOrdered
PROPERTY Completes
PROPERTY RefinesFairPhaseBarrier

CONSTANTS
  Callers = {t1, t2}
  Host = host
  InSize = 2
  OutSize = 2
  PipeCap = 1
  Threads = {t1, t2}
  Mems = {m1, m2, m3, m4}
  Programs <- Distinct
  NPorts = 2
  PoolCap = 1
  Data = {1, 2}
  Mod = 4
  Junk = Junk
  None = None
  MaxCalls = 4
  Groups = {g1, g2, g3, g4}
  Capacity = 2
  MaxIter = 3
  StableGoal = 2
  NoTicket = NoTicket
  ComputeUnits = 2
  MegaMinResidency = 2
  VmLanes = {3}
SPECIFICATION ClientSpec
INVARIANT HoldersStayResident
INVARIANT CountWithinResidency
INVARIANT MegakernelFits
INVARIANT AnswersOwnProgram
INVARIANT BuffersHold
INVARIANT OwnedOnce
PROPERTY CountFrozen
PROPERTY CreateEnds
PROPERTY CompileEnds

SPECIFICATION FairSpec
CONSTANTS
  Workers = {w1, w2}
  Caller = main
  Configs <- AllShapes
  ClientFibers = {f1}
  PoolFibers = {p1, p2, p3}
  Callbacks = {c1}
  MaxYields = 1
  Pinning = FALSE
  Parking = FALSE
  EarlyWake = FALSE
  None = None
  AnyThread = AnyThread
INVARIANT StopDrains
PROPERTIES WorkFinishes StopReturns

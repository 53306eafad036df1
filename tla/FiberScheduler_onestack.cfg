SPECIFICATION Spec
CONSTANTS
  Workers = {w1, w2}
  Caller = main
  Configs <- TwoThreads
  ClientFibers = {f1}
  PoolFibers = {p1}
  Callbacks = {}
  MaxYields = 2
  Pinning = FALSE
  Parking = TRUE
  EarlyWake = TRUE
  None = None
  AnyThread = AnyThread
INVARIANT OneStackUser

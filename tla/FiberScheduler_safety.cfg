SPECIFICATION Spec
CONSTANTS
  Workers = {w1, w2}
  Caller = main
  Configs <- TwoThreads
  ClientFibers = {f1, f2}
  PoolFibers = {p1, p2, p3}
  Callbacks = {c1}
  MaxYields = 2
  Pinning = TRUE
  Parking = TRUE
  EarlyWake = FALSE
  None = None
  AnyThread = AnyThread
SYMMETRY Symmetry
INVARIANTS
  TypeOK CountersExact OneOwner
PROPERTY NothingLost

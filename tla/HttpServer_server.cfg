SPECIFICATION MCSpec
CHECK_DEADLOCK FALSE
CONSTANTS
  Listeners = {s1, s2}
  Clients = {c1, c2}
  Conns = {c1, c2}
  Served = c2
  OldListener = s2
  MaxStarts = 2
  Requests <- MCRequests
  Methods = {"GET", "POST"}
  TailOf <- MCTailOf
  Arrivals = {8, 17}
  BuffSize = 17
  MaxInt = 3
  IoThreads = 1
INVARIANT AcceptorsSound
PROPERTIES SessionEnds StopEndsAccepting PendingAccepted

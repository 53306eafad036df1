SPECIFICATION FairSpec
CONSTANTS
  Events = {READ, WRITE}
  Connecting = {WRITE}
  Timed = {WRITE}
  MaxCalls <- WriterTwice
  Closing = TRUE
  Reopening = TRUE
CHECK_DEADLOCK FALSE
INVARIANTS Consistent TimeoutHonest
PROPERTY TimedCallReturns

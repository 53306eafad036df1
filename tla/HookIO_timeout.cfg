SPECIFICATION Spec
CONSTANTS
  Events = {READ, WRITE}
  Connecting = {WRITE}
  Timed = {WRITE}
  MaxCalls <- Once
  Closing = FALSE
  Reopening = FALSE
CHECK_DEADLOCK FALSE
INVARIANT TimeoutWakes

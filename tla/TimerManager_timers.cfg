SPECIFICATION Spec
CONSTANTS
  Timers = {1, 2}
  Recurring = {2}
  Periods = {1, 2}
  Pollers = {p1, p2}
  Hour = 1
  ClockMaySetBack = TRUE
  Start = 1
  MaxClock = 3
CHECK_DEADLOCK FALSE
SYMMETRY Symmetry
INVARIANT Consistent
PROPERTY ContractHolds

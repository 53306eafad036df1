SPECIFICATION Spec
CONSTANTS
  Timers = {1}
  Recurring = {}
  Periods = {1}
  Pollers = {p1, p2}
  Hour = 9
  ClockMaySetBack = FALSE
  Start = 0
  MaxClock = 2
INVARIANT FrontExists

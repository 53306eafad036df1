SPECIFICATION Spec
CONSTANTS
  Fds = {fd1}
  Events = {READ, WRITE}
  Pollers = {p1}
  Hup = Hup
INVARIANT TriggerAsserts

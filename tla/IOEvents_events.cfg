SPECIFICATION Spec
CONSTANTS
  Fds = {fd1}
  Events = {READ, WRITE}
  Pollers = {p1, p2}
  Hup = Hup
SYMMETRY Symmetry
CHECK_DEADLOCK FALSE
INVARIANTS Consistent ContextMatches WokenOnce InterestMatches ReadyNoticed

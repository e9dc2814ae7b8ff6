SPECIFICATION Spec
CONSTANTS
  Jobs = {j1, j2}
  Pids = {p1, p2}
  ExitsEarly = {j1}
  ReusesEarly = FALSE
INVARIANTS
  EveryStatusIsKept

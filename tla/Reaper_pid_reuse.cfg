SPECIFICATION Spec
CONSTANTS
  Jobs = {j1, j2}
  Pids = {p1, p2}
  ExitsEarly = {}
  ReusesEarly = TRUE
INVARIANTS
  StatusIsKept

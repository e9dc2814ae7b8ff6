SPECIFICATION FairSpec
CONSTANTS
  Jobs = {j1, j2}
  Pids = {p1, p2, p3}
  ExitsEarly = {j2}
  ReusesEarly = FALSE
INVARIANTS
  StatusIsKept
  Reaping
PROPERTIES
  OrphansAreReaped

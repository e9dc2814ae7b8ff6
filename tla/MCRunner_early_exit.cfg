SPECIFICATION Spec
CONSTANTS
  Runs = {r1, r2}
  Pids = {p1, p2}
  Reqs = {q1}
  Nil = Nil
  MaxAttempts = 2
  OneTime = FALSE
  CanFail = TRUE
  KeepRunning = FALSE
  ApiOps = {"start", "stop"}
  StartPhases = {"stopped", "failed", "completed"}
  Watch = "off"
SYMMETRY MCSymmetry
INVARIANTS
  ExitLeavesNothing

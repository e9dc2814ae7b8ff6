SPECIFICATION Spec
CONSTANTS
  Runs = {r1, r2}
  Pids = {p1, p2}
  Reqs = {q1}
  Nil = Nil
  MaxAttempts = 2
  OneTime = TRUE
  CanFail = FALSE
  KeepRunning = FALSE
  ApiOps = {"start", "stop", "restart"}
  StartPhases = {"stopped", "failed", "completed"}
  Watch = "off"
SYMMETRY MCSymmetry
INVARIANTS
  AtMostOneProcess
  EndedMeansEnded

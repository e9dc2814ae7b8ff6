SPECIFICATION Spec
CONSTANTS
  Runs = {r1, r2}
  Pids = {p1, p2}
  Reqs = {q1}
  Nil = Nil
  MaxAttempts = 2
  OneTime = FALSE
  CanFail = TRUE
  KeepRunning = TRUE
  ApiOps = {"stop", "restart"}
  StartPhases = {}
  Watch = "restart"
SYMMETRY MCSymmetry
INVARIANTS
  TypeOK
  SupervisesItsOwn
  EndedMeansEnded
  ExitLeavesNothing
  ZombiesAreReaped
  RunnerInv

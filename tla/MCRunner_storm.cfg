SPECIFICATION TimedSpec
CONSTANTS
  Runs = {r1, r2}
  Pids = {p1}
  Reqs = {q1}
  Nil = Nil
  MaxAttempts = 1
  OneTime = TRUE
  CanFail = TRUE
  KeepRunning = FALSE
  ApiOps = {"start"}
  StartPhases = {"none", "awaitingReadiness", "unknown", "started", "stopped", "completed", "failed", "crashLooping"}
  Watch = "off"
PROPERTIES
  ShutdownCompletes

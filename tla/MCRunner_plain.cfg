SPECIFICATION FairSpec
CONSTANTS
  Runs = {r1, r2}
  Pids = {p1, p2}
  Reqs = {q1}
  Nil = Nil
  MaxAttempts = 2
  OneTime = FALSE
  CanFail = FALSE
  KeepRunning = FALSE
  ApiOps = {"stop", "restart"}
  StartPhases = {}
  Watch = "off"
PROPERTIES
  ShutdownCompletes
  EndOfJobsEndsRun
  ImplementsLifecycle

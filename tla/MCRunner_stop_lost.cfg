SPECIFICATION ObedientSpec
CONSTANTS
  Runs = {r1}
  Pids = {p1, p2}
  Reqs = {q1}
  Nil = Nil
  MaxAttempts = 2
  OneTime = FALSE
  CanFail = TRUE
  KeepRunning = FALSE
  ApiOps = {"stop"}
  StartPhases = {}
  Watch = "off"
PROPERTIES
  StopTakesEffect

SPECIFICATION FairSpec
CONSTANTS
  Config <- MCConfig
  Reqs = {q1}
  Room = 5
  Overlap = FALSE
  Ops = {"stop", "start"}
  Nil = Nil
INVARIANTS
  TableIsComplete
  ActsOnNamedJob
PROPERTIES
  FailedIsRestarted

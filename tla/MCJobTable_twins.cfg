SPECIFICATION Spec
CONSTANTS
  Config <- MCTwoJobs
  Reqs = {q1}
  Room = 4
  Overlap = TRUE
  Ops = {"start"}
  Nil = Nil
INVARIANT
  OneProcessPerName

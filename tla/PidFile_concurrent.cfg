SPECIFICATION Spec
CONSTANTS
  Pids = {p1, p2, p3}
  Foreign = {}
  Concurrent = TRUE
INVARIANTS
  AtMostOneHolder

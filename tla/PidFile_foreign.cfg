SPECIFICATION Spec
CONSTANTS
  Pids = {p1, p2, p3}
  Foreign = {p1}
  Concurrent = FALSE
INVARIANTS
  AtMostOneHolder

SPECIFICATION FairSpec
CONSTANTS
  Pids = {p1, p2, p3}
  Foreign = {}
  Concurrent = FALSE
INVARIANTS
  AtMostOneHolder
  HolderIsNamed
PROPERTIES
  OutdatedYields

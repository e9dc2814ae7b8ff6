SPECIFICATION Spec
CONSTANTS
  Config <- MCFatal
  Reqs = {q1}
  Room = 4
  Overlap = FALSE
  Ops = {"start"}
  Nil = Nil
INVARIANT
  NoJobIsAbandoned

SPECIFICATION Spec
CONSTANTS
  Listeners = {l1, l2}
  Conns = {c1, c2}
  Starts = {s1, s2}
  Pids = {p1, p2}
  Nil = Nil
  Failures = {"open", "accept", "start"}
SYMMETRY MCSymmetry
INVARIANTS
  AtMostOneProcess
  ProcessIsKnown
  OneStartAtATime

SPECIFICATION Spec
CONSTANTS
  Listeners = {l1}
  Conns = {c1}
  Starts = {s1, s2}
  Pids = {p1, p2}
  Nil = Nil
  Failures = {}
PROPERTIES
  CoolDownSparesActive

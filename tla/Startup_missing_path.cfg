SPECIFICATION Spec
CONSTANTS
  Boots = {b1, b2}
  MayFail = {}
  Timed = {b1, b2}
  WaitProbes = {w1}
  FileProbes = {w1}
INVARIANTS
  PathBeforeBoot

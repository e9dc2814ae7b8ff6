SPECIFICATION FairSpec
CONSTANTS
  Boots = {b1, b2}
  MayFail = {b2}
  Timed = {b1}
  WaitProbes = {w1, w2}
  FileProbes = {w1}
INVARIANTS
  BootOkMeansBooted
  CanceledBootIsClean
  ReadyBeforeBoot
  BootSupervision
PROPERTIES
  SignalEndsUp

SPECIFICATION Spec
CONSTANTS
  MaxLines = 3
  MaxTail = 2
  MaxWire = 1
  Buffer = 2
INVARIANT
  StderrIsShown

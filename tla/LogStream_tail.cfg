SPECIFICATION Spec
CONSTANTS
  MaxLines = 3
  MaxTail = 3
  MaxWire = 1
  Buffer = 2
INVARIANT
  TailIsIntact

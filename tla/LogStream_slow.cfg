SPECIFICATION FairSpec
CONSTANTS
  MaxLines = 2
  MaxTail = 1
  MaxWire = 1
  Buffer = 2
PROPERTY
  EveryLogEnds

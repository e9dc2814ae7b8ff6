SPECIFICATION FairSpec
CONSTANTS
  MaxLines = 3
  MaxTail = 2
  MaxWire = 1
  Buffer = 2
INVARIANTS
  LinesInOrder
  TailIsLastLines
  IntactInSmallLogs
PROPERTIES
  StreamEnds
  LogsEnd

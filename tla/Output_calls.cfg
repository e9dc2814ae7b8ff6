SPECIFICATION FairSpec
CONSTANTS
  MaxStarts = 2
  MaxChunks = 2
  MaxSent = 2
  Options = {"timestamp"}
  Failures = {"open", "pipe", "start", "write"}
INVARIANTS
  NothingLost
  FilesAreClosed
  ReaderOutlivesWriters
  Decorated
PROPERTIES
  OutputEnds

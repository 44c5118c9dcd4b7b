SPECIFICATION Spec
CONSTANTS
  BufLen = 17
  HeaderLen = 3
  StampLen = 2
  LenLen = 1
  Lengths = {0, 1, 2}
  ReaderOps = {"read", "all", "sessions"}
  MaxStored = 5
  MaxCrashes = 1
INVARIANT TypeOK
INVARIANT QueueIntact
INVARIANT WriterStaysClear
INVARIANT PeekIsFaithful
INVARIANT NothingLost
INVARIANT NumbersSeparateSessions
PROPERTY ImplementsRecordFifo
\* The instance ends: MaxStored records are stored and read.
CHECK_DEADLOCK FALSE

SPECIFICATION Spec
CONSTANTS
  BufLen = 17
  HeaderLen = 3
  StampLen = 2
  LenLen = 1
  Lengths = {0, 1, 2}
  ReaderOps = {"read"}
  MaxStored = 6
  MaxCrashes = 0
INVARIANT ReturnedRecordIsStable
\* The instance ends: MaxStored records are stored and read.
CHECK_DEADLOCK FALSE

SPECIFICATION Spec
CONSTANTS
  BufLen = 17
  HeaderLen = 3
  StampLen = 2
  LenLen = 1
  Lengths = {0, 1, 2}
  ReaderOps = {"sessions"}
  MaxStored = 6
  MaxCrashes = 1
INVARIANT SessionHasOneNumber

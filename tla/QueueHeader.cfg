SPECIFICATION Spec
CONSTANTS
  BufLen = 17
  HeaderLen = 3
  StampLen = 2
  LenLen = 1
  Lengths = {0, 1, 2}
  ReaderOps = {"all"}
  MaxStored = 3
  MaxCrashes = 0
PROPERTY DocumentedHeader

SPECIFICATION FairSpec
CONSTANTS
  BufLen = 20
  HeaderLen = 3
  StampLen = 2
  LenLen = 1
  Lengths = {0, 2, 9}
  ReaderOps = {"all"}
  MaxStored = 5
  MaxCrashes = 1
PROPERTY StoreIsServed
PROPERTY QueueDrains

SPECIFICATION Spec
CONSTANTS
  Words <- RunWords
  Weights = {61}
  MaxQuerySize = 30
  MaxSplitWords = 8
  MaxQueryWords = 5
  MaxExtra = 0
INVARIANT NoWordLost
INVARIANT InOrderOnce
\* The call returns: "done" is final.
CHECK_DEADLOCK FALSE

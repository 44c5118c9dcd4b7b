SPECIFICATION Spec
CONSTANTS
  Words <- StaleWords
  Weights = {61}
  MaxQuerySize = 30
  MaxSplitWords = 8
  MaxQueryWords = 5
  MaxExtra = 0
INVARIANT SingleCharHasNoRun
\* The call returns: "done" is final.
CHECK_DEADLOCK FALSE

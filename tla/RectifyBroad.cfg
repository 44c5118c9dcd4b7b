SPECIFICATION Spec
CONSTANTS
  Words <- BroadWords
  Weights = {61, 120}
  MaxQuerySize = 30
  MaxSplitWords = 3
  MaxQueryWords = 4
  MaxExtra = 1
INVARIANT TypeOK
INVARIANT RunIsPaired
INVARIANT ConfidenceIsWeakest
INVARIANT TrustedWordsUntouched
PROPERTY CursorAdvances
\* The call returns: "done" is final.
CHECK_DEADLOCK FALSE

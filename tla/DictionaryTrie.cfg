SPECIFICATION Spec
CONSTANTS
  Words <- MCWords
  Texts <- MCTexts
  POSTFIX_CHAR = 1
  MAX_CODE = 6
INVARIANT LongestMatched
PROPERTY ImplementsWordTable

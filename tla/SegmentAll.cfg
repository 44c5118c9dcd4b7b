SPECIFICATION FairAllSpec
CONSTANTS
  NumVertex = 6
  MaxWordLen = 5
  MaxSegmentNum = 3
  MAX = 32767
  Cells = 6
INVARIANT TypeOK
INVARIANT RowsSorted
INVARIANT LinksSettled
INVARIANT OutputIsShortest
INVARIANT SectionsCoverText
PROPERTY FilledIsFinal
PROPERTY Returns
\* word_sect_all returns: "true" and "false" are final.
CHECK_DEADLOCK FALSE

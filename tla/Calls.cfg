SPECIFICATION Spec
INVARIANT TypeOK
INVARIANT DistanceIsRight
INVARIANT CandidatesFound
INVARIANT LikeliestFound
INVARIANT SegmentationsRight
INVARIANT TextsSurvive
INVARIANT PinYinKeepsContext
INVARIANT WordAnswersFit
\* A call returns, and the system stops.
CHECK_DEADLOCK FALSE

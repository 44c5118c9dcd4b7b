SPECIFICATION Spec
INVARIANT TypeOK
INVARIANT HashLookupIsRight
INVARIANT VectorLookupIsExact
INVARIANT IndexIsFaithful
INVARIANT BigramsAreRight
INVARIANT TablesFitTogether
\* Stores are built and read, and the trainer runs twice; then nothing is left to do.
CHECK_DEADLOCK FALSE

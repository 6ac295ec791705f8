CONSTANTS
  Context = {x1, x2}
  Publisher = {p1, p2}
  MaxContexts = 1
  MaxSeq = 6
  MaxBatch = 2
  MaxTokens = 5
  MaxCrashes = 1
SPECIFICATION Spec
INVARIANTS NumberIsUsedOnce TranscriptIsTheStream
PROPERTY DoubtFailsClosed
CHECK_DEADLOCK FALSE

SPECIFICATION Spec
CONSTANTS
  Blocks <- MCBlocks
  MaxReordered = 1
  MaxCandidates = 3
  MaxFinalized = 2
  None = None
INVARIANTS
  TypeOK
  OutputFinal
  MatchedPromoted
  PendingAhead
PROPERTIES
  ImplementsOrderedStream

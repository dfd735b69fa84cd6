SPECIFICATION FairSpec

CONSTANTS
  Total = 12
  BatchSize = 5
  BatchBytes = 4
  PrefetchRows = 5
  RowBytes = {0, 1, 3}
  MaxRefs = 2

INVARIANTS
  BatchWithinSize

PROPERTIES
  BatchWithinBytes
  Implements
  NextReturns

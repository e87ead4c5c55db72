SPECIFICATION Spec
CONSTANTS
  MaxRows = 3
  MaxRuns = 2
  ForeignSeq = {0, 1, 3}
  FromSeqs = {0}
INVARIANT
  MonotonicSequence

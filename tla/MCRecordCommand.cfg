SPECIFICATION RFairSpec
CONSTANTS
  N = 2
  RingSize = 2
  Duration = 3
  Step = 2
  MaxRecords = 4
  OutputGiven = TRUE
INVARIANTS
  RecordsAccounted
  SlotOrder
  SlotLifecycle
  JournalFaithful
PROPERTY
  EndsInTime

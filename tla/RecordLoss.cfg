SPECIFICATION RSpec
CONSTANTS
  N = 1
  RingSize = 2
  Duration = 3
  Step = 2
  MaxRecords = 4
  OutputGiven = TRUE
INVARIANT
  LossSignalled

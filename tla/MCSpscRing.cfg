SPECIFICATION FairSpec
CONSTANTS
  Capacity = 2
  Values = {s1, s2}
  None = None
INVARIANTS
  NoDataRace
PROPERTIES
  ImplementsFifo
  KeepsMoving

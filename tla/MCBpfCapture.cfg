SPECIFICATION FairSpec
CONSTANTS
  NumPrograms = 2
  RingSize = 2
  Duration = 3
  Step = 2
  MaxEvents = 4
INVARIANTS
  NothingUnauthorized
  NothingLeftBehind
  EachEventOnce
PROPERTY
  Returns

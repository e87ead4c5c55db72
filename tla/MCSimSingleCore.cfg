SPECIFICATION Spec
CONSTANTS
  Null = Null
  N = 4
  TaskSpecs <- MCTaskSpecs
  Groups <- MCGroups
  Quanta = {1, 2}
INVARIANTS
  OneStory
  PolicyHonoured
  ReportIsTrue
PROPERTY
  Completes
CHECK_DEADLOCK FALSE

SPECIFICATION MultiSpec
CONSTANTS
  Null = Null
  N = 5
  TaskSpecs <- MCTaskSpecs
  Groups <- MCGroups
  Quanta = {1}
  NumCores = 3
  Layouts <- MCLayouts
INVARIANTS
  OnePlace
  IdleCoreExplained
  CorePolicyHonoured
CHECK_DEADLOCK FALSE

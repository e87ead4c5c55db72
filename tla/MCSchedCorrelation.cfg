SPECIFICATION Spec
CONSTANTS
  Pids = {p1, p2}
  Cpus = {c1}
  Times = {0, 1, 2, 3}
  Windows = {0, 1}
  MaxCalls = 5
SYMMETRY PidSymmetry
INVARIANTS
  Conservation
  GreedyIsOptimal
CHECK_DEADLOCK FALSE

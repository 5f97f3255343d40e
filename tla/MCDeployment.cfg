\* One slice of three VMs on two workers, two labels in the pool.
CONSTANTS
  w1 = w1
  w2 = w2
  x1 = x1
  x2 = x2
  VMs = {1, 2, 3}
  Links = {"left", "right"}
  Ends <- MCEnds
  Workers = {w1, w2}
  Labels = {x1, x2}
  NoLabel = NoLabel
  NoWorker = NoWorker
  MaxCalls = 2
  MaxFaults = 1
SPECIFICATION Spec
SYMMETRY Symmetry
INVARIANTS
  TypeOK
  CutOnlyIf
  UnwiredOnlyAfterFault
  FailedOnlyIfDoubled
  CommandsMatchHosts
CHECK_DEADLOCK FALSE

SPECIFICATION Spec
CONSTANTS
  make = make
  again = again
  other = other
  drop = drop
  twin = twin
  v1 = v1
  v2 = v2
  v3 = v3
  n1 = n1
  n2 = n2
  s1 = s1
  s2 = s2
  Requests = {make, again, drop, other, twin}
  Op <- Ops
  Vms = {v1, v2, v3}
  VmOf <- Targets
  Names = {n1, n2}
  NameOf <- TwinNames
  Slices = {s1, s2}
  SliceOf <- TwinSlice
  After <- Creation
  Complete = {make, again, drop, other, twin}
  MaxFaults = 1
CHECK_DEADLOCK FALSE
INVARIANTS TypeOK ReadyIsUp PidIsOwn RolledBack KnownIsGone

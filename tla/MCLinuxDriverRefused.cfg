SPECIFICATION Spec
CONSTANTS
  make = make
  again = again
  other = other
  drop = drop
  twin = twin
  v1 = v1
  v2 = v2
  v3 = v3
  n1 = n1
  n2 = n2
  s1 = s1
  s2 = s2
  Requests = {make, drop}
  Op <- Ops
  Vms = {v1, v2, v3}
  VmOf <- Targets
  Names = {n1, n2}
  NameOf <- TwinNames
  Slices = {s1, s2}
  SliceOf <- TwinSlice
  After <- Creation
  Complete = {make}
  MaxFaults = 0
CHECK_DEADLOCK FALSE
INVARIANT CleanedUp

SPECIFICATION Spec
CONSTANTS
  r1 = r1
  r2 = r2
  u = u
  m = m
  s1 = s1
  i1 = i1
  Requests = {r1, r2}
  Op <- Creates
  Names = {s1}
  NameOf <- OneName
  Images = {i1}
  ImageOf <- OneImage
  N = 1
  NoProject = NoProject
  MaxFaults = 0
CHECK_DEADLOCK FALSE
INVARIANT ReadyStaysUp

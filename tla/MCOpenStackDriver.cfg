SPECIFICATION FairSpec
CONSTANTS
  r1 = r1
  r2 = r2
  u = u
  m = m
  s1 = s1
  i1 = i1
  Requests = {r1, r2, u, m}
  Op <- AllKinds
  Names = {s1}
  NameOf <- OneName
  Images = {i1}
  ImageOf <- OneImage
  N = 2
  NoProject = NoProject
  MaxFaults = 2
CHECK_DEADLOCK FALSE
INVARIANTS TypeOK NothingLeft ReadyIsWhole ImagesAreWhole
PROPERTY EveryRequestAnswers

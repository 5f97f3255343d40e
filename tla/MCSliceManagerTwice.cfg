\* Two approvals of the same slice side by side.
CONSTANTS
  s1 = s1  s2 = s2  r1 = r1  r2 = r2  r3 = r3
  Slices = {s1}
  Requests = {r1, r2}
  Ops = {"approve"}
  MaxBuilds = 1
  MaxCrashes = 0
SPECIFICATION Spec
SYMMETRY Symmetry
INVARIANTS
  ProcessedOnce
CHECK_DEADLOCK FALSE

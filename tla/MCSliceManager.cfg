\* Three handlers side by side on one slice, edits and restarts included.
CONSTANTS
  s1 = s1  s2 = s2  r1 = r1  r2 = r2  r3 = r3
  Slices = {s1}
  Requests = {r1, r2, r3}
  Ops = {"deploy", "approve", "reject", "update", "delete"}
  MaxBuilds = 3
  MaxCrashes = 2
SPECIFICATION Spec
INVARIANTS
  TypeOK
  ActiveIsTasked
PROPERTIES
  NeverUndecidedAgain
  ImplementsSliceContract
CHECK_DEADLOCK FALSE

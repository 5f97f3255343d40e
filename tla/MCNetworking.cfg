\* Two slices, two labels, every overlap of the calls about them.
CONSTANTS
  Slices = {"s1", "s2"}
  Vlans = {100, 101}
  Activations = {"a1", "a2"}
  Enrichments = {"e1"}
  Deletions = {"d1", "d3"}
  SliceOf <- MCSliceOf
  NoVlan = NoVlan
SPECIFICATION Spec
INVARIANTS
  TypeOK
  BalancedUnlessStale
  LabelledHasNetworks
CHECK_DEADLOCK FALSE

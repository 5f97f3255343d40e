\* Two drafts, two clicks that send a request, four renders; designs of three VMs.
SPECIFICATION Spec
CONSTANTS
  d1 = d1
  d2 = d2
  Drafts = {d1, d2}
  NoDraft = NoDraft
  Original <- Saved
  MaxVmId = 3
  MaxLinks = 3
  MaxRenders = 4
  MaxRequests = 2
INVARIANTS TypeOK ShowsItsView LoadingEnds EditsItsDraft ClashOnlyAfterGap RoundTrip
PROPERTY DesignKept
CHECK_DEADLOCK FALSE

\* The deployed dispatcher: the polling loop alone, with one crash.
CONSTANTS
  Tasks = {1, 2, 3}
  VMs = {"v1", "v2", "v3"}
  Slices = {"os", "lin"}
  TaskVm <- MCTaskVm
  VmSlice <- MCVmSlice
  OpenStack = {"os"}
  Linked = {"lin"}
  Cycles = {"loop"}
  NoTask = NoTask
  Overlapped = {3}
  MaxCrashes = 1
SPECIFICATION FairSpec
INVARIANTS
  TypeOK
  OutcomesAgree
  ReadyVmWasBuilt
  UnwiredOnlyIfNetworkingFailed
PROPERTIES
  ImplementsVmContract
  ReleasedTaskSettles

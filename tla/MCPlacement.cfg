\* Three triggers side by side, monitoring overwriting the metrics, scarce RAM: two
\* Linux VMs of different size in two slices; the third worker is of OpenStack.
CONSTANTS
  Workers = {1, 2, 4}
  Cluster <- MCCluster
  TotalRam <- MCTotalRam
  TotalCpu <- MCTotalCpu
  VMs = {"v1", "v2"}
  Slices = {"a", "b"}
  SliceOf <- MCSliceOf
  Target <- MCTarget
  Ram <- MCRam
  Vcpu <- MCVcpu
  g1 = g1
  g2 = g2
  g3 = g3
  Triggers = {g1, g2, g3}
  MaxCalls = 3
  Measures <- MCMeasures
  MaxMeasures = 1
  NoWorker = 0
SYMMETRY Alike
SPECIFICATION Spec
INVARIANTS
  TypeOK
  TaskAndVmAgree
  ReservationsAdd
PROPERTIES
  DispatchedStays
  TurnsKept
CHECK_DEADLOCK FALSE

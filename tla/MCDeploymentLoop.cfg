\* slices.py:74: what placement did not take, the loop takes up.
CONSTANTS
  w1 = w1
  w2 = w2
  x1 = x1
  x2 = x2
  VMs = {1, 2}
  Links = {"left"}
  Ends <- MCPair
  Workers = {w1}
  Labels = {x1}
  NoLabel = NoLabel
  NoWorker = NoWorker
  MaxCalls = 2
  MaxFaults = 1
SPECIFICATION FairSpec
PROPERTIES
  LoopPlaces
CHECK_DEADLOCK FALSE

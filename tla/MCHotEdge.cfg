CONSTANTS
  c1 = c1
  c2 = c2
  n1 = n1
  n2 = n2
  Cpus = {c1, c2}
  Nodes = {n1, n2}
  NodeOf <- MCNodeOf
  Threshold = 3
  HeatSize = 2
  RingSize = 1
  MaxReads = 3
SPECIFICATION FairSpec
INVARIANTS
  HotWasRead
  CrossingReported
PROPERTIES
  HotIsPrinted
CHECK_DEADLOCK FALSE

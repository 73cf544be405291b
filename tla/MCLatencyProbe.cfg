CONSTANTS
  s1 = s1
  s2 = s2
  p1 = p1
  o1 = o1
  Threads = {s1, s2, p1, o1}
  Pid <- MCPid
  Targets <- MCTargets
  Ops = {"vfs_read", "tcp_sendmsg"}
  MapSize = 2
  e1 = e1
  e2 = e2
  e3 = e3
  e4 = e4
  Elements = {e1, e2, e3, e4}
  Spares = {e3, e4}
  RingSize = 1
  MaxCalls = 3
SPECIFICATION Spec
SYMMETRY Symmetry
INVARIANTS
  StampUsedOnce
  StampsFit
  CountedAsReported
CHECK_DEADLOCK FALSE

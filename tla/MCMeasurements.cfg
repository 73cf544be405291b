CONSTANTS
  Cpus = {0, 1}
  Shifts <- MCShifts
  MAX_BUCKETS = 4
  Latencies = {0, 3, 4, 15}
  Targets <- MCTargets
  MaxSamples = 3
  MaxLines = 6
  Ncpus = 2
  Tenants = 3
  Rps = 5
  Duration = 4
  Second = 4
  MaxStart = 1
  Horizon = 7
SPECIFICATION Spec
INVARIANTS
  ReportIsBetween
  PercentilesAreRanks
  RenderedReports
  PacedRequests
  EveryRequestCounted
CHECK_DEADLOCK FALSE

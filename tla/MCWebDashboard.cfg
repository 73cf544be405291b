CONSTANTS
  r1 = r1
  r2 = r2
  read = read
  send = send
  Requests = {r1, r2}
  Series = {read, send}
  Defaults <- MCDefaults
  MaxIngests = 3
  MaxFlips = 2
SPECIFICATION FairSpec
INVARIANTS
  PayloadIsFresh
  LoadNotBehindHistograms
PROPERTIES
  ReachabilitySettles

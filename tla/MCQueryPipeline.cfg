CONSTANTS
  t1 = t1
  t2 = t2
  s1 = s1
  s2 = s2
  Capacity = 2
  SampleCap = 4
  Tenants = {t1, t2}
  Slots = {s1, s2}
  SlotOf <- MCSlotOf
  Second = 2
  MaxQueries = 6
  MaxTime = 3
SPECIFICATION FairSpec
INVARIANTS
  NoQueryLost
  SamplesAreMostRecent
  WindowsPartitionQueries
PROPERTIES
  ActiveSlotsAreRecent
  QueriesGetRecorded

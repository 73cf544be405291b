CONSTANTS
  NodeCap = 3
  EdgeCap = 5
  Batches <- MCBatches
  HeaderBytes = 64
  Word = 128
  MemLen = 100
  BatchCount = 2
  BatchSize = 2
  Draws <- MCDraws
  HotThreshold = 2
  TopCount = 1
SPECIFICATION BenchSpec
CHECK_DEADLOCK FALSE
INVARIANTS
  RowsPartitionSlots
  NeverCorrupted
  RowsAscending
  BenchmarkAccounts
  HotNodesFound
  SlotsInMemory
PROPERTIES
  ImplementsEdgeStore

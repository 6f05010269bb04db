CONSTANTS
  Protocol = "MESI"
  Cores = {0, 1}
  TraceAddrs <- SharedBlocks
  ReadPriority = FALSE
  ComputeCycles = {0, 3}
  MaxTrace = 2
  Assoc = 1
  CacheSize = 4
  BlockSize = 4
SPECIFICATION MCSpec
CHECK_DEADLOCK FALSE
INVARIANTS RunEndsClean CountersAddUp
PROPERTIES Termination

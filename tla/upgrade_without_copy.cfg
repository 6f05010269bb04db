CONSTANTS
  c0 = c0
  c1 = c1
  Protocol = "MESI"
  Cores = {c0, c1}
  TraceAddrs <- TwoCores
  Assoc = 2
  CacheSize = 8
  BlockSize = 4
SPECIFICATION HistorySpec
INVARIANTS UpgradeHoldsCopy

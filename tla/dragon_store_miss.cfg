CONSTANTS
  c0 = c0
  c1 = c1
  Protocol = "DRAGON"
  Cores = {c0, c1}
  TraceAddrs <- TwoCores
  Assoc = 2
  CacheSize = 8
  BlockSize = 4
SPECIFICATION HistorySpec
PROPERTIES StoreLeavesDirty

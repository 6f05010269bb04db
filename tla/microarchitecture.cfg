CONSTANTS
  Configs <- MCConfigs
  geometry <- MCgeometry
  DataAddrs = {2, 4, 5}
  TextAddrs = {8}
  mem_lat = 2
  tlb_miss_lat = 2
  MaxBacklog = 2
SPECIFICATION PartsSpec
INVARIANTS
  StoreNeverLost FlushComplete LookupIsExact WaysInOrder
  BTBPrecise HistoryExact ReturnStackIntact
  WrongPathExact

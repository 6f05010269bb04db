CONSTANTS
  c0 = c0
  c1 = c1
  c2 = c2
  Protocol = "MESI"
  Cores = {c0, c1, c2}
  TraceAddrs <- TwoCores
  Assoc = 2
  CacheSize = 8
  BlockSize = 4
SPECIFICATION MCSpec
INVARIANTS ExclusiveCopy SingleOwner UpgradeFindsLine
PROPERTIES WritebackCharged DirtyDataKept CleanVictimFirst ImplementsMESI

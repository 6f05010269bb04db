CONSTANTS
  Protocol = "MESI"
  Cores = {0, 1, 2}
  TraceAddrs <- OneBlock
  ReadPriority = FALSE
  ComputeCycles = {0, 3}
  MaxTrace = 1000
  Assoc = 1
  CacheSize = 4
  BlockSize = 4
SPECIFICATION MCSpec
CHECK_DEADLOCK FALSE
INVARIANTS OneContinuationPerCore BusHandedOver
PROPERTIES NoSecondOvertaking ImplementsCoherence
VIEW EngineView

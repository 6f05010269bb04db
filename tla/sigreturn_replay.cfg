SPECIFICATION Spec
CONSTANTS
    MemSize = 6
    PageSize = 2
    KnownFlags = {0, 1, 2}
    KnownIoctls = {1, 2}
    Targets = {"alpha"}
    Plan <- SignalReturn
    Arguments <- OneVector
    Hosts <- GoodAndBad
    BlobTail = 2
    MaxInsts = 3
    Interval = 1
    Commands <- ReplayOnce
INVARIANT ReplayReproduces
CHECK_DEADLOCK FALSE

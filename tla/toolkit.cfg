SPECIFICATION MCSpec
CONSTANTS
    MemSize = 6
    PageSize = 2
    KnownFlags = {0, 1, 2}
    KnownIoctls = {1, 2}
    Targets = {"pisa", "alpha"}
    Plan <- AnyCall
    Arguments <- TwoVectors
    Hosts <- GoodAndBad
    BlobTail = 2
    MaxInsts = 3
    Interval = 1
    Commands <- Sessions
INVARIANTS
    ReplayFaithful SelfCheckSilent OutputRepeated CallsRecordable
    EvaluatorFollowsGrammar ConfigRoundTrip SymbolsFound ProfilesAddUp ProcessImage
PROPERTIES BreaksExact
CHECK_DEADLOCK FALSE

CONSTANTS
    N = 3
    Port = {"out", "err"}
    ErrPort = "err"
    Table <- SkipBackpressure
    Outputs <- SkipOutputs
    Depth = 1
    Ticking = {}
    Subscribers = {}
    MaxBurst = 2
    MaxEmit = 2
    Emits <- SkipEmits
SPECIFICATION SvcSpec
PROPERTIES
    SpawnReturns
CHECK_DEADLOCK FALSE

CONSTANTS
    N = 3
    Port = {"out", "err"}
    ErrPort = "err"
    Table <- Feedback
    Outputs <- FeedbackOutputs
    Depth = 1
    Ticking = {1}
    Subscribers = {}
    MaxBurst = 2
    MaxEmit = 2
    Emits <- FeedbackEmits
SPECIFICATION SvcSpec
INVARIANTS
    NothingLeftRunning
    NoLostWakeup
    BackpressureIsLossless
    RoutedBeforeNext
PROPERTIES
    SpawnReturnsOrWaits
    RetireReturnsOrStalls
    EveryBatchIsSettled
CHECK_DEADLOCK FALSE

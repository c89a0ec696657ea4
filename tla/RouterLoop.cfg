CONSTANTS
    N = 2
    Port = {"out", "err"}
    ErrPort = "err"
    Table <- LoopMixed
    Outputs <- LoopOutputs
    Depth = 1
    Ticking = {2}
    Subscribers = {1}
    MaxBurst = 1
    MaxEmit = 3
    Emits <- LoopEmits
SPECIFICATION Spec
INVARIANTS
    Inductive
    ExactlyOnePlace
    LossHasItsReason
PROPERTIES
    KeepsThePromise

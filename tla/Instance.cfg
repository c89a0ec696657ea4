SPECIFICATION Spec
CONSTANTS
    Depth = 2
    IdSpace = 2
    Outputs = 1
    MaxPayload = 2
    Budget = 3
    Lens = {1, 2}
    MaxSets = 3
    MaxEmits = 2
    MaxPosts = 2
INVARIANTS
    TypeOK
    ArmedAreRunning
    CancelledOneShotNeverFires
    EveryLifeIsClosed

SPECIFICATION Spec
CONSTANTS
    Key = {k1, k2}
    Value = {v1}
    Delays = {1, 6}
    MaxInt = 6
    IdSpace = 2
    Wear = 1
    MaxNow = 3
    MaxCalls = 3
    MaxLives = 2
    Absent = Absent
INVARIANTS
    OncePerPump
    AckedIsOnDisk
PROPERTIES
    PumpEnds

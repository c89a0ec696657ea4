CONSTANTS
    Task = {t1, t2}
    Reactor = {t2}
    Digest = {d1, d2}
    Pins = {tag, d1}
    ATag = tag
    Policies <- AllPolicies
    MaxLives = 2
    NoInode = NoInode
SPECIFICATION Spec
INVARIANTS
    EntryIsVouchedFor
    TornOnlyByTwo

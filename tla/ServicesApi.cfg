CONSTANTS
    Auto = Auto
    Manual = Manual
    Torn = Torn
    None = None
    Star = Star
    Boot = Boot
    Request = {r1, r2}
    Text <- Definitions
    Autostart <- Starting
    Invalid <- Unsound
    Ask <- AllAsks
    MaxEdits = 1
    MaxBoots = 2
SPECIFICATION Spec
INVARIANTS
    OnlyDroppedHandlersLeak
    ViewMatchesFile
    OneWriterWins
    OnlyStartOverrides
PROPERTIES
    DeleteSparesTheRunning
    EveryRequestIsAnswered

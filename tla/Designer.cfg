CONSTANTS
    kitchen = kitchen
    hall = hall
    b1 = b1
    b2 = b2
    here = here
    other = other
    Id = {b1, b2}
    Name = {kitchen, hall}
    Place = {here, other}
    NameOf <- TwoNames
    Start <- AtFirst
    Kinds = {"add", "configure"}
    MaxEdits = 2
    MaxCalls = 2
    MaxOutside = 1
    Broken = Broken
    Refused = Refused
    None = None
SPECIFICATION Spec
INVARIANTS
    FilesAreSound
    OwnEditsDoNotRace
PROPERTIES
    NothingOverwrittenUnseen
    EveryEditIsAnswered
CHECK_DEADLOCK FALSE

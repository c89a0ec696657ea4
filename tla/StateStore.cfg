CONSTANTS
    Ns = {n1, n2}
    Definitions = {{n1, n2}, {n2}}
    MaxGen = 2
    MaxCount = 2
    MaxEdits = 1
    Broken = Broken
    Gone = Gone
    None = None
SPECIFICATION Spec
INVARIANTS
    CountsAddUp
PROPERTIES
    ReclaimSparesTheDeclared
    ReclaimEnds

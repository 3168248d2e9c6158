SPECIFICATION Spec
CONSTANTS
    W = 4
    MaxLevels = 2
    EntitySize = 4
    Files <- OddVersions
    MayBeMissing = TRUE
    Garbage <- OddBytes
INVARIANTS
    TypeOK
PROPERTIES
    OnBoard
CHECK_DEADLOCK FALSE

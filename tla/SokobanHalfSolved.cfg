SPECIFICATION Spec
CONSTANTS
    W = 4
    MaxLevels = 2
    EntitySize = 4
    Files <- HalfSolvedVersions
    MayBeMissing = FALSE
    Garbage = {1}
INVARIANTS
    WinnersSolvedTheLevel
CHECK_DEADLOCK FALSE

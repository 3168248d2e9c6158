SPECIFICATION Spec
CONSTANTS
    W = 4
    MaxLevels = 2
    EntitySize = 4
    Files <- FarMarioVersions
    MayBeMissing = FALSE
    Garbage = {1}
INVARIANTS
    MissingMeansMissing
CHECK_DEADLOCK FALSE

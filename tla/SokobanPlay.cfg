SPECIFICATION Spec
CONSTANTS
    W = 5
    MaxLevels = 2
    EntitySize = 4
    Files <- PlayableVersions
    MayBeMissing = FALSE
    Garbage = {0, 255}
INVARIANTS
    BoardFaithful
    MarioFree
    NeverUndefined
    WonSolved
PROPERTIES
    AdvanceByLastPush
    PlaysByTheRules
CHECK_DEADLOCK FALSE

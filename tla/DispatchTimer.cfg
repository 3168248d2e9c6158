SPECIFICATION Spec
CONSTANTS
    NTimers = 2
    CountMod = 4
    Start <- WrapStart
INVARIANTS
    TypeOK
    GoodbyeOnlyWhenDone
    NothingLost
    NeverAhead
PROPERTIES
    Finishes
    IsCountdown

SPECIFICATION Spec
CONSTANTS
    Clients = {c1}
    Fds <- TwoFds
    Chunks <- TwoChunks
    Backend = "kqueue"
    Streaming = FALSE
    DbMayFail = FALSE
    None = None
INVARIANTS
    ReadAssertHolds
CHECK_DEADLOCK FALSE

SPECIFICATION Spec
CONSTANTS
    Clients = {c1, c2, c3}
    Fds <- TwoFds
    Chunks <- TwoChunks
    Backend = "kqueue"
    Streaming = TRUE
    DbMayFail = TRUE
    None = None
SYMMETRY Symmetry
INVARIANTS
    WritableIsOpen
    DescriptorsFollowConnections
CHECK_DEADLOCK FALSE

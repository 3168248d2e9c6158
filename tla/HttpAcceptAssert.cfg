SPECIFICATION Spec
CONSTANTS
    Clients = {c1, c2}
    Fds <- TwoFds
    Chunks <- OneChunk
    Backend = "epoll"
    Streaming = FALSE
    DbMayFail = FALSE
    None = None
INVARIANTS
    AcceptAssertHolds
CHECK_DEADLOCK FALSE

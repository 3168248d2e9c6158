SPECIFICATION Spec
CONSTANTS
    Clients = {c1, c2, c3}
    Fds <- TwoFds
    Chunks <- OneOfTwoChunks
    Backend = "kqueue"
    Streaming = FALSE
    DbMayFail = TRUE
    None = None
INVARIANTS
    AnswerAfterRequest
    AssertionsHold
PROPERTIES
    EveryoneIsAnswered
CHECK_DEADLOCK FALSE

SPECIFICATION DrainedSpec
CONSTANTS
    ListenFd = 3
    LastFd = 5
    Backlog = 1
    BufferSize = 1
    Modulus = 16
    Replies <- ShortReplies
    AllocFailures = FALSE
    MaxSend = 1
    MaxRoom = 1
    MaxUnsent = 1
    MaxSignals = 1
INVARIANTS
    Bookkeeping
PROPERTIES
    ExitRequested

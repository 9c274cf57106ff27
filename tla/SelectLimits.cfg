SPECIFICATION Spec
CONSTANTS
    ListenFd = 3
    LastFd = 4
    Backlog = 1
    BufferSize = 1
    Modulus = 16
    Replies <- ShortAndLongReplies
    AllocFailures = TRUE
    MaxSend = 2
    MaxRoom = 1
    MaxUnsent = 1
    MaxSignals = 1
INVARIANTS
    HeapBalance
    BufferBounds

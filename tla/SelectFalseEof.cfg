SPECIFICATION FairSpec
CONSTANTS
    ListenFd = 3
    LastFd = 4
    Backlog = 1
    BufferSize = 1
    Modulus = 4
    Replies <- NoReplies
    AllocFailures = FALSE
    MaxSend = 3
    MaxRoom = 1
    MaxUnsent = 0
    MaxSignals = 1
PROPERTIES
    ClosedByPeerOnly

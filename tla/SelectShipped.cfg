SPECIFICATION FairSpec
CONSTANTS
    ListenFd = 3
    LastFd = 5
    Backlog = 1
    BufferSize = 1
    Modulus = 16
    Replies <- NoReplies
    AllocFailures = FALSE
    MaxSend = 2
    MaxRoom = 1
    MaxUnsent = 0
    MaxSignals = 1
INVARIANTS
    NeverDies
PROPERTIES
    ClosedByPeerOnly
    ClosedAfterDraining
    ExitRequested
    PeerCloseNoticed
    QueueServed

SPECIFICATION FairSpec
CONSTANTS
    Conns = {c1, c2, c3, c4}
    Fds <- ThreeFds
    Backlog = 2
    MaxThreads = 2
    Failures = TRUE
    NoConn = NoConn
    Reserved = Reserved
INVARIANTS
    FdOwnership
PROPERTIES
    ServiceRefined
CHECK_DEADLOCK FALSE

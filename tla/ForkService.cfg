SPECIFICATION FairSpec
CONSTANTS
    Conns = {c1, c2, c3, c4}
    Parent = Parent
    Listener = Listener
    None = None
    Backlog = 2
    MaxFds = 3
    MaxProcs = 2
    Failures = TRUE
INVARIANTS
    Holders
    ServesMaxProcs
PROPERTIES
    StopsByLeaks
    ServiceRefined
CHECK_DEADLOCK FALSE

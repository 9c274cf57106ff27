SPECIFICATION MCSpec
CONSTANTS
    Size <- TwoBuffers
    BUFFER_SIZE <- Buffer
    MaxComplaints = 2
INVARIANTS
    InOrder
    CompleteOrReported
    PrefixCopied
PROPERTIES
    CopiesEnd
    PrintedGrows
    Heard
CHECK_DEADLOCK FALSE

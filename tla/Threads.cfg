SPECIFICATION MCSpec
CONSTANTS
    Limit <- LineFortyFive
INVARIANTS
    Counted
    Guarded
PROPERTIES
    Termination
    PrintsForEver
CHECK_DEADLOCK FALSE

SPECIFICATION MCSpec
CONSTANTS
    Programs <- AllPrograms
    MaxSignals = 3
    Forks = 4
    Rounds = 3
INVARIANTS
    Reports
    Detaches
    Grouped
PROPERTIES
    ParentsReturn
    SignalEnds
    Answered
CHECK_DEADLOCK FALSE

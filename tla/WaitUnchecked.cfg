SPECIFICATION Spec
CONSTANTS
    Programs <- ForkAlone
INVARIANTS
    TerminatedNormally
CHECK_DEADLOCK FALSE

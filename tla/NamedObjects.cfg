SPECIFICATION MCSpec
CONSTANTS
    parent = parent
    child = child
    Waiters = {w1, w2}
    Tryers = {t1}
    Parents <- OneParent
    Children <- OneChild
    childOf <- ParentAndChild
    InitValues <- UpToThree
    SemValueMax = 2
    MaxKills = 1
    Senders = {s1, s2, s3}
    Receivers = {r1, r2}
    Priorities = {0, 1}
    MaxMsg = 2
INVARIANTS
    Conservation
    Exclusion
    NoOvertaking
PROPERTIES
    Served
    ParentReturns
    CallsReturn
CHECK_DEADLOCK FALSE

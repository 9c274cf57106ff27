SPECIFICATION Spec
CONSTANTS
    Clients = {c1, c2, c3}
    NoClient = NoClient
    MaxFds = 2
    Backlog = 2
INVARIANTS
    Received
PROPERTIES
    ClientsEnd
CHECK_DEADLOCK FALSE

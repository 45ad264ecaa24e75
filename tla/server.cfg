CONSTANTS
    Conns = {c1, c2}
    Requests = {q1, s1, e1}
    Bulk = {}
    Stops = {s1}
    Subscribes = {e1}
    Damaged = {e1}
    NoConn = NoConn
    Listener = Listener
    RequestLimit = 1
    BulkLimit = 1
SPECIFICATION FairSpec
CHECK_DEADLOCK FALSE
INVARIANTS
    TypeOK
    PermitsConserved
PROPERTIES
    GracefulDrain
    Settled
    ShutdownStops

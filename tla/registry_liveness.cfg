CONSTANTS
    n1 = n1
    n2 = n2
    camera = camera
    NodeId = {n1, n2}
    EmptyId = EmptyId
    NoInfo = NoInfo
    Service = {camera}
    max_nodes_ = 2
    max_missed_heartbeats_ = 2
    CounterMod = 3
    Call = {c1, c2}
    Requests <- OneNodeRequests
    PortMayBeTaken = FALSE
    MayCrash = FALSE
    MaxRands = 2
SPECIFICATION FairSpec
PROPERTIES
    GracefulExit
    InFlightCompletes
    StaleEvicted
    ImplementsDirectory

CONSTANTS
    n1 = n1
    n2 = n2
    camera = camera
    NodeId = {n1, n2}
    EmptyId = EmptyId
    NoInfo = NoInfo
    Service = {camera}
    max_nodes_ = 1
    max_missed_heartbeats_ = 1
    CounterMod = 2
    Call = {c1}
    Requests <- OneNodeRequests
    PortMayBeTaken = FALSE
    MayCrash = FALSE
    MaxRands = 2
SPECIFICATION Spec
PROPERTY SessionValidated

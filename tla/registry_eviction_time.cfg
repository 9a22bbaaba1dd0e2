CONSTANTS
    n1 = n1
    NodeId = {n1}
    EmptyId = EmptyId
    NoInfo = NoInfo
    Service = {}
    max_nodes_ = 1
    max_missed_heartbeats_ = 3
    CounterMod = 4
    check_interval_ms_ = 2
    MaxTime = 8
    Call = {c1}
    Requests <- OneNodeRequests
    PortMayBeTaken = FALSE
    MayCrash = TRUE
    MaxRands = 2
SPECIFICATION TimedSpec
PROPERTY EvictedOnlyWhenSilent

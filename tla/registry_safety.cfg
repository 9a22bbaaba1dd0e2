CONSTANTS
    n1 = n1
    n2 = n2
    camera = camera
    NodeId = {n1, n2}
    EmptyId = EmptyId
    NoInfo = NoInfo
    Service = {camera}
    max_nodes_ = 1
    max_missed_heartbeats_ = 2
    CounterMod = 3
    Call = {c1, c2}
    Requests <- AllKindsOfRequests
    PortMayBeTaken = TRUE
    MayCrash = TRUE
    MaxRands = 2
SPECIFICATION Spec
SYMMETRY Symmetry
INVARIANTS
    TypeOK
    CapacityBound
    MissedBound
    NoLateRegistration
    KeyedByOwner
    TableOutlivesItsUsers
PROPERTY
    ImplementsDirectory

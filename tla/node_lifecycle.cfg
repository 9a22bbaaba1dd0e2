CONSTANTS
    OrderArrives = {TRUE, FALSE}
    MaxStarts = 2
    MaxFaults = 5
    base_delay_ms = 1000
    max_delay_ms = 3000
    max_attempts = 3
    enable_backoff = TRUE
    DelayMod = 1073741824
SPECIFICATION Spec
INVARIANTS
    TypeOK
    HeartbeatThreadUnique
    
    GivesUpOnlyAtTheLimit
PROPERTIES
    StaysDeregistered
    OwnerReturns

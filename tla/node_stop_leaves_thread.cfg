CONSTANTS
    OrderArrives = {FALSE}
    MaxStarts = 1
    MaxFaults = 0
    base_delay_ms = 1
    max_delay_ms = 3
    max_attempts = 2
    enable_backoff = TRUE
    DelayMod = 8
SPECIFICATION Spec
INVARIANT StopEndsHeartbeat

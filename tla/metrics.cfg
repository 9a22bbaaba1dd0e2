CONSTANTS
    Thread = {t1, t2}
    Latency = {2000, 3500}
    MaxRecords = 2
SPECIFICATION Spec
INVARIANTS
    AverageNotUnderstated
    RecordedOnce

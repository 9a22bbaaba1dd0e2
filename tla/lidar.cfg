CONSTANTS
    Term = 2
    max_retries = 3
    Stream = {s1}
    kMaxBackpressureRetries = 3
    ClientsLeave = TRUE
    Scraped = TRUE
SPECIFICATION Spec
INVARIANTS
    TypeOK
    FailuresBounded
    LoggerOutlivesItsUsers
PROPERTIES
    SelfHeals
    DepartedClientReleased
    Exits

CONSTANTS
    Term = 1
    max_retries = 1
    Stream = {}
    kMaxBackpressureRetries = 3
    ClientsLeave = TRUE
    Scraped = FALSE
SPECIFICATION Spec
PROPERTIES
    Exits

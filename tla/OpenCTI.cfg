SPECIFICATION Spec
CONSTANTS
    Requests = {r1, r2}
    failure_threshold = 2
    max_retries = 2
    response_caching = TRUE
    graceful_degradation = TRUE
INVARIANTS
    TypeOK
    BreakerConsistent
PROPERTIES
    OutageIsMasked
    Recovers

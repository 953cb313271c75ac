\* Three overlapping requests, a threshold that a restart may change.
CONSTANTS
    Requests = {r1, r2, r3}
    Thresholds = {1, 3}
    AttemptCap = 2
    AskedRetries <- MCAskedRetries
    MaxCrashes = 1
SPECIFICATION FairBreakerSpec
INVARIANTS
    BreakerTypeOK
    TrippedByFailure
PROPERTIES
    RequestsEnd
CHECK_DEADLOCK FALSE

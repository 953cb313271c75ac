\* Two users, two messages, two typing tasks, two attempts to log in.
CONSTANTS
    u1 = u1
    u2 = u2
    k1 = k1
    k2 = k2
    Nobody = Nobody
    Users = {u1, u2}
    MaxMessages = 2
    MaxErrors = 1
    MaxAttempts = 2
    MaxRefresh = 1
    Slots = {k1, k2}
    MaxAge = 1
SPECIFICATION FairSpec
INVARIANTS
    TypeOK
    StoppedMeansQuiet
    NothingSkipped
PROPERTIES
    StopReturns
    ExpiryIsNoticed
CHECK_DEADLOCK FALSE

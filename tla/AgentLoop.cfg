\* One loop in full: two steps, one tool round, two pauses, the duration
\* limit, one restart with or without a readable database.
CONSTANTS
    LoopIds = {a}
    MaxConcurrent = 1
    MaxKeep = 0
    MaxStepsCap = 2
    MaxToolRoundsCap = 1
    StepRequests <- MCStepRequests
    RoundRequests <- MCRoundRequests
    DurationLimited = TRUE
    MaxPauses = 2
    MaxCrashes = 1
SPECIFICATION FairSpec
INVARIANTS
    TypeOK
PROPERTIES
    StepsBeginOnlyWhileRunning
    StopTakesEffect
    HeldForeverMeansPaused
CHECK_DEADLOCK FALSE

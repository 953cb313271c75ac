\* Three loops of one step that compete for two places; one terminal loop is
\* kept, so that starts evict; one restart.
CONSTANTS
    LoopIds = {a, b, c}
    MaxConcurrent = 2
    MaxKeep = 1
    MaxStepsCap = 1
    MaxToolRoundsCap = 0
    StepRequests <- MCSingleStep
    RoundRequests <- MCNoRounds
    DurationLimited = FALSE
    MaxPauses = 0
    MaxCrashes = 1
SPECIFICATION Spec
SYMMETRY LoopSymmetry
INVARIANTS
    ConcurrencyBound
    NoZombieLoops
PROPERTIES
    ImplementsLifecycle
CHECK_DEADLOCK FALSE

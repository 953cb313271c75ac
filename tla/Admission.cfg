CONSTANTS
    day = day
    week = week
    MaxTurns = 2
    Burst = 2
    Refill = 1
    Periods = {day, week}
    Window <- TwoWindows
    Longest = 1
    Limit <- TwoLimits
    Dearest = 2
    Answers = 2
    Others = 1
SPECIFICATION Spec
INVARIANTS
    TypeOK
    RateHolds
    OvershootIsBounded
CHECK_DEADLOCK FALSE

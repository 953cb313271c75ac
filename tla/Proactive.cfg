CONSTANTS
    ann = ann
    bob = bob
    k1 = k1
    Nobody = Nobody
    Peers = {ann, bob}
    Watched = {ann}
    Ids = {k1}
    Delays = {1, 2}
    Idle = 2
    IdleJitter = 50
    Cooldown = 2
    CooldownJitter = 50
    Snooze = 1
    MinMessages = 1
    DailyLimit = 1
    MaxBackoff = 2
    MaxUnanswered = 1
    Day = 4
    Windows <- TwoSettings
SPECIFICATION FairSpec
INVARIANTS
    TypeOK
    DailyLimitHolds
PROPERTIES
    IdleTriggersAreSpaced
    RemindersFire
CHECK_DEADLOCK FALSE

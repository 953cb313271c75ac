CONSTANTS
    ann = ann
    bob = bob
    tea = tea
    coffee = coffee
    Nobody = Nobody
    Peers = {ann, bob}
    Owners = {ann}
    Facts = {tea, coffee}
    Legacy = {tea}
    FactsOf <- AFewFacts
    ExtractEvery = 2
    VisibleDays = 0
    MaxCount <- FewMessages
    MaxFacts = 2
SPECIFICATION MemorySpec
INVARIANTS
    MemoryTypeOK
    SuccessorsAreCurrent
PROPERTIES
    PeersApart
    NothingClearedUnseen
CHECK_DEADLOCK FALSE

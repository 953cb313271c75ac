\* Two turns of two peers.
CONSTANTS
    Turns = {t1, t2}
    Earlier = {t0}
    Left <- OneChain
    Peers = {p, q}
    Unbound = none
    Keep = 0
    KeepRecent = 2
    BatchSize = 2
    Legacy = 2
    MaxRows = 10
    MaxRounds = 1
    Limits = {1}
    Window = 3
SPECIFICATION Spec
INVARIANT
    ContextIsolated
CHECK_DEADLOCK FALSE

\* Two turns, of one peer or two, with up to two tool rounds each or none allowed
\* at all; a window that cuts tool chains.
CONSTANTS
    Turns = {t1, t2}
    Earlier = {t0}
    Left <- OneChain
    Peers = {p, q}
    Unbound = none
    Keep = 0
    KeepRecent = 2
    BatchSize = 2
    Legacy = 2
    MaxRows = 12
    MaxRounds = 2
    Limits = {0, 2}
    Window = 3
SPECIFICATION Spec
SYMMETRY TurnSymmetry
INVARIANTS
    TypeOK
    RequestsWellFormed
    HistoryIsTrue
PROPERTIES
    ImplementsStore
CHECK_DEADLOCK FALSE

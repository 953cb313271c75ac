\* Two peers, two overlapping compactions, at most four rows of a peer kept.
CONSTANTS
    Peers = {p, q}
    Unbound = none
    Messages <- MCMessages
    Foldable <- MCFoldable
    Jobs = {j1, j2}
    Keep = 4
    KeepRecent = 2
    BatchSize = 2
    Legacy = 2
    MaxRows = 6
SPECIFICATION Spec
SYMMETRY StoreSymmetry
INVARIANTS
    TypeOK
    SummaryCoversCursor
    SummaryStaysBehindRecent
CHECK_DEADLOCK FALSE

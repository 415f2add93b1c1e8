SPECIFICATION Spec
CONSTANTS
    r1 = r1
    r2 = r2
    r3 = r3
    NoRequest = NoRequest
    Requestors = {0, 1}
    Contexts = {0, 1, 2}
    Sequences = {0, 1, 2}
    Data = {0, 1}
    Requests <- MCRequests
    Arrivals <- MCArrivals
SYMMETRY Symmetry
INVARIANTS
    TypeOK
    FillSound
    FillComplete
    MergeMatchesHardware

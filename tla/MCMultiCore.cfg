SPECIFICATION Spec
CONSTANTS
    NoLine = NoLine
    PropertyLines = {}
    Tier <- MCTier
    NextRef <- MCNextRef
    Threads = {0, 1, 2}
    NumCores = 2
    Requests <- MCRequests
    Ways <- MCWays
    MaxCalls = 4
INVARIANTS
    CopiesBounded
    StatisticsAddUp
CHECK_DEADLOCK FALSE

SPECIFICATION Spec
CONSTANTS
    NoLine = NoLine
    Undelivered = Undelivered
    Lines = {0, 1, 2, 3, 4, 5, 6, 7, 8, 9, 12, 15}
    PropertyLines = {0, 1, 2, 3}
    RecordLines = {4, 5, 6, 7, 8, 9}
    Tier <- MCTier
    NextRef <- MCNextRef
    ColumnLines <- MCColumnLines
    Workloads <- MCWorkloads
    Sets <- MCSets
    Ways <- MCWays
    RegionLines = 4
    TableEntries = 2
    Confirmations = 2
    MaxInFlight = 2
    EpochSize = 1
    LeaderSlots = 3
    AllocateSlot = 1
    FlowThroughSlot = 2
    WindowMisses = 2
    MaxCalls = 6
INVARIANTS WritesReachMemory
CHECK_DEADLOCK FALSE

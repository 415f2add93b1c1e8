SPECIFICATION Spec
CONSTANTS
    lineA = lineA  lineB = lineB  lineC = lineC
    lineD = lineD  lineE = lineE  lineU = lineU
    NoLine = NoLine
    Lines = {lineA, lineB, lineC, lineD, lineE, lineU}
    SetOf <- MCSetOf
    Bucket <- MCBucket
    Tag <- MCTag
    Buckets = {0}
    Signatures = {0, 1}
    Accesses <- MCAccesses
    NumSets = 4
    SampledCacheSets = 2
    Ways = 3
    SamplerWays = 2
    Quanta = 3
    TimerSize = 6
    PredictorMax = 3
    PredictorThreshold = 2
    MaxRrpv = 2
    MaxCalls = 7
INVARIANTS
    TypeOK
    OccupancyIsIntervals
    OptimalHits
    MeasuredExactly
    LruIsRecency
    EvictionOrder
CHECK_DEADLOCK FALSE

SPECIFICATION Spec
CONSTANTS
    Val = {"a", "b"}
    ValSize <- Sizes
    Degree = 2
    PageUnits = 8
    RefUnits = 1
    OverflowUnits = 4
    MinFillUnits = 3
    Key = {1}
    Snap = {}
    Preloads <- OneKey
    Ops <- Replace
    MaxMetaFree = 1
    RecordsPerPage = 1
    MaxMutations = 2
    MaxSyncs = 1
    MaxFails = 0
    MaxKills = 1
    MaxLosses = 0
    MaxEnds = 1
    MaxTorn = 1
PROPERTY
    OldRootRecovered
CHECK_DEADLOCK FALSE

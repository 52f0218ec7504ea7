SPECIFICATION Spec
CONSTANTS
    Val = {"a", "b"}
    ValSize <- Sizes
    Degree = 2
    PageUnits = 8
    RefUnits = 1
    OverflowUnits = 4
    MinFillUnits = 3
    Key = {1}
    Snap = {}
    Preloads <- Nothing
    Ops <- Replace
    MaxMetaFree = 1
    RecordsPerPage = 1
    MaxMutations = 2
    MaxSyncs = 2
    MaxFails = 0
    MaxKills = 0
    MaxLosses = 1
    MaxEnds = 1
    MaxTorn = 1
PROPERTY
    TornMetaFallsBack
CHECK_DEADLOCK FALSE

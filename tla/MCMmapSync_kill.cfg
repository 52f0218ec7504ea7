SPECIFICATION Spec
CONSTANTS
    Val = {"a", "b"}
    ValSize <- Sizes
    Degree = 2
    PageUnits = 8
    RefUnits = 1
    OverflowUnits = 4
    MinFillUnits = 3
    Key = {1}
    Snap = {s1}
    Preloads <- OneKey
    Ops <- Replace
    MaxMetaFree = 1
    RecordsPerPage = 2
    MaxMutations = 3
    MaxSyncs = 3
    MaxFails = 1
    MaxKills = 1
    MaxLosses = 0
    MaxEnds = 1
    MaxTorn = 1
INVARIANT OpenTreeSound
PROPERTY SyncIsDurable
CHECK_DEADLOCK FALSE

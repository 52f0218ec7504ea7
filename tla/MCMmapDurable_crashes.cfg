SPECIFICATION TracedSpec
CONSTANTS
    Val = {"a", "b"}
    ValSize <- Sizes
    Degree = 2
    PageUnits = 8
    RefUnits = 1
    OverflowUnits = 4
    MinFillUnits = 3
    Key = {1, 2, 3, 4}
    Snap = {s1}
    Preloads <- OneOrTwoLeaves
    Ops <- ReplaceRight
    MaxMetaFree = 1
    RecordsPerPage = 2
    MaxMutations = 2
    MaxSyncs = 3
    MaxFails = 1
    MaxKills = 1
    MaxLosses = 1
    MaxEnds = 1
    MaxTorn = 0
    MaxPage = 18
    MaxAllocated = 3
    MaxRevision = 8
INVARIANT OpenTreeSound
PROPERTIES SyncIsDurable ImplementsDurableTree
CHECK_DEADLOCK FALSE

SPECIFICATION Spec
CONSTANTS
    Val = {"a", "b"}
    ValSize <- Sizes
    Degree = 2
    PageUnits = 8
    RefUnits = 1
    OverflowUnits = 4
    MinFillUnits = 3
    Key = {1, 2, 3, 4}
    Snap = {s1}
    Preloads <- OneOrTwoLeaves
    Ops <- ReplaceEither
    MaxMetaFree = 2
    RecordsPerPage = 2
    MaxMutations = 2
    MaxSyncs = 2
    MaxFails = 1
    MaxKills = 0
    MaxLosses = 1
    MaxEnds = 1
    MaxTorn = 1
PROPERTIES
    SyncIsDurable
    NewRootAfterMetaWrite
    SnapshotKeepsDurable
CHECK_DEADLOCK FALSE

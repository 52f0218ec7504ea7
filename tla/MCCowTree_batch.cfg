SPECIFICATION Spec
CONSTANTS
    Val = {"s", "b"}
    ValSize <- Sizes
    Degree = 2
    PageUnits = 8
    RefUnits = 1
    OverflowUnits = 4
    MinFillUnits = 3
    Key = {1, 2, 3, 4, 5}
    Snap = {s1}
    Preloads <- TwoLeaves
    PageCacheCapacity = 1
    DefaultPageCacheCapacity = 2
    Ranges <- Unbounded
    MaxRevision = 6
    MaxBatch = 2
    Ops <- SomeOps
    MaxPanics = 1
    MaxPage = 24
INVARIANTS
    TreeSound
    CacheRoutes
PROPERTIES
    ImplementsMap
    ImplementsPageStore
CHECK_DEADLOCK FALSE

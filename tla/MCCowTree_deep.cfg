SPECIFICATION Spec
CONSTANTS
    Val = {"s", "m"}
    ValSize <- Sizes
    Degree = 2
    PageUnits = 8
    RefUnits = 1
    OverflowUnits = 4
    MinFillUnits = 3
    Key <- Keys14
    Snap = {s1}
    Preloads <- Deep
    PageCacheCapacity <- Disabled
    DefaultPageCacheCapacity = 2
    Ranges <- SomeRanges
    MaxRevision = 16
    MaxBatch = 0
    Ops <- Op
    MaxPanics = 0
    MaxPage = 60
INVARIANTS
    TreeSound
    RangesVisitAll
    CursorsWalk
PROPERTIES
    ImplementsMap
    ImplementsPageStore
CHECK_DEADLOCK FALSE

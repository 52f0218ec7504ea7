SPECIFICATION Spec
CONSTANTS
    Val = {"s"}
    ValSize <- Sizes
    Degree = 2
    PageUnits = 8
    RefUnits = 1
    OverflowUnits = 4
    MinFillUnits = 3
    Key = {1, 2}
    Snap = {s1}
    Preloads <- Empty
    PageCacheCapacity <- Disabled
    DefaultPageCacheCapacity = 2
    Ranges <- Unbounded
    MaxRevision = 1
    MaxBatch = 2
    Ops <- Op
    MaxPanics = 0
    MaxPage = 12
INVARIANTS
    RetiredNonzero
CHECK_DEADLOCK FALSE

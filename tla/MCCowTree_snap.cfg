SPECIFICATION Spec
CONSTANTS
    Val = {"s", "b"}
    ValSize <- Sizes
    Degree = 2
    PageUnits = 8
    RefUnits = 1
    OverflowUnits = 4
    MinFillUnits = 3
    Key = {1, 2, 3, 4}
    Snap = {s1, s2}
    Preloads <- FullLeaf
    PageCacheCapacity <- Disabled
    DefaultPageCacheCapacity = 2
    Ranges <- SmallRanges
    MaxRevision = 6
    MaxBatch = 0
    Ops <- Op
    MaxPanics = 0
    MaxPage = 24
INVARIANTS
    TreeSound
PROPERTY ImplementsMap
SYMMETRY Symmetry
CHECK_DEADLOCK FALSE

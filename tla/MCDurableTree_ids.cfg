SPECIFICATION Spec
CONSTANTS
    Body <- Bodies
    Below <- BelowBody
    Link = {0}
    Leaves = {0}
    Roots = {2}
    Length <- Lengths
    ValidTree <- IsTree
    Linked <- IsLinked
    Snap = {s1}
    MaxPage = 4
    MaxAllocated = 1
    MaxRevision = 3
    MaxMetaFree = 1
    RecordsPerPage = 2
    MaxSyncs = 3
    MaxEnds = 1
    MaxTorn = 1
INVARIANT IdsUntilEnd
CONSTRAINT NothingEnded
CHECK_DEADLOCK FALSE

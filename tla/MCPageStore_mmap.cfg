SPECIFICATION Spec
CONSTANTS
    Content = {c1, c2}
    Snap = {s1, s2}
    FirstPage = 2
    MaxPage = 4
    MaxRevision = 3
    Mmap = TRUE
    MaxMetaFree = 1
    RecordsPerPage = 2
SYMMETRY Symmetry
INVARIANTS
    StoreSound
    SnapshotIsolation
    RollbackIntact
    PageAccounting
PROPERTY
    ImplementsVersions
CHECK_DEADLOCK FALSE

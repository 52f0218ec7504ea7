SPECIFICATION Spec
CONSTANTS
    MaxMetaFree = 9
    MaxPage = 5
    MaxLive = 2
    MaxRevision = 2
    MaxFaults = 1
    MaxCrashes = 1
    MaxReaders = 1
INVARIANTS
    PagesInsideFile
    PagesReadable
    NewestFits
    IdsAccounted
    DirtyCovers
PROPERTY PunchKeepsRoots
CHECK_DEADLOCK FALSE

SPECIFICATION FairSpec
CONSTANTS
    Pid <- Pids
    Handle = {h1, h2}
    SlotCount = 2
    Formats = {0, 2}
    MaxStart = 2
    MaxBoot = 2
    MaxToken = 2
    MaxRevision = 3
INVARIANTS TableSound SlotHeld ReaderPinned
PROPERTIES RefusedByNewerOnly OrphansEnd PinsEnd
CHECK_DEADLOCK FALSE

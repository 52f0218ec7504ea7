SPECIFICATION Spec
CONSTANTS
    Pid <- Pids
    Handle = {h1, h2}
    SlotCount = 2
    Formats = {0}
    MaxStart = 2
    MaxBoot = 2
    MaxToken = 2
    MaxRevision = 3
INVARIANTS ReaderKeepsPages
CHECK_DEADLOCK FALSE

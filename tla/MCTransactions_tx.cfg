SPECIFICATION Spec
CONSTANTS
    Key = {1, 2}
    Val = {a}
    Missing = missing
    Deleted = deleted
    Unstaged = unstaged
    Tx = {x1, x2}
    Batch = {y}
    Arena = {TRUE}
    BytesBefore <- Bytewise
    Preloads <- Trees
    MaxRevision = 2
    MaxOps = 2
    MaxOpen = 2
    MaxFaults = 1
INVARIANTS
    OldValuesSeen
    RangeMerges
    RevisionNamesContents
    CommitSyncDurable
PROPERTIES
    SerialCommits
SYMMETRY Symmetry
CHECK_DEADLOCK FALSE

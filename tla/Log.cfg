SPECIFICATION FairSpec
CONSTANTS
    Threads = {t1, t2}
    NULL = NULL
    MinLogSize = 1
    MaxLogSize = 2
    DefaultLogSize = 2
    DefaultFolderSize = 4
    Files30 = 2
    IntMax = 3
    LogSizes = {0, 3}
    FolderSizes = {0, 1}
    MaxDay = 2
    MaxIndex = 1
    MaxFaults = 1
CHECK_DEADLOCK FALSE
INVARIANTS FileBounded FolderExact
PROPERTIES FolderBounded OldestDeletedFirst PrintEnds

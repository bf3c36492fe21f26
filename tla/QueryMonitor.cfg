SPECIFICATION FairSpec
CONSTANTS
    Threads = {t1, t2}
    Sqls = {a, b, c}
    MaxSecond = 2
    MaxBatch = 2
    Counts = {1}
    DefaultCount = 2
CHECK_DEADLOCK FALSE
INVARIANTS TopQueries RunFlagTrue CanStartAgain
PROPERTY StopEnds

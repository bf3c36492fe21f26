SPECIFICATION Spec
CONSTANTS
    p1 = p1
    t1 = t1 t2 = t2
    Programs = {p1}
    SqlThreads = {t1, t2}
    Nobody = Nobody
    MaxCount = 2
    MaxStarts = 1
    MaxInserts = 1
INVARIANT NoneDropped

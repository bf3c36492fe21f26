SPECIFICATION FairSpec
CONSTANTS
    p1 = p1
    t1 = t1 t2 = t2
    Programs = {p1}
    SqlThreads = {t1, t2}
    Nobody = Nobody
    MaxCount = 2
    MaxStarts = 2
    MaxInserts = 2
INVARIANT CountExact
PROPERTIES ImplementsDelivery StopEnds QueueServed

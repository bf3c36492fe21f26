SPECIFICATION FairSpec
CONSTANTS
    c1 = c1 c2 = c2 m1 = m1 m2 = m2 k1 = k1 k2 = k2 k3 = k3
    Threads = {c1, c2, m1}
    Clients = {c1, c2}
    Managers = {m1}
    Conns = {k1, k2, k3}
    NULL = NULL
    MaxPoolCount = 2
    MaxTries = 2
    MaxHeld = 2
INVARIANTS ExclusiveUse NoDangling Accounted
PROPERTIES ImplementsOwnership DestroyEnds NoIdlePassedOver

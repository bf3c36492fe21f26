SPECIFICATION LoopSpec
CONSTANTS
    p1 = p1 p2 = p2 c1 = c1 c2 = c2
    Producers = {p1, p2}
    Consumers = {c1, c2}
    Nobody = Nobody
    StartLimits = {0, 1, 2}
    LaterLimits = {0}
    MaxInserts = 4
INVARIANTS SomebodyAwake LimitRespected
PROPERTIES ImplementsDelivery AllTaken

CONSTANTS
    Requests = {r1}
    Keys = {k1}
    Prints = {p1, p2}
    Null = Null
    Retention = 1
    MayLoseAck = TRUE
    StoreFaults = FALSE
    MaxFaults = 1
SPECIFICATION Spec
INVARIANT AcceptedAfterStorage

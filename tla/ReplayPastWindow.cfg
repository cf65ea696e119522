CONSTANTS
    Requests = {r1, r2}
    Keys = {k1}
    Prints = {p1, p2}
    Null = Null
    Retention = 1
    MayLoseAck = FALSE
    StoreFaults = FALSE
    MaxFaults = 0
SPECIFICATION Spec
PROPERTY ReplayedWithinWindow

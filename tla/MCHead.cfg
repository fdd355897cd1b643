CONSTANTS
    Ports = {p1, p2, p3}
    Broadcast = FALSE
    MaxCnt = 4
    MaxJoins = 1
    MaxOpens = 3
    MaxDeaths = 1
SPECIFICATION FairSpec
INVARIANTS
    Usable
    Settles
PROPERTY OpenReturns
CHECK_DEADLOCK FALSE

CONSTANTS
    Ports = {p1, p2, p3}
    Broadcast = FALSE
    MaxCnt = 6
    MaxJoins = 4
SPECIFICATION ConnSpec
SYMMETRY PortSymmetry
INVARIANTS
    SingleReceiver
    ReceiverCounted
    ConnectedIsCounted

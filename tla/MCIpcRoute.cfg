CONSTANTS
    Senders = {s1}
    Receivers = {c1, c2}
    None = None
    RingSize = 3
    WordSize = 6
    Broadcast = TRUE
    MaxCnt = 8
    MaxJoins = 2
    Tms = {"limit"}
    CountSize = 8
    MaxMsgs = 7
    Leavers = {}
    ReadersFirst = TRUE
SPECIFICATION Spec
SYMMETRY ReaderSymmetry
INVARIANTS
    InOrder
    CountExact
    FullMeansUnread
CHECK_DEADLOCK FALSE

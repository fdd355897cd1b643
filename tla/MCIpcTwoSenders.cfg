CONSTANTS
    Senders = {s1, s2}
    Receivers = {c1}
    None = None
    RingSize = 3
    WordSize = 6
    Broadcast = FALSE
    MaxCnt = 8
    MaxJoins = 2
    Tms = {"zero"}
    CountSize = 8
    MaxMsgs = 2
    Leavers = {}
    ReadersFirst = TRUE
SPECIFICATION Spec
INVARIANT NothingLost
CHECK_DEADLOCK FALSE

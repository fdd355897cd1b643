CONSTANTS
    Senders = {s1}
    Receivers = {c1}
    None = None
    RingSize = 3
    WordSize = 6
    Broadcast = FALSE
    MaxCnt = 8
    MaxJoins = 2
    Tms = {"forever"}
    CountSize = 8
    MaxMsgs = 2
    Leavers = {}
    ReadersFirst = TRUE
SPECIFICATION FairSpec
PROPERTY EventuallyDelivered
CHECK_DEADLOCK FALSE

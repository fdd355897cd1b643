CONSTANTS
    Senders = {s1}
    Receivers = {c1}
    None = None
    RingSize = 3
    WordSize = 6
    Broadcast = FALSE
    MaxCnt = 8
    MaxJoins = 3
    Tms = {"zero", "limit", "forever"}
    CountSize = 8
    MaxMsgs = 6
    Leavers = {s1, c1}
    ReadersFirst = TRUE
SPECIFICATION FairSpec
INVARIANTS
    TypeOK
    InOrder
    CountExact
    FullMeansUnread
PROPERTIES
    PollingDelivers
    ReaderStops
CHECK_DEADLOCK FALSE

CONSTANTS
    Senders = {s1}
    Receivers = {c1}
    Descriptors = {d1, d2}
    None = None
    RingSize = 3
    WordSize = 6
SPECIFICATION Spec
INVARIANTS
    TypeOK
    NoOverrun
    CountersOrdered
    StepsAgree
PROPERTY RefinesQueue

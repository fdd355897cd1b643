CONSTANTS
    Threads = {t1}
    Copies = {a, b}
    Receivers = {r1, r2}
    Align = 4
    CountBytes = 1
    RefOffset = 8
    RefBytes = 1
    Sizes = {1, 4}
    MaxMsgs = 3
SPECIFICATION Spec
SYMMETRY Symmetry
INVARIANTS
    TypeOK
    CountSafe
    Intact
    Tracked
CHECK_DEADLOCK FALSE

CONSTANTS
    Procs = {p1, p2, p3}
    Files = {f1, f2, f3, f4}
    NoFile = NoFile
    MaxCrashes = 2
SPECIFICATION RobustSpec
SYMMETRY Symmetry
INVARIANTS
    RobustTypeOK
    ExclusiveWhilePathStays
    NoFileLeft

CONSTANTS
    Threads = {t1, t2, t3}
    WFlag = 8
SPECIFICATION FairSpec
INVARIANTS
    TypeOK
    MutualExclusion
    WordExact
PROPERTIES
    WriterEnters

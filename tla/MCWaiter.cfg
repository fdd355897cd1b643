CONSTANTS
    Threads = {a, b, c}
    Nobody = Nobody
    MaxDeaths = 2
SPECIFICATION FairSpec
INVARIANTS
    NothingKept
    PredicateAlone
    BrokenByWaitOnly
PROPERTY GoesOn

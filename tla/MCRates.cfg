SPECIFICATION FairSpec
CONSTANTS
    Runs = {r1, r2}
    Codes <- OneCode
    Days <- TwoDays
    Concurrent = 1
    Retries = 1
    None = None
INVARIANTS
    CoveredAfterRun
    RefusedOnlyWhenRaced
PROPERTIES
    EveryRunEnds
CHECK_DEADLOCK FALSE

SPECIFICATION FairSpec
CONSTANTS
    Browsers = {b1, b2}
    BUFFER = 1
    MAX_WRITES = 1
    MAX_FAULTS = 1
INVARIANTS TypeOK GoesBackAtMostOnce
PROPERTIES EveryBrowserCatchesUp

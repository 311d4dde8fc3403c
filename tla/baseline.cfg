SPECIFICATION FairSpec
CONSTANTS
    Sites = {g1, g2}
    FLOOD = 2
    MAX_CHANGES = 1
    MAX_FAULTS = 1
    MAX_CRASHES = 1
    MAX_GARBLED = 1
    MAX_EXPIRIES = 1
INVARIANTS TypeOK NoRiseIsFabricated
PROPERTIES KeptDatumIsUsed EveryGaugeIsPublished

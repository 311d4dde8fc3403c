SPECIFICATION Spec
CONSTANTS
    Sites = {g1, g2}
    FLOOD = 2
    MAX_CHANGES = 0
    MAX_FAULTS = 0
    MAX_CRASHES = 0
    MAX_GARBLED = 1
    MAX_EXPIRIES = 0
PROPERTY OneBadGaugeStopsNoOther

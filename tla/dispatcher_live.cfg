SPECIFICATION FairSpec
CONSTANTS
    z1 = z1
    z2 = z2
    Zones = {z1, z2}
    Units = {u1, u2}
    Bodies <- TwoZoneBodies
    ADVISORY_THRESHOLD_CM = 10
    WARNING_THRESHOLD_CM = 20
    MAX_RECEIVE = 2
    BATCH = 2
    MAX_CRASHES = 1
    MAX_OUTAGES = 1
    MAX_DUPLICATES = 0
PROPERTIES EveryUnitSettles EveryZoneCloses

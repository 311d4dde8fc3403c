SPECIFICATION Spec
CONSTANTS
    z1 = z1
    z2 = z2
    Zones = {z1}
    Units = {u1, u2}
    Bodies <- OneZoneBodies
    ADVISORY_THRESHOLD_CM = 10
    WARNING_THRESHOLD_CM = 20
    MAX_RECEIVE = 2
    BATCH = 2
    MAX_CRASHES = 1
    MAX_OUTAGES = 0
    MAX_DUPLICATES = 1
INVARIANT OwedAdvisoryIsSent

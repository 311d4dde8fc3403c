SPECIFICATION MCSpec
CONSTANTS
    s1 = s1
    s2 = s2
    u1 = u1
    u2 = u2
    Sensors = {s1, s2}
    Near <- Pair
    Units = {u1, u2}
    Bodies <- AllBodies
    CLUSTER_MIN_SENSORS = 2
    HORIZONS = 1
    MAX_RECEIVE = 2
    MAX_FAULTS = 1
    MAX_RESTORES = 2
    MAX_OUTAGES = 1
INVARIANTS TypeOK AcknowledgedIsStored DivergenceNeverDeadLetters ZonesAreClusters
PROPERTY LastingClusterIsPublished

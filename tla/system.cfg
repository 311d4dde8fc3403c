SPECIFICATION MCSpec
CONSTANTS
    u1 = u1
    u2 = u2
    t1 = t1
    t2 = t2
    t3 = t3
    a = a
    b = b
    c = c
    p1 = p1
    p2 = p2
    p3 = p3
    p4 = p4
    p5 = p5
    Units = {u1, u2}
    Near <- MCNear
    Floods <- MCFloods
    FloodDepths = {0, 20}
    MAX_RECEIVE = 2
    BATCH = 2
    POLL = 1
    TTL = 3
    GRACE = 2
    MAX_READS = 2
    MAX_OUTAGES = 1
    MAX_STOPS = 1
    MAX_DEATHS = 1
    MAX_LOST = 1
    MAX_DUPLICATES = 1
    ISSUES = 2
    LIFE = 1
    WINDOW = 1
    MAX_ERRORS = 2
    Open = {1}
    Threads = {t1, t2, t3}
    SIZE = 2
    MAX_RAISES = 2
    SENSORS = {p1, p2, p3, p4, p5}
    QUEENS = {p1, p2, p3}
    REDHOOK = {p4, p5}
    Adjacent <- MCAdjacent
    StormFrames <- MCStormFrames
    ReplayFrames <- MCReplayFrames
    FRAMES = 1
    CLUSTER_MIN_SENSORS = 2
    ADVISORY_THRESHOLD_CM = 10
    WARNING_THRESHOLD_CM = 20
    MAX_CHANGES = 1
    MAX_FAILURES = 2
INVARIANTS AllTypesOK GreenMeansLooping IdleReportsAlive StatsAddUp CleanStopAbandonsNothing OnePool ClusterWetIsDBSCAN MockGradesLikeDispatcher
PROPERTIES TimeoutRepeatsNothing RowFollowsFeed ListedApplies DelistedLapses EveryCallEnds LastingClusterIsActive LastingClusterIsGraded GoneClusterCloses

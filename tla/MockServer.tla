----------------------------- MODULE MockServer -----------------------------
(***************************************************************************)
(* The stand-in for the API that the console is developed against          *)
(* (api/mock_server.py): every build_state() takes the next readings, of a *)
(* synthetic storm or of a replay, groups the wet sensors, keeps which     *)
(* groups were there before, and grades them with numbers of its own.  In  *)
(* a replay the groups are those of _cluster_wet(), whose loops are the    *)
(* steps here; in a storm they are two lists of names.                     *)
(***************************************************************************)
EXTENDS AdvisoryLadder, Clustering, Sequences

CONSTANTS
    SENSORS,
    QUEENS, REDHOOK,    \* the two groups of the storm
    Adjacent,           \* the pairs of sensors within 1640 ft
    StormFrames,        \* what readings() may return in a storm: sensor -> depth
    ReplayFrames,       \* the frames a replay file may hold
    FRAMES              \* the length of a replay file

\* A reading() is the depth of every sensor of SENSORS, in whole centimetres.
ASSUME MockServerAssumption ==
    /\ IsFiniteSet(SENSORS) /\ QUEENS \subseteq SENSORS /\ REDHOOK \subseteq SENSORS
    /\ StormFrames \subseteq [SENSORS -> Nat] /\ StormFrames # {}
    /\ ReplayFrames \subseteq [SENSORS -> Nat]
    /\ FRAMES \in Nat \ {0}

VARIABLES
    _replay_frames, \* <<>> in a storm
    _replay_index,  \* modulo the length
    frame,          \* rows
    mockpc,
    ids,            \* the wet sensors _cluster_wet() has not come to
    stack, comp, seen, out,
    _zone_states,   \* the labels known from before
    shown           \* the zones of the last state built

clustering == <<ids, stack, comp, seen, out>>
mockvars == <<_replay_frames, _replay_index, frame, mockpc, clustering, _zone_states, shown>>

-----------------------------------------------------------------------------
detect_cm == 5

replay == _replay_frames # <<>>

wet == {s \in SENSORS : frame[s] >= detect_cm}

adj(s) == {r \in wet : {r, s} \in Adjacent /\ r # s}

MockTypeOK ==
    /\ _replay_frames \in {<<>>} \cup [1..FRAMES -> ReplayFrames]
    /\ _replay_index \in 0..(FRAMES - 1)
    /\ frame \in StormFrames \cup ReplayFrames
    /\ mockpc \in {"readings", "scan", "walk", "zones"}
    /\ ids \subseteq SENSORS /\ stack \subseteq SENSORS /\ comp \subseteq SENSORS
    /\ seen \subseteq SENSORS /\ out \in Seq(SUBSET SENSORS)
    /\ _zone_states \subseteq SUBSET SENSORS
    /\ shown \subseteq [label : SUBSET SENSORS, state : {"forming", "active"},
                        depth : Nat, count : Nat, under_alert : BOOLEAN,
                        level : Levels \cup {NoLevel}]

MockInit ==
    /\ _replay_frames \in {<<>>} \cup [1..FRAMES -> ReplayFrames]
    /\ _replay_index = 0
    /\ frame = CHOOSE f \in StormFrames : TRUE
    /\ mockpc = "readings"
    /\ ids = {} /\ stack = {} /\ comp = {} /\ seen = {} /\ out = <<>>
    /\ _zone_states = {}
    /\ shown = {}

-----------------------------------------------------------------------------
\* readings().  A replay starts again at its end.
Readings ==
    /\ mockpc = "readings"
    /\ IF replay
       THEN /\ frame' = _replay_frames[_replay_index + 1]
            /\ _replay_index' = (_replay_index + 1) % FRAMES
            /\ mockpc' = "scan"
       ELSE /\ frame' \in StormFrames
            /\ mockpc' = "zones"
            /\ UNCHANGED _replay_index
    /\ ids' = IF replay THEN wet' ELSE {}
    /\ stack' = {} /\ comp' = {} /\ seen' = {} /\ out' = <<>>
    /\ UNCHANGED <<_replay_frames, _zone_states, shown>>

(* _cluster_wet() *)

\* if sid in seen or not adj[sid]: continue.  The mutant does not look at seen.
Skipped_unseen(sid) == adj(sid) = {}
Skipped(sid) == sid \in seen \/ adj(sid) = {}

Scan(sid) ==
    /\ mockpc = "scan"
    /\ sid \in ids
    /\ ids' = ids \ {sid}
    /\ IF Skipped(sid) THEN UNCHANGED <<stack, mockpc>>
       ELSE stack' = {sid} /\ mockpc' = "walk"
    /\ UNCHANGED <<_replay_frames, _replay_index, frame, comp, seen, out, _zone_states, shown>>

\* An entry that is on the stack twice is skipped the second time: a set will
\* do for it, in any order.
Walk(n) ==
    /\ mockpc = "walk"
    /\ n \in stack
    /\ comp' = comp \cup {n}
    /\ stack' = (stack \cup adj(n)) \ comp'
    /\ UNCHANGED <<_replay_frames, _replay_index, frame, mockpc, ids, seen, out, _zone_states, shown>>

WalkEnds ==
    /\ mockpc = "walk"
    /\ stack = {}
    /\ seen' = seen \cup comp
    /\ out' = IF Cardinality(comp) >= 2 THEN Append(out, comp) ELSE out
    /\ comp' = {}
    /\ mockpc' = "scan"
    /\ UNCHANGED <<_replay_frames, _replay_index, frame, ids, stack, _zone_states, shown>>

ScanEnds ==
    /\ mockpc = "scan"
    /\ ids = {}
    /\ mockpc' = "zones"
    /\ UNCHANGED <<_replay_frames, _replay_index, frame, clustering, _zone_states, shown>>

-----------------------------------------------------------------------------
(* The rest of build_state() *)

\* Each group: its label and who of it is wet.
groups ==
    IF replay THEN {[label |-> out[i], present |-> out[i]] : i \in DOMAIN out}
    ELSE {[label |-> g, present |-> g \cap wet] : g \in {QUEENS, REDHOOK}}

depth(g) == CHOOSE d \in {frame[s] : s \in g.present} : \A s \in g.present : d >= frame[s]

alerted(g) == ~replay /\ g.label = QUEENS /\ depth(g) >= 8

\* The mock's own ladder.  The mutant forgets the corroboration.
graded_alone(d, count, under_alert) ==
    IF d >= 12 THEN "warning" ELSE IF d >= 10 THEN "advisory" ELSE "monitor"
graded(d, count, under_alert) ==
    IF d >= 20 \/ (d >= 12 /\ under_alert) THEN "warning"
    ELSE IF d >= 10 \/ (count >= 3 /\ under_alert) THEN "advisory"
    ELSE "monitor"

Zone(g) ==
    LET state == IF g.label \in _zone_states THEN "active" ELSE "forming"
    IN  [label |-> g.label, state |-> state, depth |-> depth(g),
         count |-> Cardinality(g.present), under_alert |-> alerted(g),
         level |-> IF state = "forming" THEN NoLevel
                   ELSE graded(depth(g), Cardinality(g.present), alerted(g))]

Present == {g \in groups : Cardinality(g.present) >= 2}

\* A group that is not there any more is forgotten; of a replay, none is, for
\* its groups are never there with less than two.
Known == (_zone_states \ {g.label : g \in groups}) \cup {g.label : g \in Present}

BuildState ==
    /\ mockpc = "zones"
    /\ shown' = {Zone(g) : g \in Present}
    /\ _zone_states' = Known
    /\ mockpc' = "readings"
    /\ UNCHANGED <<_replay_frames, _replay_index, frame, clustering>>

-----------------------------------------------------------------------------
MockNext ==
    \/ Readings \/ WalkEnds \/ ScanEnds \/ BuildState
    \/ \E s \in SENSORS : Scan(s) \/ Walk(s)

MockSpec == MockInit /\ [][MockNext]_mockvars

-----------------------------------------------------------------------------
(* Properties *)

\* _cluster_wet(), "DBSCAN-equivalent for minpoints=2": its components are the
\* clusters current_clusters() would find, each once.
ClusterWetIsDBSCAN ==
    replay /\ mockpc = "zones" =>
        /\ {out[i] : i \in DOMAIN out} \in Clusterings(wet, Adjacent, 2)
        /\ \A i, j \in DOMAIN out : out[i] = out[j] => i = j

\* The console sees of the mock the level that the dispatcher would issue on
\* FloodNet's thresholds.
MockGradesLikeDispatcher ==
    \A z \in shown : z.state = "active" => z.level = decide_level(z.depth, z.count, z.under_alert)
=============================================================================

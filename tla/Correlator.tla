----------------------------- MODULE Correlator -----------------------------
(***************************************************************************)
(* The correlator process (workers/correlator.py): it takes readings and   *)
(* alerts from the ingest queue, makes sure the sensor row exists, claims  *)
(* the reading, and at most once per interval clusters the wet sensors and *)
(* sends one candidate zone per cluster.  Beside Postgres it keeps the     *)
(* read-through sensor cache of curbline/cache.py in Redis, which may be   *)
(* cold, stale or unreachable.                                             *)
(***************************************************************************)
EXTENDS Clustering, SqsQueue, Sequences

CONSTANTS
    Sensors,                \* sensor identities
    Near,                   \* the pairs of sensors within CLUSTER_EPS_FT
    Bodies,                 \* ingest messages the collector can send
    CLUSTER_MIN_SENSORS,    \* 2 in the code
    HORIZONS,               \* bound: how far the reading window slides
    MAX_FAULTS,             \* bound: crashes and failing statements
    MAX_RESTORES,           \* bound: times the tables are cleared
    MAX_OUTAGES             \* bound: Redis outages

NoUnit == "none"

ASSUME CorrelatorAssumption ==
    /\ IsFiniteSet(Sensors) /\ NoUnit \notin Units
    /\ \A b \in Bodies : /\ b.kind \in {"reading", "alert", "other"}
                         /\ b.kind = "reading" => /\ b.sensor \in Sensors
                                                  /\ b.at \in Nat
                                                  /\ b.wet \in BOOLEAN
    /\ \A pair \in Near : pair \subseteq Sensors
    /\ CLUSTER_MIN_SENSORS \in Nat \ {0}
    /\ HORIZONS \in Nat /\ MAX_FAULTS \in Nat
    /\ MAX_RESTORES \in Nat /\ MAX_OUTAGES \in Nat

VARIABLES
    queue,      \* the ingest queue (SqsQueue)
    body,       \* body[u]: the message; a reading's ingest_id is u
    sensors,    \* the sensors table
    readings,   \* the readings table: the ingest ids stored
    alerted,    \* the alerts table: has the alert been upserted
    cached,     \* the sensors with an entry in Redis
    redis,      \* "up" or "down"
    due,        \* CLUSTER_MIN_INTERVAL_SECONDS have passed since the last run
    horizon,    \* readings observed at or before it left the reading window
    pc,         \* the statement the process is about to run
    unit,       \* the message in hand
    attempt,    \* which of the two claim_reading() calls comes next
    pending,    \* clusters of the last query that are not sent yet
    sent,       \* the zone messages sent: each is its set of members
    env,        \* how much of each environment bound is used up
    history     \* faults met by each unit, and the ids that were cleared

store == <<sensors, readings, alerted>>
window == <<due, horizon>>
locals == <<unit, attempt, pending>>
vars == <<queue, body, sensors, readings, alerted, cached, redis, due, horizon,
          pc, unit, attempt, pending, sent, env, history>>

-----------------------------------------------------------------------------
Steps == {"down", "receive", "lookup", "ensure", "warm", "claim", "alert",
          "cluster", "query", "send", "delete"}

Zone == SUBSET Sensors

TypeOK ==
    /\ queue \in [Units -> Message]
    /\ body \in [Units -> Bodies]
    /\ sensors \subseteq Sensors
    /\ readings \subseteq Units
    /\ \A u \in readings : body[u].kind = "reading" /\ body[u].sensor \in sensors
    /\ alerted \in BOOLEAN
    /\ cached \subseteq Sensors
    /\ redis \in {"up", "down"}
    /\ due \in BOOLEAN
    /\ horizon \in 0..HORIZONS
    /\ pc \in Steps
    /\ unit \in Units \cup {NoUnit}
    /\ attempt \in 1..2
    /\ pending \subseteq Zone
    /\ sent \subseteq Zone
    /\ env \in [faults : 0..MAX_FAULTS, restores : 0..MAX_RESTORES,
                outages : 0..MAX_OUTAGES]
    /\ history \in [met : [Units -> 0..MAX_FAULTS], cleared : SUBSET Units]

sensor_id == body[unit].sensor

\* latest_readings: the stored readings no later observation supersedes.
latest_readings ==
    {u \in readings :
        \A v \in readings : body[v].sensor = body[u].sensor => body[v].at <= body[u].at}

\* The sensors whose latest reading is wet and still in the window.  The
\* mutant forgets the depth threshold.
breaching_any == {body[u].sensor :
                     u \in {v \in latest_readings : body[v].at > horizon}}
breaching == {body[u].sensor :
                 u \in {v \in latest_readings : body[v].wet /\ body[v].at > horizon}}

\* The results the query may have.
current_clusters == Clusterings(breaching, Near, CLUSTER_MIN_SENSORS)

\* cache.sensor(): the entry, or the row and then an entry for it.
Knows(s) == (redis = "up" /\ s \in cached) \/ s \in sensors
Warmed(entries, s) ==
    IF redis = "up" /\ s \in sensors THEN entries \cup {s} ELSE entries

\* cache.invalidate_sensor() swallows a Redis error.
Invalidated(s) == IF redis = "up" THEN cached \ {s} ELSE cached

-----------------------------------------------------------------------------
\* A process that has just started on empty queues and tables.
Fresh ==
    /\ queue = EmptyQueue
    /\ sensors = {}
    /\ readings = {}
    /\ alerted = FALSE
    /\ cached = {}
    /\ redis = "up"
    /\ due = TRUE
    /\ pc = "receive"
    /\ unit = NoUnit
    /\ attempt = 1
    /\ pending = {}
    /\ sent = {}
    /\ history = [met |-> [u \in Units |-> 0], cleared |-> {}]

Init ==
    /\ body \in [Units -> Bodies]
    /\ horizon = 0
    /\ env = [faults |-> 0, restores |-> 0, outages |-> 0]
    /\ Fresh

-----------------------------------------------------------------------------
(* The ingest queue, Redis, the database and the clock *)

Collect(u) ==
    /\ queue[u].at = "unsent"
    /\ queue' = Sent(queue, u)
    /\ UNCHANGED <<body, store, cached, redis, window, pc, locals, sent, env, history>>

Expire(u) ==
    /\ queue[u].at = "inflight"
    /\ u # unit
    /\ queue' = TimedOut(queue, u)
    /\ UNCHANGED <<body, store, cached, redis, window, pc, locals, sent, env, history>>

DeadLetter(u) ==
    /\ queue[u].at = "visible"
    /\ Exhausted(queue, u)
    /\ queue' = Redriven(queue, u)
    /\ UNCHANGED <<body, store, cached, redis, window, pc, locals, sent, env, history>>

\* The next poll of the collector reports the same alert or the same
\* observation in a new message, or SQS delivers a deleted message again.
ComesAgain(u) ==
    /\ queue[u].at = "deleted"
    /\ queue' = [queue EXCEPT ![u] = [at |-> "visible", receives |-> 0]]
    /\ UNCHANGED <<body, store, cached, redis, window, pc, locals, sent, env, history>>

RedisFails ==
    /\ redis = "up"
    /\ env.outages < MAX_OUTAGES
    /\ redis' = "down"
    /\ env' = [env EXCEPT !.outages = @ + 1]
    /\ UNCHANGED <<queue, body, store, cached, window, pc, locals, sent, history>>

RedisReturns ==
    /\ redis = "down"
    /\ redis' = "up"
    /\ UNCHANGED <<queue, body, store, cached, window, pc, locals, sent, env, history>>

\* The TTL of a cache entry runs out.
CacheExpires(s) ==
    /\ s \in cached
    /\ cached' = cached \ {s}
    /\ UNCHANGED <<queue, body, store, redis, window, pc, locals, sent, env, history>>

\* E-016: an operator clears the tables, or an older backup is restored, and
\* Redis keeps its entries.
TablesCleared ==
    /\ env.restores < MAX_RESTORES
    /\ sensors' = {}
    /\ readings' = {}
    /\ alerted' = FALSE
    /\ env' = [env EXCEPT !.restores = @ + 1]
    /\ history' = [history EXCEPT !.cleared = @ \cup readings]
    /\ UNCHANGED <<queue, body, cached, redis, window, pc, locals, sent>>

IntervalPasses ==
    /\ ~due
    /\ due' = TRUE
    /\ UNCHANGED <<queue, body, store, cached, redis, horizon, pc, locals, sent, env, history>>

WindowSlides ==
    /\ horizon < HORIZONS
    /\ horizon' = horizon + 1
    /\ UNCHANGED <<queue, body, store, cached, redis, due, pc, locals, sent, env, history>>

-----------------------------------------------------------------------------
(* aws.consume() around handle(); one message per receive *)

env_unchanged == UNCHANGED <<queue, body, env, history, redis, horizon>>

Receive ==
    /\ pc = "receive"
    /\ \E u \in Receivable(queue) :
          /\ queue' = Received(queue, {u})
          /\ unit' = u
          /\ pc' = CASE body[u].kind = "reading" -> "lookup"
                     [] body[u].kind = "alert"   -> "alert"
                     [] OTHER                    -> "delete"
    /\ attempt' = 1
    /\ pending' = {}
    /\ UNCHANGED <<body, store, cached, redis, window, sent, env, history>>

\* known = cache.sensor(): a hit skips the upsert, whatever Postgres holds.
Lookup ==
    /\ pc = "lookup"
    /\ pc' = IF Knows(sensor_id) THEN "claim" ELSE "ensure"
    /\ cached' = Warmed(cached, sensor_id)
    /\ env_unchanged
    /\ UNCHANGED <<store, due, locals, sent>>

\* _ensure_sensor(): the row first, then the entry that describes it.
EnsureRow ==
    /\ pc = "ensure"
    /\ sensors' = sensors \cup {sensor_id}
    /\ pc' = "warm"
    /\ env_unchanged
    /\ UNCHANGED <<readings, alerted, cached, due, locals, sent>>

WarmEntry ==
    /\ pc = "warm"
    /\ cached' = Warmed(Invalidated(sensor_id), sensor_id)
    /\ pc' = "claim"
    /\ env_unchanged
    /\ UNCHANGED <<store, due, locals, sent>>

\* A duplicate is not an error and still runs maybe_cluster().  The mutant
\* returns early on it.
AfterClaim_fresh == IF unit \in readings THEN "delete" ELSE "cluster"
AfterClaim == "cluster"

\* claim_reading(): INSERT ... ON CONFLICT DO NOTHING.
ClaimReading ==
    /\ pc = "claim"
    /\ sensor_id \in sensors
    /\ readings' = readings \cup {unit}
    /\ pc' = AfterClaim
    /\ env_unchanged
    /\ UNCHANGED <<sensors, alerted, cached, due, locals, sent>>

\* ForeignKeyViolation on the first attempt: repair the row and try once more.
\* The mutants give up on the reading, and let the exception out.
AfterViolation_skip == "cluster"
AfterViolation_raise == "raise"
AfterViolation == "ensure"

RepairSensor ==
    /\ pc = "claim"
    /\ sensor_id \notin sensors
    /\ attempt = 1
    /\ AfterViolation # "raise"
    /\ attempt' = 2
    /\ cached' = Invalidated(sensor_id)
    /\ pc' = AfterViolation
    /\ env_unchanged
    /\ UNCHANGED <<store, due, unit, pending, sent>>

UpsertAlert ==
    /\ pc = "alert"
    /\ alerted' = TRUE
    /\ pc' = "cluster"
    /\ env_unchanged
    /\ UNCHANGED <<sensors, readings, cached, due, locals, sent>>

\* maybe_cluster(): the interval is spent before the query runs.
SkipClustering ==
    /\ pc = "cluster"
    /\ ~due
    /\ pc' = "delete"
    /\ env_unchanged
    /\ UNCHANGED <<store, cached, due, locals, sent>>

StartClustering ==
    /\ pc = "cluster"
    /\ due
    /\ due' = FALSE
    /\ pc' = "query"
    /\ env_unchanged
    /\ UNCHANGED <<store, cached, locals, sent>>

QueryClusters ==
    /\ pc = "query"
    /\ pending' \in current_clusters
    /\ pc' = IF pending' = {} THEN "delete" ELSE "send"
    /\ env_unchanged
    /\ UNCHANGED <<store, cached, due, unit, attempt, sent>>

\* aws.send() to the zones queue, once per cluster; stable_zone_id() makes the
\* member set the identity of the zone.
SendZone ==
    /\ pc = "send"
    /\ \E zone \in pending :
          /\ sent' = sent \cup {zone}
          /\ pending' = pending \ {zone}
    /\ pc' = IF pending' = {} THEN "delete" ELSE "send"
    /\ env_unchanged
    /\ UNCHANGED <<store, cached, due, unit, attempt>>

Idle ==
    /\ unit' = NoUnit
    /\ attempt' = 1
    /\ pending' = {}

DeleteMessage ==
    /\ pc = "delete"
    /\ queue' = Deleted(queue, unit)
    /\ pc' = "receive"
    /\ Idle
    /\ UNCHANGED <<body, store, cached, redis, window, sent, env, history>>

\* The second ForeignKeyViolation, or the first if it is not repaired, leaves
\* handle().
ViolationEscapes ==
    /\ pc = "claim"
    /\ sensor_id \notin sensors
    /\ attempt = 2 \/ AfterViolation = "raise"
    /\ pc' = "receive"
    /\ Idle
    /\ UNCHANGED <<queue, body, store, cached, redis, window, sent, env, history>>

\* A statement that talks to Postgres or SQS raises: the message stays.
Fault ==
    /\ env.faults < MAX_FAULTS
    /\ env' = [env EXCEPT !.faults = @ + 1]
    /\ history' = IF unit = NoUnit THEN history
                  ELSE [history EXCEPT !.met[unit] = @ + 1]

HandlerFails ==
    /\ pc \in {"lookup", "ensure", "warm", "claim", "alert", "query", "send"}
    /\ Fault
    /\ pc' = "receive"
    /\ Idle
    /\ UNCHANGED <<queue, body, store, cached, redis, window, sent>>

\* The process dies; _last_cluster_run starts again from zero.
Crash ==
    /\ pc # "down"
    /\ Fault
    /\ pc' = "down"
    /\ due' = TRUE
    /\ Idle
    /\ UNCHANGED <<queue, body, store, cached, redis, horizon, sent>>

Restart ==
    /\ pc = "down"
    /\ pc' = "receive"
    /\ UNCHANGED <<queue, body, store, cached, redis, window, locals, sent, env, history>>

-----------------------------------------------------------------------------
Environment ==
    \/ \E u \in Units : Collect(u) \/ Expire(u) \/ DeadLetter(u) \/ ComesAgain(u)
    \/ \E s \in Sensors : CacheExpires(s)
    \/ RedisFails \/ RedisReturns \/ TablesCleared \/ IntervalPasses \/ WindowSlides

HandleReading ==
    Lookup \/ EnsureRow \/ WarmEntry \/ ClaimReading \/ RepairSensor \/ ViolationEscapes

MaybeCluster == SkipClustering \/ StartClustering \/ QueryClusters \/ SendZone

Consumer == Receive \/ HandleReading \/ UpsertAlert \/ MaybeCluster \/ DeleteMessage

Next == Environment \/ Consumer \/ HandlerFails \/ Crash \/ Restart

Spec == Init /\ [][Next]_vars

(* Fairness.  The process runs its next statement, systemd restarts it,     *)
(* visibility timeouts expire, the interval passes and the collector keeps  *)
(* polling: what is still listed or measured arrives again.                 *)
Fairness ==
    /\ WF_vars(Consumer)
    /\ WF_vars(Restart)
    /\ WF_vars(IntervalPasses)
    /\ \A u \in Units :
          /\ WF_vars(Expire(u))
          /\ WF_vars(DeadLetter(u))
          /\ WF_vars(ComesAgain(u) \/ Collect(u))

FairSpec == Spec /\ Fairness

-----------------------------------------------------------------------------
(* Properties *)

\* No reading is acknowledged that Postgres does not hold: cold, stale and
\* unreachable caches, foreign key repairs, failures and redeliveries
\* included.  Only clearing the tables loses a stored reading.
AcknowledgedIsStored ==
    \A u \in Units :
        queue[u].at = "deleted" /\ body[u].kind = "reading"
            => u \in readings \cup history.cleared

\* E-016: disagreement between Redis and Postgres alone sends no message to
\* the dead-letter queue; it takes real faults on every receive.
DivergenceNeverDeadLetters ==
    \A u \in Units :
        queue[u].at = "dead"
            => history.met[u] + env.restores >= MAX_RECEIVE

\* current_clusters(): what is sent was a cluster of sensors with a wet stored
\* reading, one of which had enough of them around it.  That the zone itself
\* has enough members holds while no border point goes to another cluster.
wet_once ==
    {body[u].sensor :
        u \in {v \in readings \cup history.cleared : body[v].kind = "reading" /\ body[v].wet}}

ZonesAreClusters ==
    \A zone \in sent \cup pending :
        /\ zone \subseteq wet_once
        /\ \E p \in zone : Cardinality(Neighbourhood(wet_once, Near, p)) >= CLUSTER_MIN_SENSORS
        /\ CLUSTER_MIN_SENSORS <= 2 => Cardinality(zone) >= CLUSTER_MIN_SENSORS

\* "The correlator republishes every live cluster each cycle" (db.py): a
\* cluster that lasts is published, although the interval is spent before the
\* query and a failure then skips a cycle.
LastingClusterIsPublished ==
    \A zone \in UNION UNION {Clusterings(some, Near, CLUSTER_MIN_SENSORS) : some \in SUBSET Sensors} :
        <>[](\A found \in current_clusters : zone \in found) => <>(zone \in sent)
=============================================================================

# Curbline: a verification project

TLA+ models of Curbline, a street-flooding pipeline: sensors are polled, wet
sensors are clustered into zones, and zones are graded, audited and notified.
The modules are translated from the source, checked with TLC on small
instances, and, for the core, proved with TLAPS for every value of the
constants. `PROJECT.json` maps each definition to the lines it models, lists the
runs, the findings, the hazards and the theorems.

## 1. The system

Four processes share Postgres, Redis and two SQS queues (each with a
dead-letter queue):

    sources -> collector -> [ingest queue] -> correlator -> [zones queue] -> dispatcher -> S3, SNS
                                                   |                             |
                                                   +--------- Postgres ----------+--- API server -> browsers
                                                   +--------- Redis (cache, counters, heartbeats, datums)

| Component | State it keeps | Operations | What makes it hard | What makes it correct |
|---|---|---|---|---|
| Dispatcher (`workers/dispatcher.py`) | locals of `handle()`, the sweeper's list | `handle`, `sweep_zones` | two threads on one table; six calls that may each fail; redelivery | audit before notification, forming delay, escalation is never suppressed, zones close |
| Zones and advisories store (`curbline/db.py`, `sql/schema.sql`) | zone rows, advisory rows | `open_zones`, `upsert_zone`, `stale_open_zones`, `set_zone_state`, `record_advisory` | each call is its own transaction | one lifecycle per zone, levels as last recorded |
| SQS and worker loop (`curbline/aws.py`) | messages, receive counts, visibility | `consume`, `poll_loop`, `send` | at least once, unordered, redrive, SIGTERM | every unit is handled or dead-lettered |
| Correlator (`workers/correlator.py`) | time of its last clustering | `handle_reading`, `handle_alert`, `maybe_cluster` | a cache that disagrees with the tables, redelivery, debounce | nothing acknowledged is lost, only clusters are sent, lasting clusters are sent |
| Sensor cache (`curbline/cache.py`) | Redis entries with a TTL | read-through, invalidate | outlives the rows it copies, unreachable | disagreement costs a repair, not a message |
| Clustering (`sql/schema.sql`) | none | `current_clusters` (DBSCAN) | border points, minimum size | zones are clusters of wet sensors |
| Collector and USGS baseline (`workers/collector.py`, `curbline/sources.py`) | datums in memory, back-off times | `poll_sensors`, `fetch`, `resolve_baseline`, `poll_alerts` | restart in a storm, rate limits, malformed answers | no rise is made up, a stored datum is used, no gauge is withheld for ever |
| Cache statistics and heartbeats (`curbline/cache.py`) | deltas, counters, keys with a TTL | `flush_stats`, `beat`, `worker_liveness` | partial failure, slow batches | counters count once, a live worker reads as live |
| API server (`api/server.py`) | active sockets, one broadcaster task | `broadcaster`, `Clients`, `ws`, `health_status` | two senders per socket, torn reads, slow sockets | browsers converge to the tables |
| Console (`web/app.js`) | last state shown | `connect`, `apply` | reconnects | shows the last state received |
| Provisioning (`infra/provision.py`, `infra/teardown.py`) | AWS account, `stack.json`, `.env` | the two scripts | interruption between any two calls, repeated runs | what bills is recorded until it is gone |
| NWS alerts (`poll_alerts`, `handle_alert`, `upsert_alert`, `alert_for_hull`) | one row per alert, `updated_at` | upsert per poll, test of `expires` | messages are neither claimed nor versioned: the last one handled wins | the row follows the feed, and lapses with it |
| Connection pool (`curbline/db.py`; the Redis client alike) | a reference, a lock, lent connections | `pool`, `cursor` | built on first use by several threads | one pool, no call waits for ever |
| Mock API (`api/mock_server.py`) | replay index, known zones | `readings`, `_cluster_wet`, `build_state` | algorithms and numbers of its own | it shows what the system would show |
| Replay and FloodNet sources, host scripts | a file, none | see `PROJECT.json` | little | not modelled |

The hazards this code is exposed to, each at its line, are in `PROJECT.json`
under `hazards`; the properties below were written for them.

## 2. The modules

| Module | Models | Notes |
|---|---|---|
| `SqsQueue` | a standard queue with redrive, as a value | mostly external; every module with a queue keeps it in a variable of its own |
| `AdvisoryLadder` | `decide_level`, `next_state`, `sweep_state`, `should_notify` | pure decisions |
| `Dispatcher` | consumer thread, sweeper thread, tables, S3, SNS | `pc` is the statement of `handle()` about to run; one action per call that has an effect outside the process |
| `EvidenceLedger` | what the dispatcher promises to a reader of its records | the abstract specification `Dispatcher` implements |
| `DispatcherProofs` | theorems about `Dispatcher` | section 5 |
| `Clustering` | the results DBSCAN may have over the graph of sensors within `CLUSTER_EPS_FT` | pure; `MCCorrelator` checks on a map with a border point between two clusters that it joins one of them (`SharedBorder`) |
| `Correlator` | the correlator, its queue, its tables, the sensor cache | composes `Clustering` and `SqsQueue` |
| `CorrelatorProofs` | theorems about `Correlator` | section 5 |
| `UsgsBaseline` | the collector's poll over USGS gauges | memory, Redis, history API, back-off |
| `UsgsBaselineProofs` | theorems about `UsgsBaseline` | section 5 |
| `Console` | broadcaster, handlers, sockets, browsers | two tables stand for the five that `build_state` reads |
| `ConsoleProofs` | theorems about `Console` | section 5 |
| `Provisioning` | the two scripts over one account | a script is a sequence of steps, the running one is in `pc` |
| `ProvisioningProofs` | theorems about `Provisioning` | section 5 |
| `WorkerLoop` | `consume()` around any handler, `Shutdown`, systemd, `flush_stats()`, `beat()` and what `/api/health` makes of it | batches, and a clock in ticks |
| `WorkerLoopProofs` | theorems about `WorkerLoop` | section 5 |
| `AlertFeed` | one NWS alert from the feed over the ingest queue to its row, and whether it applies | a clock in ticks |
| `Pipeline` | correlator and dispatcher joined by the zones queue, under a flood of changing extent, depth and alert | the composition: a handler is one step that may leave off half way |
| `ConnectionPool` | `pool()` and `cursor()` called by several threads | the construction may raise |
| `MockServer` | `_cluster_wet()` and the zones of `build_state()` in the mock | the loops are the steps |
| `MockServerProofs` | theorems about `MockServer` and about DBSCAN | section 5 |
| `MC*` | instances for TLC | message sets and symmetry; `MCSystem` holds five modules that share no state, and lets one of them move in each behaviour (`focus`) |
| `SystemProofs` | theorems about `ConnectionPool`, `AlertFeed`, `Pipeline` and `MCSystem` as a whole | section 5 |

### How state and actions correspond to the code

*Dispatcher.* `ReadOpenZones`, `UpsertZone`, `WriteAudit`, `Publish`,
`RecordAdvisory` are the calls of `handle()` in their order; the early returns
for a forming and for an unchanged zone are part of `UpsertZone`
(`AfterUpsert`). `Receive`, `DeleteMessage` and `HandlerFails` are
`aws.consume()`, with the delete outside the `try`. `SweepRead`, `SweepSet` and
`SweepFails` are `sweep_zones()` in `poll_loop()`. `Crash` takes both threads,
and stands for a kill, a reboot and an exception of `receive_message`. The only
clock is whether a row is older than `ZONE_STALE_MINUTES` (`Age`).
`history` records what the properties remember; no action reads it.

*Correlator.* `Lookup`, `EnsureRow`, `WarmEntry`, `ClaimReading`,
`RepairSensor` and `ViolationEscapes` are `handle_reading()` with the repair of
E-016: the second foreign key violation escapes to the worker loop.
`SkipClustering`, `StartClustering`, `QueryClusters` and `SendZone` are
`maybe_cluster()`, in which the interval is spent before the query. One message
is received at a time. `current_clusters` is the set of results the query may
have: a sensor that is no core point, but near core points of two clusters,
joins one of them, and nothing in the code says which. A cluster may so have
fewer members than `CLUSTER_MIN_SENSORS`, and be published by one cycle and not
by the next; `ZonesAreClusters` asks for a core point in each, and for the
number of members only where the minimum is 2, the default, or less.

*UsgsBaseline.* The branches of `resolve_baseline()` are the actions
`FromMemory`, `FromRedis`, `FromHistory`, `HistoryFails`, `BacksOff` and
`HistoryGarbled`; `Send` is `aws.send`. Stages are small whole numbers.

*Console.* A payload is a pair: how many zones and advisories it was read from.
`SendTo` waits while a socket is full, and the sockets after it with it. A
browser has one connection at a time; a reconnect is a new socket.

*WorkerLoop.* `at` is the statement of `consume()`: `Top` is the test of the
flag and the heartbeat, `Receive` the long poll, then for each message of the
batch `HandlerReturns` and `Delete`, or `HandlerRaises`. `Publish` is one
`INCRBY`, `Flushed` and `FlushFails` the two ends of `flush_stats()`. In
`ReplyLost` Redis applies an `INCRBY` whose reply does not come within
`socket_timeout`: the client raises and everything is retained, or it is of a
release of redis-py that sends the command once more. `DeliverAgain` is the
duplicate that the docstring of `consume()` expects: SQS delivers a message that
was deleted. `Sigterm`
only sets the flag; `Sigkill` comes `GRACE` ticks later, and `Dying` is a death
nobody asked for, the uncaught error of `receive_message` or `delete_message`
among them. `past` remembers for the properties what no process does.

*AlertFeed.* `listed` is the version the feed lists; `Poll`, `Publish` and
`PollFails` are `poll_alerts()` under `poll_loop()`, `UpsertAlert` is
`upsert_alert()`, which takes whatever version the message carries and sets
`updated_at`. `DeliverAgain` brings a deleted message back. `Applies` is the
condition of `alert_for_hull()`.

*Pipeline.* `QueryClusters` and `SendZone` are `maybe_cluster()` on readings
that keep coming; `Handle` is all of `handle()` with its delete, and
`HandlerFails` the same up to any of its writes. `Age` lets a row go stale: of
a zone that is still clustered only as one of `MAX_FAILURES` failures, because
20 minutes are many cycles of the correlator. `DeliverZoneAgain` brings a deleted
message back, and counts among these failures too. `stable_zone_id` is the identity
on member sets, as equal sets and no others share an id. The statements
between the writes are in `Correlator` and `Dispatcher`.

*ConnectionPool.* `line` is the statement of each thread: the test without the
lock, the lock, the test with it, the construction, the release, the loan.
`BuildFails` is a constructor that raises: the `with` gives the lock back, and
the next caller builds.

*MockServer.* `Scan` is an iteration of the outer loop of `_cluster_wet()`,
`Walk` one of the inner; both take their next element in any order, so the
order of a dict or of a stack does not matter. `BuildState` is the rest of
`build_state()`.

*Provisioning.* `ProvisionScript` and `TeardownScript` are the calls in their
order; `Interrupted` may come between any two of them.

## 3. What the runs check

Runs that pass:

| Run | Instance | Shows |
|---|---|---|
| `dispatcher_safety` | 1 zone, 2 messages of 3 kinds, 2 receives, 1 crash, 1 duplicate | `AuditedBeforeNotified`, `FormingDelay`, `LatestAdvisoryIsGraded`, `NoRepeatedAdvisory`, and `KeepsLedger`: the refinement of `EvidenceLedger` |
| `dispatcher_live` | 2 zones, 2 messages, 1 crash, 1 failing sweep | `EveryUnitSettles`, `EveryZoneCloses` |
| `correlator` | 2 neighbours, 2 messages of 4 kinds, 2 receives, 1 fault, tables cleared twice, Redis outage, sliding window | `AcknowledgedIsStored`, `DivergenceNeverDeadLetters`, `ZonesAreClusters`, `LastingClusterIsPublished` |
| `baseline` | 2 gauges, 1 channel change, fault, crash, garbled answer and expiry | `NoRiseIsFabricated`, `KeptDatumIsUsed`, `EveryGaugeIsPublished` |
| `console` | 2 browsers, a socket buffer of 1, a zone with its advisory, 1 fault | `GoesBackAtMostOnce`, `EveryBrowserCatchesUp` |
| `provisioning` | 3 provisions, any number of teardowns, 3 interruptions | `BillablesLeaveARecord`, `BillablesGoFirst`, `BillingEnds` |
| `system`, `WorkerLoop` | a batch of 2, 2 receives; with one message 2 cache reads, a death and an outage of Redis or a lost reply, with two a redelivery, a stop, a kill and a death | `GreenMeansLooping`, `IdleReportsAlive`, `StatsAddUp`, `CleanStopAbandonsNothing`, `TimeoutRepeatsNothing` |
| `system`, `AlertFeed` | 2 versions, the first without expiry, 2 messages, 2 errors or redeliveries | `RowFollowsFeed`, `ListedApplies`, `DelistedLapses` |
| `system`, `Pipeline` | 3 sensors in a row, floods of 1, 2 and 3 of them, of 0 and 20 cm, an alert, 2 messages; from either depth a change of extent, depth or alert and a failure or redelivery, or two of those under an alert | `LastingClusterIsActive`, `LastingClusterIsGraded`, `GoneClusterCloses` |
| `system`, `ConnectionPool` | 3 threads, 2 connections, 2 constructors that raise | `OnePool`, `EveryCallEnds` |
| `system`, `MockServer` | 5 sensors, every replay frame, storms of 5 depths | `ClusterWetIsDBSCAN`, `MockGradesLikeDispatcher` |

The type invariant of each module is checked in its first run; `AllTypesOK` is
that of the five in `system`. In `correlator` a behaviour is drawn from one of
two families: five pairs of messages with a sliding window, an outage and one
clearing of the tables, or two wet neighbours with two clearings. Together the
bounds would not fit, and the second clearing matters to the repair alone. The
families of `WorkerLoop` and `Pipeline` in `MCSystem` are there for the same
reason.

Runs that end in a violation, each of what a document or a comment says
(`PROJECT.json`, `findings`, quotes it):

| Run | The code |
|---|---|
| `dispatcher_owed` | a failure between `upsert_zone` and `publish` makes the retry compare the zone with the row its own first attempt wrote: at an unchanged level the advisory owed for a change of state or corroboration is never sent |
| `dispatcher_forming` | one detection delivered twice counts as two cycles and issues an advisory |
| `baseline_garbled` | a history answer that is not JSON ends the poll for the gauges after it |
| `provisioning_record` | a second run of `provision.py` starts its record from an empty dict while the first run's instances bill |
| `provisioning_password` | a second run writes a new password beside a database that keeps the old one |

Some behaviours are visible in the models and accepted there: after a publish
whose `record_advisory` failed the retry publishes again (an at-least-once
notification, which is why `EvidenceLedger` lets a notification stay without a
row); the sweeper updates from a list it read before, and may set back a zone
republished meanwhile, which the next message promotes again; `build_state()`
reads its tables in transactions of their own, so that a payload may hold an
advisory without its zone until the next tick; the datum in the collector's
memory outlives its TTL in Redis. `Shutdown` and the unit files speak of "the
message it is holding", but a stop waits for the rest of the batch
(`CleanStopAbandonsNothing` holds because of it: a loop that left at once would
abandon up to nine messages to their visibility timeout). A flush that fails
between two `INCRBY`s counts the first of them twice, and one whose `INCRBY` was
applied but not acknowledged counts that name twice; `StatsAddUp` allows an
excess in the names of such a flush and no loss. A message that SQS delivers
again after its delete is handled again; `TimeoutRepeatsNothing` says that a
visibility timeout which the batch outlasts is no such reason. A late alert
message revives a dropped alert without expiry for 30 minutes. A cluster that
gains or loses a sensor is another zone, as `stable_zone_id` documents, so the
old one lingers until it is swept. In a replay the mock never forgets a zone, so
one that returns is active at once. `build_source()` lowers `CURBLINE_SOURCE`
and `thresholds_for()` does not, so that `USGS` in capitals grades river stages
by FloodNet's thresholds.

### Bounds

Every bound is a constant named `MAX_*` (or `BATCH`, `BUFFER`, `HORIZONS`,
`FLOOD`) and is in the guard of the action it limits. They are large enough for
the case each property is about:

- *Two messages and two receives* give a detection, its redelivery, a second
  detection, a batch of two, and a message that uses up its receives. One zone
  suffices for safety, as `handle()` touches only the row of its message; the
  liveness run has two, because one consumer serves them in turn.
- *Body kinds* of the dispatcher differ in exactly one input of the ladder each:
  corroboration at an unchanged level, and the level.
- *Correlator*: the tables are cleared twice, as the repair of E-016 can only
  fail when they are cleared once more between the repair and the retry; one
  fault and one Redis outage give each order of losing a row, losing its copy
  and losing a receive.
- *Baseline*: one crash and one failing request are what makes a
  stored datum matter; one channel change is what puts a stage below its datum.
- *Console*: a zone and its advisory are two states of the tables, so that a
  read can be torn; a buffer of one makes a slow socket block the others.
- *WorkerLoop*: a batch of two whose visibility timeouts may pass at any moment
  is the smallest in which a message waits behind another; the TTL is longer
  than the long poll, as in the code, and a handler may outlast both. One lost
  reply (`MAX_LOST`) and one redelivery (`MAX_DUPLICATES`) each make a count and
  a message come twice.
- *AlertFeed*: two versions and two messages are what it takes for an old
  message to be handled after a newer one, or to come back after it was deleted.
- *Pipeline*: three sensors in a row give a cluster that grows, one that
  shrinks and one that ends; with two messages an older detection of a zone can
  be handled after a newer one, and two failures use up its receives. The depths
  are below the advisory threshold and at that of a warning, so that depth and
  alert each move the level.
- *ConnectionPool*: two threads that wait for the lock while a third holds it,
  and may both find that it built nothing.
- *MockServer*: five sensors give chains, triangles and two components.
- *Provisioning*: the third run and the third interruption follow a run that
  was itself a repetition after an interruption. The end of the billing is
  claimed for a single provision; `provisioning_record` shows why.

Deadlock is checked everywhere but in `provisioning*`, where a script that is
over may never be run again.

### Fairness

- `Dispatcher`, `Correlator`, `UsgsBaseline`: weak fairness of the worker (its
  next statement completes or raises, both are steps), of the sweeper's timer,
  of systemd's `Restart=always`, of visibility timeouts and redrive, and of the
  passing of time. No handler is assumed to succeed: `EveryUnitSettles` holds
  when every attempt raises. What is bounded is named: the history API fails
  `MAX_FAULTS` times in `baseline`.
- In `correlator` the collector keeps polling, so that readings and alerts
  keep coming; nothing else restarts a skipped clustering.
- `AlertFeed`: both processes run on, visibility timeouts and redrive happen,
  time passes. `Pipeline`: the same, and the sweeper's timer; a visible message
  is handled or fails in the end. `ConnectionPool`: every thread that can go on
  does; a connection is lent in the order of asking or the wait times out.
- `Console`: the event loop runs every task that can go on; a browser takes
  what has arrived and reconnects (`setTimeout(connect, 3000)`).
- `Provisioning`: a running script goes on, AWS ends what it began, and the
  operator repeats `teardown.py` until `stack.json` is gone, as its last message
  asks.

## 4. Abstractions

Coordinates, hulls, message texts, names and timestamps are left out. Time is
one bit where the code compares times (a row is stale, the interval has passed,
a key has expired). S3, SNS and `advisories` are sequences that only grow.
Redis is reachable or not; an error of it is swallowed where the code swallows
it. `checkpoint()` writes the record at once. Symmetry is used in safety runs
only, over messages, none of which a property or an action names.

## 5. What is proved

Theorems of eight modules, none about a bound of an instance.

### The dispatcher

`DispatcherProofs` holds for all sets of messages, zones and bodies and all
bounds, from `DispatcherAssumption`, `MaxReceiveAssumption` and the ladder's
assumption on its thresholds:

| Theorem | States |
|---|---|
| `TypeCorrect` | `Spec => [](TypeOK /\ Handling)` |
| `AuditFirst` | `Spec => []AuditedBeforeNotified` |
| `ImplementsLedger` | `Spec => KeepsLedger`: the refinement mapping to `EvidenceLedger` |
| `DelayHolds` | `Spec => FormingDelay` |
| `EscalationHolds` | `Spec => LatestAdvisoryIsGraded` |
| `RepeatHolds` | `Spec => NoRepeatedAdvisory` |

None of the properties is inductive. `Handling` adds to the types what the
locals of `handle()` mean while it runs: there is a message in hand, and level
and state are the ladder's answers for it. `Linked` says how the three logs
hang together while a decision is half written: between `WriteAudit` and
`Publish` the key in hand is the last audit record, uncited, of this message;
between `Publish` and `RecordAdvisory` the message id in hand is a notification
of it that no row names. From the two, each of `WriteAudit`, `Publish` and
`RecordAdvisory` is one step of the ledger, and every other action a stutter.
`Delayed` ties the upserts counted in `history` to the rows: a zone with a row, a
row in the sweeper's list and a zone about to be promoted were upserted before,
and one whose audit or notification is being written was upserted twice. `EscalationHolds` needs
that a delete follows either the insert of a row at the level in hand or a
suppression, which `should_notify` allows only when the last level is that
level already. That the greatest index of a non-empty set of rows exists
(`GreatestIndex`, for `last_level`) rests on the well-foundedness of `<`.
`RepeatHolds` is about the sweeper: it may move a zone between the moment
`handle()` reads it and the upsert. `Changed` says that what was read still
stands or the zone is marked as moved, and after the upsert that an advisory at
the level of the last one is owed to such a change.

### The worker loop

`WorkerLoopProofs` holds for every set of messages, batch size, TTL and number
of stops, deaths, outages, lost replies and redeliveries, from
`WorkerLoopAssumption` (the constants are
numbers, and no message is called "no message") and `MaxReceiveAssumption`:

| Theorem | States |
|---|---|
| `LoopInvariant` | `Spec => []IInv` |
| `GreenHolds` | `Spec => []GreenMeansLooping` |
| `CleanStopHolds` | `Spec => []CleanStopAbandonsNothing` |
| `TimeoutRepeatsNothingHolds` | `Spec => TimeoutRepeatsNothing` |
| `IdleHolds` | `Spec => []IdleReportsAlive` |
| `SumsHold` | `Spec => []StatsAddUp` |
| `LoopTypeCorrect` | `Spec => []TypeOK` |

`IInv` has the types and three parts. `Staged` says what the worker may hold at
each statement (nothing outside of the batch's loop). `Custody` says where
messages are: what waits in the batch is in flight or timed out, what was
handled, and not delivered again since, is deleted or in hand, and what is in
flight is held or was left by an attempt that failed. A redelivery takes the
message out of what was handled and makes it visible; the batch does not hold
it until a new receive. `Beaten` says that the heartbeat is no newer than the top of the loop.
A clean exit holds nothing, so `Custody` gives `CleanStopHolds`; a message of
the batch is neither deleted nor in hand, so it gives
`TimeoutRepeatsNothingHolds`; and a
live heartbeat bounds the age of the loop by `Beaten`. Two more invariants rest
on it: `Reported` is the converse of `Beaten` within an iteration whose beat was
taken, and `Summed` adds to `StatsAddUp` that only a flush has names it has sent
an `INCRBY` for, so that the deltas that die with a process or leave after a
flush are those that the counters do not have, but for the names that a lost
reply or a failing flush has marked as counted twice. `LoopTypeCorrect` is more than its
name: its type bounds the counters in Redis by `MAX_READS * (MAX_OUTAGES + MAX_LOST + 1)`.
`Bounded` accounts for it: a delta never exceeds the reads, a flush can only
count a name again if it met an outage or lost a reply, an outage cuts at most
one flush, and a lost reply counts one name once more (`Cuts`).

### The mock

`MockServerProofs` holds for any map of sensors and any frames, from
`MockServerAssumption` (the sensors are finitely many, the groups of the storm
are sensors, there is a storm frame, a replay has frames, depths are numbers):

| Theorem | States |
|---|---|
| `ClustersPartition` | for any points and `minpoints`, of every result DBSCAN may have: the clusters are disjoint, each has a core point, and together they hold the core and the border points and no other; of finitely many points with `minpoints` 2, there is one result, and each cluster has two members at least |
| `MockTypeCorrect` | `MockSpec => []MockTypeOK` |
| `ClusterWetHolds` | `MockSpec => []ClusterWetIsDBSCAN` |
| `MockGradesHold` | `MockSpec => []MockGradesLikeDispatcher`, with FloodNet's thresholds of 10 and 20 cm, which the mock has as literals |

`Clustering` defines what a point reaches as an intersection of closed sets, and
`_cluster_wet()` searches for it. `IsCluster` is what the two have in common: a
set which is what each of its points reaches, and in which some point has a
neighbour; with `minpoints` 2 no point is on a border (`NoBorder`), DBSCAN has
one result (`OneResult`), and `ReachedAreClusters` shows that it is of these sets.
For any `minpoints`, core points that reach each other reach the same
(`CoreReachesSame`), so a cluster is known by any core point in it, and a border
point is in one (`ResultPartitions`). That the
loops find them is their invariant: `Placed` says where each wet sensor with a
neighbour is (still to come, in the component under way, or seen), `Walked` that
the component leads nowhere but to what is on the stack, never into one found
before, and that all of it is reached from one sensor with a neighbour; `Found`
that what is in `out` is a cluster each, no two overlap, and together they are
what was seen. `Graded` is what
`build_state()` shows. That a non-empty set of depths has a greatest one
(`Deepest`) needs an induction over finite sets. The theorem of the library for
it takes an operator; the well-foundedness of the strict subsets does as well,
as there is a smallest counterexample.

### The connection pool and the composed run

`SystemProofs` extends `MCSystem` with `WorkerLoopProofs` and `MockServerProofs`.
It has the proofs of the parts that have no module of their own, and carries the
invariants that `system` checks over to `MCSpec`, the specification it checks
(`MockGradesHold` aside, which needs FloodNet's thresholds):

| Theorem | States |
|---|---|
| `PoolTypeCorrect`, `OnePoolBuilt` | `PoolSpec => []PoolTypeOK`, `PoolSpec => []OnePool` |
| `LockIsHeld` | `PoolSpec => []Held`: the lock is held only while a thread is inside, the safety half of `EveryCallEnds` |
| `StoredWasListed` | `A!Init /\ [][A!Next]_alertvars => [](row <= listed)` |
| `GradeHolds` | `PipelineSpec => []ActiveIsGraded` |
| `GradeIsRestored` | `PipelineSpec => [][...]_pipevars`: a zone that is `ZoneGraded` stays so unless a handler fails, and `Handle(u)` makes that of its message so |
| `SystemTypesHold` | `MCSpec => []AllTypesOK` |
| `SystemSafetyHolds` | `MCSpec => []` of the invariants of worker, pool and mock |

The pool needs no more than that its bound is a number (`PoolAssumption`):
`Exclusive` (who is between the lock and its release is alone there, and the
lock is held) and `Remembered` (the variable tells how many pools were built,
and who is about to build still finds none) are its invariant. `OnePartMoves`
says that a step of the composition is a step of each part or leaves it alone,
so each keeps the invariant of its own proof; the initial states are the
composition's own, in which the worker has used up some of its bounds already
(`WorkerStarts`). The types of `AlertFeed` hold with `FeedInv`: whoever is past
the receive holds a message. Of `Pipeline` they rest on `SomeCluster`: some
flood forms a cluster, without which no zone has a name. `SystemAssumption`
collects the assumptions of the parts, and that `MAX_FAILURES` is not 0, as one
of its families has used up all but one.

Three theorems are the safety under the liveness of these two modules, which TLC
checks. `Listed` follows a version from the feed over the poll and the queue to
the row: a message once sent is never unsent again, and one that is handled is in
flight, so no slot is reused under the correlator's hands. `ZoneGraded` of a zone
is that its advisory is at the level of its last detection, by its depth, its
members and its alert, if it is active;
`should_notify` suppresses only an advisory that says the same as the last one,
so `handle()` establishes it whatever was the case before (`HandledIsGraded`),
and only a handler that fails between `upsert_zone` and `record_advisory` can
break it (`GradedStaysGraded`). The proof of the types showed that
`AlertFeedAssumption` was too weak: without a version of the alert (`ISSUES` 0)
the messages had no content, and it asks for one now.

### The correlator

`CorrelatorProofs` holds for every graph of sensors, every finite set of
sensors, set of messages, bound on faults, outages and clearings, from
`CorrelatorAssumption` (no message is called "no message") and
`MaxReceiveAssumption`:

| Theorem | States |
|---|---|
| `TypeCorrect` | `Spec => []TypeOK` |
| `StoredHolds` | `Spec => []AcknowledgedIsStored` |
| `DivergenceHolds` | `Spec => []DivergenceNeverDeadLetters` |
| `ZonesHold` | `Spec => []ZonesAreClusters` |

`InHand` says what the message in hand means at each statement: it is in
flight, of the kind the statement is for, and stored once the claim is behind.
`DivergenceHolds` is an account: `Charged` has every receive that did not end in
a deletion paid for by a fault that message met or by a clearing of the tables.
The exception of the second foreign key violation leaves `handle_reading()` only
where the row which the repair wrote is gone again (`Excused`), and the clearing
that took it pays. `ZonesHold` needs that a cluster holds its core points and, if
two points are enough, the whole neighbourhood of one (`ClusterHoldsCore`,
`ClusterSize`), that a core point stays one while readings are added
(`NeighboursGrow`), and that a reading cleared between the query and the
send was stored.

### Provisioning

`ProvisioningProofs` shows `TypeCorrect` (`Spec => []TypeOK`) and `RecordHolds`
(`Spec => []BillablesLeaveARecord`) for any number of runs and interruptions.
The argument follows the order of the statements: `Recorded` says that the
record is there from the statement after the names are saved, and all through
`teardown.py`; `Verified` says that at its end what is not noted as a remainder
was seen to be gone. The two scripts share no statement and no statement occurs
twice in one (`ScriptsApart`, `ProvisionOnce`, `TeardownOnce`), so the running
statement tells where in which script it is. `FirstHolds`
(`Spec => BillablesGoFirst`) adds `Ordered`: past the statement that deletes an
instance its deletion was accepted, because a refusal ends the script.

### The console

`ConsoleProofs` shows `TypeCorrect` and `OnceHolds`
(`Spec => []GoesBackAtMostOnce`) for any number of browsers and size of the
buffer. What a browser shows and what its socket holds is taken as one sequence:
but for one spare position, its items go up (`Ordered`) and none is ahead of
what the broadcaster may still send to it (`Fits`). The spare position is where
the handler put the state that it read for itself, and the display goes back
there or right after it, not at both. The floor depends on the statement of the
broadcaster and on whether the browser is among its remaining targets, which is
why the theorem is not obvious from either task alone.

### The USGS baseline

`UsgsBaselineProofs` shows `TypeCorrect`, `RisesHold`
(`Spec => []NoRiseIsFabricated`) and `KeptHolds` (`Spec => KeptDatumIsUsed`) for
any number of gauges and all bounds. `Right` says that a copy, in memory or in
Redis, which the channel has not left behind is the datum; `Held` that a datum
which counts as kept is in Redis. The lookup that withholds a reading has missed
Redis, or Redis did not answer.

### Only model-checked

Liveness: `EveryUnitSettles`, `EveryZoneCloses`, `LastingClusterIsPublished`,
`EveryGaugeIsPublished`, `EveryBrowserCatchesUp`, `BillingEnds`, `EveryCallEnds`,
and the three properties each of `AlertFeed` and `Pipeline`. Fairness and
`ENABLED` are out of the prover's reach. Every invariant and every action
property that a passing run checks is a theorem; `AlertFeed` and `Pipeline`
have no invariant but their types among the properties of `system`.

## 6. Plan

Built, in this order: `Dispatcher` with its ledger and proofs, `Correlator`,
`Provisioning`, `UsgsBaseline`, `Console`; then `WorkerLoop` and
`ConnectionPool` with their proofs, `AlertFeed`, `Pipeline`, `MockServer`, and
the proofs about the four of the first group; then the proofs about
`_cluster_wet()`, and about the types and the composition of `MCSystem`, for
which `WorkerLoop`, `Pipeline`, `ConnectionPool` and `MockServer` became modules
that it extends. What is left to prove is more of the safety under the liveness:
which messages a settled feed or a settled flood still has in its queue, what a
browser shows when nothing is left in its socket, and that the worker of
`Dispatcher` is never without a next step.

## 7. Not modelled

- The replay and FloodNet sources: stateless reads of a file or an endpoint.
- The painting of the console, and which advisory cards it announces.
- The one-shot scripts under `scripts/`, `data/` and the shell parts of
  `infra/`: sequential, and what they leave is files.
- The parsing of the environment: read once, at import.
- In `Pipeline` every cluster reads the same depth, and a deleted message that
  comes back, there and in `AlertFeed`, counts among the failures of the run.
- Instances with `CLUSTER_MIN_SENSORS` above its default of 2: the definitions
  and theorems cover them, `SharedBorder` evaluates the case of a shared border
  point, and no run explores it.
- A sensor that moves (`handle_reading` writes no row for a cached sensor): the
  geometry is a fixed graph.
- `teardown.py` run against another region than the record's, and a record torn
  by a crash within `write_text()`: `Provisioning` has one region and an atomic
  checkpoint. Both are listed as hazards.
- The mock's list of past advisories and its fan-out, which has the shape of the
  one in `Console`.

## 8. Running

    tlc -config dispatcher_safety.cfg MCDispatcher.tla
    tlc -config system.cfg MCSystem.tla
    tlapm DispatcherProofs.tla

`PROJECT.json` names the module of each configuration; the longest takes about
three minutes with two workers.

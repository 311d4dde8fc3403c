------------------------------ MODULE Pipeline ------------------------------
(***************************************************************************)
(* From wet sensors to an advisory, across both workers: maybe_cluster()   *)
(* of workers/correlator.py names each cluster by its members and sends it *)
(* to the zones queue, and handle() and sweep_zones() of                   *)
(* workers/dispatcher.py keep a zone for each name.  A message is handled  *)
(* as if its cluster existed at that moment, however long it waited.       *)
(*                                                                         *)
(* Correlator and Dispatcher have the statements of the two; here a        *)
(* handler is one step, and its failures are steps that leave off after    *)
(* each of its parts.                                                      *)
(***************************************************************************)
EXTENDS AdvisoryLadder, SqsQueue, Clustering, FiniteSets

CONSTANTS
    Near,                   \* the pairs of sensors within CLUSTER_EPS_FT
    Floods,                 \* the sets of sensors that may be wet at once
    FloodDepths,            \* the depths, in cm, they may then report
    CLUSTER_MIN_SENSORS,
    MAX_CHANGES,            \* bound: changes of the flood, its depth and its alert
    MAX_FAILURES            \* bound: failing handlers, dying processes, redeliveries

ASSUME PipelineAssumption ==
    /\ CLUSTER_MIN_SENSORS \in Nat \ {0}
    /\ FloodDepths \subseteq Nat
    /\ MAX_CHANGES \in Nat /\ MAX_FAILURES \in Nat

VARIABLES
    flooded,    \* the sensors whose latest reading in the window is wet
    max_depth_cm,   \* ... and what they read, each cluster the same
    under_alert,\* does a flood alert apply there?
    rows,       \* the rows of current_clusters() not sent yet
    zonesqueue, \* the zones queue
    detection,  \* the zone message each unit carries
    zones,      \* the zones table
    level,      \* the level of each zone's latest advisory
    changes, failures

flood == <<flooded, max_depth_cm, under_alert, changes>>
pipevars == <<flooded, max_depth_cm, under_alert, rows, zonesqueue, detection, zones, level, changes, failures>>

-----------------------------------------------------------------------------
\* What current_clusters() may return, for each set of wet sensors.
current_clusters == [f \in Floods |-> Clusterings(f, Near, CLUSTER_MIN_SENSORS)]

\* Whatever the query returns now, z is among it; it may be.
Formed(z) == \A clusters \in current_clusters[flooded] : z \in clusters
MayForm(z) == \E clusters \in current_clusters[flooded] : z \in clusters

\* Everything that may ever be a zone.
Zones == UNION UNION {current_clusters[f] : f \in Floods}

\* Some flood forms a cluster: the others never reach the dispatcher.
ASSUME SomeCluster == Zones # {}

\* The same members, the same zone.
stable_zone_id(sensor_ids) == sensor_ids

Detection == [zone : Zones, depth : FloodDepths, alert : BOOLEAN]
Row == [state : OpenStates \cup {NoState, "closed"}, depth : FloodDepths \cup {0},
        alert : BOOLEAN, fresh : BOOLEAN]

PipelineTypeOK ==
    /\ flooded \in Floods
    /\ max_depth_cm \in FloodDepths
    /\ under_alert \in BOOLEAN
    /\ rows \subseteq Detection
    /\ zonesqueue \in [Units -> Message]
    /\ detection \in [Units -> Detection]
    /\ zones \in [Zones -> Row]
    /\ level \in [Zones -> Levels \cup {NoLevel}]
    /\ changes \in 0..MAX_CHANGES
    /\ failures \in 0..MAX_FAILURES

\* Before the first cluster.
Quiet ==
    /\ flooded \in Floods
    /\ max_depth_cm \in FloodDepths
    /\ under_alert \in BOOLEAN
    /\ rows = {}
    /\ zonesqueue = EmptyQueue
    /\ detection = [u \in Units |-> CHOOSE d \in Detection : TRUE]
    /\ zones = [z \in Zones |-> [state |-> NoState, depth |-> 0, alert |-> FALSE, fresh |-> FALSE]]
    /\ level = [z \in Zones |-> NoLevel]

PipelineInit ==
    /\ Quiet
    /\ changes = 0
    /\ failures = 0

-----------------------------------------------------------------------------
(* The weather and the clock *)

FloodChanges ==
    /\ changes < MAX_CHANGES
    /\ changes' = changes + 1
    /\ \/ flooded' \in Floods \ {flooded} /\ UNCHANGED <<max_depth_cm, under_alert>>
       \/ max_depth_cm' \in FloodDepths \ {max_depth_cm} /\ UNCHANGED <<flooded, under_alert>>
       \/ under_alert' = ~under_alert /\ UNCHANGED <<flooded, max_depth_cm>>
    /\ UNCHANGED <<rows, zonesqueue, detection, zones, level, failures>>

Fails == failures < MAX_FAILURES /\ failures' = failures + 1

\* ZONE_STALE_MINUTES pass without an upsert: 20 minutes, which is many cycles
\* of the correlator, so a zone that is still clustered goes stale only when
\* some outage keeps its messages back for that long.
Age(z) ==
    /\ zones[z].state \in OpenStates
    /\ zones[z].fresh
    /\ zones' = [zones EXCEPT ![z].fresh = FALSE]
    /\ IF Formed(z) THEN Fails ELSE UNCHANGED failures
    /\ UNCHANGED <<flood, rows, zonesqueue, detection, level>>

-----------------------------------------------------------------------------
(* The correlator: maybe_cluster(), on readings that keep arriving *)

QueryClusters ==
    /\ rows = {}
    /\ \E clusters \in current_clusters[flooded] :
          rows' = {[zone |-> stable_zone_id(z), depth |-> max_depth_cm, alert |-> under_alert] :
                      z \in clusters}
    /\ UNCHANGED <<flood, zonesqueue, detection, zones, level, failures>>

\* A message that is over makes room for a new one.
SendZone(u) ==
    /\ zonesqueue[u].at \in {"unsent", "deleted", "dead"}
    /\ \E d \in rows :
          /\ detection' = [detection EXCEPT ![u] = d]
          /\ rows' = rows \ {d}
    /\ zonesqueue' = [zonesqueue EXCEPT ![u] = [at |-> "visible", receives |-> 0]]
    /\ UNCHANGED <<flood, zones, level, failures>>

\* A send raises or the process dies: the rest of the rows is not sent.
CorrelatorFails ==
    /\ rows # {}
    /\ Fails
    /\ rows' = {}
    /\ UNCHANGED <<flood, zonesqueue, detection, zones, level>>

-----------------------------------------------------------------------------
(* The dispatcher: handle() and sweep_zones() *)

Level(d) == decide_level(d.depth, Cardinality(d.zone), d.alert)

\* open_zones(): a closed zone is not among them.
open_zones(z) ==
    IF zones[z].state \in OpenStates
    THEN [state |-> zones[z].state, last_level |-> level[z], under_alert |-> zones[z].alert]
    ELSE [state |-> NoState, last_level |-> NoLevel, under_alert |-> FALSE]

\* upsert_zone().  The mutant inserts a row and does not update its state.
upsert_zone_once(d, state) ==
    [zones EXCEPT ![d.zone] = [state |-> IF @.state = NoState THEN state ELSE @.state,
                               depth |-> d.depth, alert |-> d.alert, fresh |-> TRUE]]
upsert_zone(d, state) ==
    [zones EXCEPT ![d.zone] = [state |-> state, depth |-> d.depth, alert |-> d.alert,
                               fresh |-> TRUE]]

Notifies(d) ==
    LET previous == open_zones(d.zone)
    IN  should_notify(previous, next_state(previous.state), Level(d), d.alert)

Upserted(d) == upsert_zone(d, next_state(open_zones(d.zone).state))

Issued(d) == IF Notifies(d) THEN [level EXCEPT ![d.zone] = Level(d)] ELSE level

Handle(u) ==
    /\ u \in Receivable(zonesqueue)
    /\ zones' = Upserted(detection[u])
    /\ level' = Issued(detection[u])
    /\ zonesqueue' = Deleted(Received(zonesqueue, {u}), u)
    /\ UNCHANGED <<flood, rows, detection, failures>>

\* It leaves off before the upsert, after it, or before the delete.
HandlerFails(u) ==
    /\ u \in Receivable(zonesqueue)
    /\ Fails
    /\ \/ UNCHANGED <<zones, level>>
       \/ zones' = Upserted(detection[u]) /\ level' \in {level, Issued(detection[u])}
    /\ zonesqueue' = Received(zonesqueue, {u})
    /\ UNCHANGED <<flood, rows, detection>>

Sweep(z) ==
    /\ zones[z].state \in OpenStates
    /\ ~zones[z].fresh
    /\ sweep_state(zones[z].state) # NoState
    /\ zones' = [zones EXCEPT ![z].state = sweep_state(@)]
    /\ UNCHANGED <<flood, rows, zonesqueue, detection, level, failures>>

-----------------------------------------------------------------------------
ExpireZone(u) ==
    /\ zonesqueue[u].at = "inflight"
    /\ zonesqueue' = TimedOut(zonesqueue, u)
    /\ UNCHANGED <<flood, rows, detection, zones, level, failures>>

\* At least once: SQS delivers a message once more that was deleted.
DeliverZoneAgain(u) ==
    /\ zonesqueue[u].at = "deleted"
    /\ Fails
    /\ zonesqueue' = Resurfaced(zonesqueue, u)
    /\ UNCHANGED <<flood, rows, detection, zones, level>>

DeadLetter(u) ==
    /\ zonesqueue[u].at = "visible"
    /\ Exhausted(zonesqueue, u)
    /\ zonesqueue' = Redriven(zonesqueue, u)
    /\ UNCHANGED <<flood, rows, detection, zones, level, failures>>

Correlator == QueryClusters \/ CorrelatorFails \/ \E u \in Units : SendZone(u)

PipelineNext ==
    \/ FloodChanges \/ Correlator
    \/ \E u \in Units : \/ Handle(u) \/ HandlerFails(u)
                         \/ ExpireZone(u) \/ DeadLetter(u) \/ DeliverZoneAgain(u)
    \/ \E z \in Zones : Age(z) \/ Sweep(z)

PipelineSpec == PipelineInit /\ [][PipelineNext]_pipevars

(* Fairness.  Both workers run on, a message that is visible is received in *)
(* the end, visibility timeouts expire, and both the 20 minutes and the     *)
(* sweeper's timer pass.                                                    *)
Fairness ==
    /\ WF_pipevars(Correlator)
    /\ \A u \in Units : WF_pipevars(Handle(u) \/ HandlerFails(u) \/ ExpireZone(u) \/ DeadLetter(u))
    /\ \A z \in Zones : WF_pipevars(Age(z) \/ Sweep(z))

FairSpec == PipelineSpec /\ Fairness

-----------------------------------------------------------------------------
(* Properties *)

\* A cluster that lasts is an active zone again and again, whatever late
\* messages, failures and sweeps come in between.
LastingClusterIsActive ==
    \A z \in Zones : <>[]Formed(z) => []<>(zones[z].state = "active")

\* ... and its advisory ends up at the level of the cluster, whatever older
\* detection of it is handled late (E-021 across both workers).
LastingClusterIsGraded ==
    \A d \in Detection :
        <>[](Formed(d.zone) /\ max_depth_cm = d.depth /\ under_alert = d.alert)
            => <>[](level[d.zone] = Level(d))

\* A cluster that is gone, or whose members changed so that it bears another
\* name, closes for good, although a message that waited reopens its zone.
GoneClusterCloses ==
    \A z \in Zones :
        <>[](~MayForm(z)) => <>[](zones[z].state \in {NoState, "closed"})
=============================================================================

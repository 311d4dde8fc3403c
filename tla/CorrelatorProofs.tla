-------------------------- MODULE CorrelatorProofs --------------------------
(***************************************************************************)
(* Proofs about Correlator: nothing is acknowledged that is not stored,    *)
(* the divergence of Redis and Postgres alone dead-letters nothing         *)
(* (E-016), and what is sent is a cluster.                                 *)
(*                                                                         *)
(* The second rests on an account of receives (Charged): every receive of  *)
(* a message that did not end in its deletion is paid for by a fault it    *)
(* met or by a clearing of the tables, and one clearing pays for one.  The *)
(* exception leaves handle() only when the row that the repair wrote is    *)
(* gone again (Excused).                                                   *)
(***************************************************************************)
EXTENDS Correlator, FiniteSetTheorems, TLAPS

\* The readings that were stored, those cleared since included.
Kept == readings \cup history.cleared

\* The message in hand is in flight, of the kind the statement is for, and
\* stored once its claim is behind.
InHand ==
    /\ pc \notin {"down", "receive"} <=> unit # NoUnit
    /\ unit # NoUnit => queue[unit].at = "inflight"
    /\ pc \in {"lookup", "ensure", "warm", "claim"} => body[unit].kind = "reading"
    /\ pc = "lookup" => attempt = 1
    /\ pc \in {"cluster", "query", "send", "delete"} /\ body[unit].kind = "reading" => unit \in Kept
    /\ pc = "alert" => body[unit].kind = "alert"

\* The repair wrote the row and it is gone again: the exception leaves handle().
Excused == attempt = 2 /\ pc \in {"warm", "claim"} /\ sensor_id \notin sensors

\* The receives that faults and clearings account for, and the charge for each.
Paid(u) == history.met[u] + env.restores

Charged ==
    \A u \in Units :
        queue[u].at # "deleted" =>
            /\ queue[u].receives <= Paid(u) + 1
            /\ u # unit \/ Excused => queue[u].receives <= Paid(u)

Counted == \A u \in Units : history.met[u] <= env.faults

IInv ==
    /\ TypeOK /\ InHand /\ Charged /\ Counted
    /\ AcknowledgedIsStored /\ DivergenceNeverDeadLetters /\ ZonesAreClusters

-----------------------------------------------------------------------------
(* Clusters *)

\* A cluster is a set of points, one of them a core point.
LEMMA ClusterHoldsCore ==
    ASSUME NEW points, NEW near, NEW minpoints,
           NEW found \in Clusterings(points, near, minpoints), NEW zone \in found
    PROVE  zone \subseteq points /\ \E p \in zone : p \in CorePoints(points, near, minpoints)
<1>1. PICK home \in Homes(points, near, minpoints), p \in CorePoints(points, near, minpoints) :
          zone = Cluster(points, near, minpoints, home, p)
  BY DEF Clusterings
<1>2. p \in Reachable(points, near, minpoints, p)
  BY DEF Reachable, CorePoints
<1>3. zone \subseteq points
  BY <1>1 DEF Cluster, Reachable
<1> QED
  BY <1>1, <1>2, <1>3 DEF Cluster

\* With minpoints = 2 a neighbour of a core point is a core point too, so it
\* has no other home and the cluster has as many members as it is asked for.
LEMMA ClusterSize ==
    ASSUME NEW points, IsFiniteSet(points), NEW near, NEW minpoints \in Nat, minpoints <= 2,
           NEW found \in Clusterings(points, near, minpoints), NEW zone \in found
    PROVE  Cardinality(zone) >= minpoints
<1>1. PICK home \in Homes(points, near, minpoints), p \in CorePoints(points, near, minpoints) :
          zone = Cluster(points, near, minpoints, home, p)
  BY DEF Clusterings
<1> DEFINE around == Neighbourhood(points, near, p)
<1>2. around \subseteq points /\ Cardinality(around) >= minpoints /\ p \in around
  BY DEF Neighbourhood, CorePoints
<1>3. around \subseteq Reachable(points, near, minpoints, p)
  BY <1>2 DEF Reachable
<1>4. ASSUME NEW q \in around PROVE q \in CorePoints(points, near, minpoints)
  <2>1. CASE q = p
    BY <2>1
  <2>2. CASE q # p
    <3>1. {p, q} \subseteq Neighbourhood(points, near, q)
      BY <1>2, <2>2 DEF Neighbourhood
    <3>2. Neighbourhood(points, near, q) \subseteq points
      BY DEF Neighbourhood
    <3>3. IsFiniteSet(Neighbourhood(points, near, q))
      BY <3>2, FS_Subset
    <3>4. Cardinality({p, q}) <= Cardinality(Neighbourhood(points, near, q))
      BY <3>1, <3>3, FS_Subset
    <3>5. Cardinality({p, q}) = 2
      <4>1. IsFiniteSet({p}) /\ Cardinality({p}) = 1
        BY FS_Singleton
      <4>2. {p} \cup {q} = {p, q} /\ q \notin {p}
        BY <2>2
      <4>3. Cardinality({p} \cup {q}) = Cardinality({p}) + 1
        BY <4>1, <4>2, FS_AddElement
      <4> QED
        BY <4>1, <4>2, <4>3
    <3>6. Cardinality(Neighbourhood(points, near, q)) \in Nat
      BY <3>3, FS_CardinalityType
    <3> QED
      BY <1>2, <3>4, <3>5, <3>6 DEF CorePoints
  <2> QED
    BY <2>1, <2>2
<1>5. around \subseteq zone
  BY <1>1, <1>3, <1>4 DEF Cluster
<1>6. IsFiniteSet(zone)
  BY ClusterHoldsCore, FS_Subset
<1>7. Cardinality(around) <= Cardinality(zone)
  BY <1>5, <1>6, FS_Subset
<1>8. Cardinality(zone) \in Nat /\ Cardinality(around) \in Nat
  BY <1>5, <1>6, FS_Subset, FS_CardinalityType
<1> QED
  BY <1>2, <1>7, <1>8

\* More sensors, more neighbours.
LEMMA NeighboursGrow ==
    ASSUME NEW some, NEW more, some \subseteq more, IsFiniteSet(more), NEW near, NEW p
    PROVE  Cardinality(Neighbourhood(more, near, p)) >= Cardinality(Neighbourhood(some, near, p))
<1>1. /\ Neighbourhood(some, near, p) \subseteq Neighbourhood(more, near, p)
      /\ Neighbourhood(more, near, p) \subseteq more
  BY DEF Neighbourhood
<1>2. IsFiniteSet(Neighbourhood(more, near, p))
  BY <1>1, FS_Subset
<1>3. /\ Cardinality(Neighbourhood(some, near, p)) <= Cardinality(Neighbourhood(more, near, p))
      /\ Cardinality(Neighbourhood(some, near, p)) \in Nat
      /\ Cardinality(Neighbourhood(more, near, p)) \in Nat
  BY <1>1, <1>2, FS_Subset, FS_CardinalityType
<1> QED
  BY <1>3

-----------------------------------------------------------------------------
\* The invariant holds before the first message.
LEMMA InitIInv == Init => IInv
<1> SUFFICES ASSUME Init PROVE IInv
  OBVIOUS
<1>1. TypeOK
  <2>1. queue \in [Units -> Message] /\ body \in [Units -> Bodies]
    BY MaxReceiveAssumption DEF Init, Fresh, EmptyQueue, Message, Places
  <2>2. env \in [faults : 0..MAX_FAULTS, restores : 0..MAX_RESTORES, outages : 0..MAX_OUTAGES]
    BY CorrelatorAssumption DEF Init
  <2>3. history \in [met : [Units -> 0..MAX_FAULTS], cleared : SUBSET Units]
    BY CorrelatorAssumption DEF Init, Fresh
  <2>4. sensors = {} /\ readings = {} /\ cached = {} /\ pending = {} /\ sent = {}
    BY DEF Init, Fresh
  <2>5. /\ alerted \in BOOLEAN /\ redis \in {"up", "down"} /\ due \in BOOLEAN
        /\ horizon \in 0..HORIZONS /\ pc \in Steps /\ unit \in Units \cup {NoUnit}
        /\ attempt \in 1..2
    <3>1. /\ alerted = FALSE /\ redis = "up" /\ due = TRUE /\ horizon = 0 /\ pc = "receive"
          /\ unit = NoUnit /\ attempt = 1
      BY DEF Init, Fresh
    <3>2. HORIZONS \in Nat
      BY CorrelatorAssumption
    <3>3. horizon \in 0..HORIZONS /\ pc \in Steps /\ attempt \in 1..2
      BY <3>1, <3>2 DEF Steps
    <3>4. alerted \in BOOLEAN /\ due \in BOOLEAN
      BY <3>1
    <3> QED
      BY <3>1, <3>3, <3>4
  <2> QED
    BY <2>1, <2>2, <2>3, <2>4, <2>5 DEF TypeOK
<1>2. InHand
  BY DEF Init, Fresh, InHand
<1>3. Charged /\ Counted
  BY CorrelatorAssumption DEF Init, Fresh, EmptyQueue, Charged, Counted, Paid
<1> QED
  BY <1>1, <1>2, <1>3
     DEF IInv, Init, Fresh, EmptyQueue, AcknowledgedIsStored, DivergenceNeverDeadLetters,
         ZonesAreClusters

\* What stays while the queue does.
LEMMA QueueStays ==
    ASSUME IInv, TypeOK', InHand', UNCHANGED <<queue, body, unit>>,
           Kept \subseteq Kept', history'.met = history.met,
           env'.restores = env.restores, env'.faults = env.faults,
           Excused' => Excused, ZonesAreClusters'
    PROVE  IInv'
<1>1. Charged' /\ Counted'
  BY DEF IInv, Charged, Counted, Paid
<1>2. AcknowledgedIsStored'
  BY DEF IInv, AcknowledgedIsStored, Kept
<1>3. DivergenceNeverDeadLetters'
  BY DEF IInv, DivergenceNeverDeadLetters
<1> QED
  BY <1>1, <1>2, <1>3 DEF IInv

\* The zones stay clusters while no reading is lost and none is added.
LEMMA ZonesStay ==
    ASSUME IInv, TypeOK', body' = body, Kept \subseteq Kept',
           sent' \cup pending' \subseteq sent \cup pending
    PROVE  ZonesAreClusters'
<1>1. wet_once \subseteq wet_once'
  BY DEF wet_once, Kept
<1>2. IsFiniteSet(wet_once')
  <2>1. wet_once' \subseteq Sensors
    BY CorrelatorAssumption DEF TypeOK, wet_once
  <2> QED
    BY <2>1, CorrelatorAssumption, FS_Subset
<1>3. IsFiniteSet(wet_once)
  BY <1>1, <1>2, FS_Subset
<1> SUFFICES ASSUME NEW zone \in sent' \cup pending'
             PROVE  /\ zone \subseteq wet_once'
                    /\ \E p \in zone : Cardinality(Neighbourhood(wet_once', Near, p))
                                           >= CLUSTER_MIN_SENSORS
                    /\ CLUSTER_MIN_SENSORS <= 2 => Cardinality(zone) >= CLUSTER_MIN_SENSORS
  BY DEF ZonesAreClusters
<1>4. /\ zone \subseteq wet_once
      /\ CLUSTER_MIN_SENSORS <= 2 => Cardinality(zone) >= CLUSTER_MIN_SENSORS
  BY DEF IInv, ZonesAreClusters
<1>5. PICK p \in zone : Cardinality(Neighbourhood(wet_once, Near, p)) >= CLUSTER_MIN_SENSORS
  BY DEF IInv, ZonesAreClusters
<1>6. Cardinality(Neighbourhood(wet_once', Near, p)) >= CLUSTER_MIN_SENSORS
  <2>1. /\ Cardinality(Neighbourhood(wet_once', Near, p)) \in Nat
        /\ Cardinality(Neighbourhood(wet_once, Near, p)) \in Nat
        /\ CLUSTER_MIN_SENSORS \in Nat
    <3>1. /\ Neighbourhood(wet_once', Near, p) \subseteq wet_once'
          /\ Neighbourhood(wet_once, Near, p) \subseteq wet_once
      BY DEF Neighbourhood
    <3> QED
      BY <1>2, <1>3, <3>1, CorrelatorAssumption, FS_Subset, FS_CardinalityType
  <2> QED
    BY <1>1, <1>2, <1>5, <2>1, NeighboursGrow
<1> QED
  BY <1>1, <1>4, <1>6

-----------------------------------------------------------------------------
(* The surroundings *)

\* A unit of the queue that is not in hand moves.
LEMMA QueueStep ==
    ASSUME IInv, NEW u \in Units, Collect(u) \/ Expire(u) \/ DeadLetter(u) \/ ComesAgain(u)
    PROVE  IInv'
<1>1. UNCHANGED <<body, store, cached, redis, window, pc, locals, sent, env, history>>
  BY DEF Collect, Expire, DeadLetter, ComesAgain
<1>2. /\ u # unit
      /\ \A v \in Units \ {u} : queue'[v] = queue[v]
      /\ queue' \in [Units -> Message]
      /\ queue'[u].at \in {"visible", "dead"}
      /\ queue'[u].receives = queue[u].receives \/ queue'[u].receives = 0
      /\ queue[u].at = "deleted" => queue'[u].receives = 0
      /\ queue'[u].at = "dead" => queue[u].at = "visible" /\ queue[u].receives >= MAX_RECEIVE
  <2>1. u # unit
    BY CorrelatorAssumption DEF IInv, InHand, Collect, Expire, DeadLetter, ComesAgain
  <2>2. queue[u] \in Message /\ queue \in [Units -> Message] /\ MAX_RECEIVE \in Nat \ {0}
    BY MaxReceiveAssumption DEF IInv, TypeOK
  <2>3. CASE Collect(u) \/ Expire(u) \/ DeadLetter(u)
    <3>1. PICK place \in {"visible", "dead"} :
              /\ queue' = [queue EXCEPT ![u] = [queue[u] EXCEPT !.at = place]]
              /\ queue[u].at # "deleted"
              /\ place = "dead" => queue[u].at = "visible" /\ queue[u].receives >= MAX_RECEIVE
      BY <2>2, <2>3 DEF Collect, Expire, DeadLetter, Sent, TimedOut, Redriven, Exhausted
    <3>2. [queue[u] EXCEPT !.at = place] \in Message
      BY <2>2 DEF Message, Places
    <3> QED
      BY <2>1, <2>2, <3>1, <3>2 DEF Message
  <2>4. CASE ComesAgain(u)
    <3>1. queue' = [queue EXCEPT ![u] = [at |-> "visible", receives |-> 0]]
      BY <2>4 DEF ComesAgain
    <3>2. [at |-> "visible", receives |-> 0] \in Message
      BY <2>2 DEF Message, Places
    <3> QED
      BY <2>1, <2>2, <3>1, <3>2
  <2> QED
    BY <2>3, <2>4
<1>3. TypeOK'
  BY <1>1, <1>2 DEF IInv, TypeOK, store, window, locals
<1>4. InHand'
  BY <1>1, <1>2 DEF IInv, TypeOK, InHand, Kept, store, window, locals
<1>5. Charged' /\ Counted'
  BY <1>1, <1>2 DEF IInv, TypeOK, Message, Charged, Counted, Paid, Excused, sensor_id, store, window, locals
<1>6. AcknowledgedIsStored'
  BY <1>1, <1>2 DEF IInv, AcknowledgedIsStored, store
<1>7. DivergenceNeverDeadLetters'
  <2>1. ASSUME queue'[u].at = "dead" PROVE Paid(u) >= MAX_RECEIVE
    <3>1. queue[u].receives <= Paid(u) /\ queue[u].receives >= MAX_RECEIVE
      BY <1>2, <2>1 DEF IInv, Charged
    <3>2. queue[u].receives \in Nat /\ Paid(u) \in Nat
      BY CorrelatorAssumption, MaxReceiveAssumption DEF IInv, TypeOK, Message, Paid
    <3> QED
      BY <3>1, <3>2, MaxReceiveAssumption
  <2> QED
    BY <1>1, <1>2, <2>1 DEF IInv, DivergenceNeverDeadLetters, Paid
<1>8. ZonesAreClusters'
  BY <1>1, <1>3, ZonesStay DEF Kept, store, locals
<1> QED
  BY <1>3, <1>4, <1>5, <1>6, <1>7, <1>8 DEF IInv

\* Expiry, Redis, the clocks and a restart leave messages and tables alone.
LEMMA SurroundingsStep ==
    ASSUME IInv,
           \/ \E s \in Sensors : CacheExpires(s)
           \/ RedisFails \/ RedisReturns \/ IntervalPasses \/ WindowSlides \/ Restart
    PROVE  IInv'
<1>1. /\ UNCHANGED <<queue, body, store, unit, attempt, pending, sent, history>>
      /\ env'.restores = env.restores /\ env'.faults = env.faults
      /\ pc' = pc \/ (pc = "down" /\ pc' = "receive")
  BY DEF IInv, TypeOK, CacheExpires, RedisFails, RedisReturns, IntervalPasses, WindowSlides, Restart,
         store, window, locals
<1>2. /\ cached' \subseteq Sensors /\ redis' \in {"up", "down"} /\ due' \in BOOLEAN
      /\ horizon' \in 0..HORIZONS
      /\ env' \in [faults : 0..MAX_FAULTS, restores : 0..MAX_RESTORES, outages : 0..MAX_OUTAGES]
  <2>1. /\ cached' \subseteq cached /\ redis' \in {redis, "up", "down"} /\ due' \in {due, TRUE}
        /\ horizon' = horizon \/ (horizon < HORIZONS /\ horizon' = horizon + 1)
    BY DEF CacheExpires, RedisFails, RedisReturns, IntervalPasses, WindowSlides, Restart, window
  <2>2. env' = env \/ (env.outages < MAX_OUTAGES /\ env' = [env EXCEPT !.outages = @ + 1])
    BY DEF CacheExpires, RedisFails, RedisReturns, IntervalPasses, WindowSlides, Restart
  <2>3. HORIZONS \in Nat /\ MAX_OUTAGES \in Nat
    BY CorrelatorAssumption
  <2>4. horizon' \in 0..HORIZONS /\ cached' \subseteq Sensors /\ redis' \in {"up", "down"}
    BY <2>1, <2>3 DEF IInv, TypeOK
  <2>5. env' \in [faults : 0..MAX_FAULTS, restores : 0..MAX_RESTORES, outages : 0..MAX_OUTAGES]
    BY <2>2, <2>3 DEF IInv, TypeOK
  <2>6. due' \in BOOLEAN
    BY <2>1 DEF IInv, TypeOK
  <2> QED
    BY <2>4, <2>5, <2>6
<1>3. TypeOK'
  BY <1>1, <1>2 DEF IInv, TypeOK, store, Steps
<1>4. InHand'
  BY <1>1 DEF IInv, InHand, Kept, store
<1>5. Excused' => Excused
  BY <1>1 DEF Excused, sensor_id, store
<1>6. ZonesAreClusters'
  BY <1>1, <1>3, ZonesStay DEF Kept, store
<1> QED
  BY <1>1, <1>3, <1>4, <1>5, <1>6, QueueStays DEF Kept, store

\* The clearing pays for the receive of the message in hand.
LEMMA TablesClearedStep == ASSUME IInv, TablesCleared PROVE IInv'
<1>1. /\ UNCHANGED <<queue, body, cached, redis, window, pc, locals, sent>>
      /\ env'.restores = env.restores + 1 /\ env'.faults = env.faults
      /\ history'.met = history.met /\ history'.cleared = history.cleared \cup readings
  BY DEF IInv, TypeOK, TablesCleared
<1>2. TypeOK'
  <2>1. env' \in [faults : 0..MAX_FAULTS, restores : 0..MAX_RESTORES, outages : 0..MAX_OUTAGES]
    BY CorrelatorAssumption DEF IInv, TypeOK, TablesCleared
  <2>2. history' \in [met : [Units -> 0..MAX_FAULTS], cleared : SUBSET Units]
    BY DEF IInv, TypeOK, TablesCleared
  <2>3. sensors' = {} /\ readings' = {} /\ alerted' = FALSE
    BY DEF TablesCleared
  <2> QED
    BY <1>1, <2>1, <2>2, <2>3 DEF IInv, TypeOK, window, locals
<1>3. Kept \subseteq Kept'
  BY <1>1 DEF Kept
<1>4. InHand'
  BY <1>1, <1>3 DEF IInv, InHand, locals
<1>5. Charged'
  BY <1>1 DEF IInv, TypeOK, Message, Charged, Paid, locals
<1>6. Counted'
  BY <1>1 DEF IInv, Counted
<1>7. AcknowledgedIsStored'
  BY <1>1, <1>3 DEF IInv, AcknowledgedIsStored, Kept
<1>8. DivergenceNeverDeadLetters'
  BY <1>1, MaxReceiveAssumption DEF IInv, TypeOK, DivergenceNeverDeadLetters
<1>9. ZonesAreClusters'
  BY <1>1, <1>3, <1>2, ZonesStay DEF locals
<1> QED
  BY <1>2, <1>4, <1>5, <1>6, <1>7, <1>8, <1>9 DEF IInv

-----------------------------------------------------------------------------
(* consume() and handle() *)

\* The message received is in flight, and of the kind of the next statement.
LEMMA ReceiveStep == ASSUME IInv, Receive PROVE IInv'
<1>1. PICK u \in Receivable(queue) :
          /\ queue' = Received(queue, {u})
          /\ unit' = u
          /\ pc' = CASE body[u].kind = "reading" -> "lookup"
                     [] body[u].kind = "alert"   -> "alert"
                     [] OTHER                    -> "delete"
  BY DEF Receive
<1>2. UNCHANGED <<body, store, cached, redis, window, sent, env, history>> /\ attempt' = 1
      /\ pending' = {} /\ unit = NoUnit
  BY DEF Receive, IInv, InHand
<1>3. /\ u \in Units /\ u # NoUnit /\ queue[u].at = "visible" /\ queue[u].receives < MAX_RECEIVE
  BY CorrelatorAssumption, MaxReceiveAssumption
     DEF IInv, TypeOK, Message, Receivable, In, Exhausted
<1>4. /\ queue'[u] = [at |-> "inflight", receives |-> queue[u].receives + 1]
      /\ \A v \in Units \ {u} : queue'[v] = queue[v]
      /\ queue' \in [Units -> Message]
  BY <1>1, <1>3, MaxReceiveAssumption DEF IInv, TypeOK, Message, Places, Received
<1>5. pc' \in {"lookup", "alert", "delete"}
      /\ (pc' = "lookup" => body[u].kind = "reading")
      /\ (pc' = "alert" => body[u].kind = "alert")
      /\ (pc' = "delete" => body[u].kind # "reading")
  BY <1>1
<1>6. TypeOK'
  <2>1. pc' \in Steps /\ unit' \in Units /\ pending' \subseteq Zone /\ attempt' \in 1..2
    BY <1>1, <1>2, <1>3, <1>5 DEF Steps
  <2> QED
    BY <1>2, <1>4, <2>1 DEF IInv, TypeOK, store, window
<1>7. InHand'
  BY <1>1, <1>2, <1>3, <1>4, <1>5 DEF InHand
<1>8. Charged' /\ Counted'
  <2>1. ~Excused' /\ env' = env /\ history' = history
    BY <1>2 DEF Excused
  <2>2. queue[u].receives <= Paid(u) /\ queue[u].receives \in Nat /\ Paid(u) \in Nat
    BY <1>2, <1>3, CorrelatorAssumption, MaxReceiveAssumption
       DEF IInv, TypeOK, Message, Charged, Paid
  <2>3. queue'[u].receives <= Paid(u) + 1
    BY <1>4, <2>2
  <2> QED
    BY <1>1, <1>2, <1>3, <1>4, <2>1, <2>3, CorrelatorAssumption
       DEF IInv, Charged, Counted, Paid
<1>9. AcknowledgedIsStored'
  BY <1>2, <1>4 DEF IInv, AcknowledgedIsStored, store
<1>10. DivergenceNeverDeadLetters'
  BY <1>2, <1>4 DEF IInv, DivergenceNeverDeadLetters
<1>11. ZonesAreClusters'
  BY <1>2, <1>6, ZonesStay DEF Kept, store
<1> QED
  BY <1>6, <1>7, <1>8, <1>9, <1>10, <1>11 DEF IInv

\* The sensor of a reading in hand.
LEMMA SensorType ==
    ASSUME IInv, pc \in {"lookup", "ensure", "warm", "claim"} PROVE sensor_id \in Sensors
<1>1. unit \in Units /\ body[unit] \in Bodies /\ body[unit].kind = "reading"
  BY DEF IInv, TypeOK, InHand
<1> QED
  BY <1>1, CorrelatorAssumption DEF sensor_id

\* The statements that leave the readings alone.
LEMMA QuietStep ==
    ASSUME IInv,
           \/ Lookup \/ EnsureRow \/ WarmEntry \/ UpsertAlert \/ RepairSensor
           \/ SkipClustering \/ StartClustering
    PROVE  IInv'
<1>1. /\ UNCHANGED <<queue, body, env, history, redis, horizon, readings, sent, pending, unit>>
  BY DEF Lookup, EnsureRow, WarmEntry, UpsertAlert, RepairSensor, SkipClustering, StartClustering,
         env_unchanged, store, locals
<1>2. /\ cached' \subseteq Sensors /\ sensors \subseteq sensors' /\ sensors' \subseteq Sensors
      /\ alerted' \in BOOLEAN /\ due' \in BOOLEAN /\ attempt' \in 1..2
      /\ pc' \in Steps
  <2>1. /\ sensors \subseteq sensors' /\ sensors' \subseteq Sensors
        /\ alerted' \in BOOLEAN /\ due' \in BOOLEAN
    BY SensorType
       DEF IInv, TypeOK, Lookup, EnsureRow, WarmEntry, UpsertAlert, RepairSensor, SkipClustering,
           StartClustering, store, locals
  <2>2. attempt' \in 1..2 /\ pc' \in Steps
    BY DEF IInv, TypeOK, Lookup, EnsureRow, WarmEntry, UpsertAlert, RepairSensor, SkipClustering,
           StartClustering, locals, AfterViolation, Steps
  <2>3. cached' \subseteq Sensors
    BY SensorType
       DEF IInv, TypeOK, Lookup, EnsureRow, WarmEntry, UpsertAlert, RepairSensor, SkipClustering,
           StartClustering, Warmed, Invalidated
  <2> QED
    BY <2>1, <2>2, <2>3
<1>3. TypeOK'
  BY <1>1, <1>2 DEF IInv, TypeOK
<1>4. /\ pc \notin {"down", "receive"} /\ pc' \notin {"down", "receive"}
      /\ pc' \in {"lookup", "ensure", "warm", "claim"} => pc \in {"lookup", "ensure", "warm", "claim"}
      /\ pc' \in {"cluster", "query", "send", "delete"} => pc \in {"cluster", "alert"}
      /\ pc' \notin {"alert", "lookup"}
  BY DEF Lookup, EnsureRow, WarmEntry, UpsertAlert, RepairSensor, SkipClustering, StartClustering,
         AfterViolation
<1>5. InHand'
  BY <1>1, <1>4 DEF IInv, InHand, Kept
<1>6. Excused' => Excused
  <2>1. /\ pc' = "warm" => sensor_id \in sensors'
        /\ pc' = "claim" => /\ pc = "lookup" \/ pc = "warm"
                            /\ attempt' = attempt /\ sensors' = sensors
    BY DEF Lookup, EnsureRow, WarmEntry, UpsertAlert, RepairSensor, SkipClustering,
           StartClustering, AfterViolation, locals, store
  <2>2. sensor_id' = sensor_id
    BY <1>1 DEF sensor_id
  <2>3. pc = "lookup" => attempt = 1
    BY DEF IInv, InHand
  <2> QED
    BY <2>1, <2>2, <2>3 DEF Excused
<1>7. ZonesAreClusters'
  BY <1>1, <1>3, ZonesStay DEF Kept
<1> QED
  BY <1>1, <1>3, <1>5, <1>6, <1>7, QueueStays DEF Kept

\* The claim stores the message in hand.
LEMMA ClaimStep == ASSUME IInv, ClaimReading PROVE IInv'
<1>1. /\ UNCHANGED <<queue, body, env, history, redis, horizon, sensors, alerted, cached, due,
                     unit, attempt, pending, sent>>
      /\ pc = "claim" /\ pc' = "cluster" /\ readings' = readings \cup {unit}
  BY DEF ClaimReading, env_unchanged, locals, AfterClaim
<1>2. unit \in Units /\ body[unit].kind = "reading"
  BY <1>1 DEF IInv, InHand, TypeOK
<1>3. TypeOK'
  BY <1>1, <1>2 DEF IInv, TypeOK, Steps, ClaimReading, sensor_id
<1>4. InHand'
  BY <1>1 DEF IInv, InHand, Kept
<1>5. ZonesAreClusters'
  BY <1>1, <1>3, ZonesStay DEF Kept
<1> QED
  BY <1>1, <1>3, <1>4, <1>5, QueueStays DEF Kept, Excused

\* The query returns clusters of sensors with a wet stored reading.
LEMMA QueryStep == ASSUME IInv, QueryClusters PROVE IInv'
<1>1. /\ UNCHANGED <<queue, body, env, history, redis, horizon, store, cached, due, unit, attempt, sent>>
      /\ pc = "query" /\ pc' \in {"delete", "send"} /\ pending' \in current_clusters
  BY DEF QueryClusters, env_unchanged
<1>2. breaching \subseteq wet_once /\ wet_once \subseteq Sensors
  BY CorrelatorAssumption DEF IInv, TypeOK, breaching, latest_readings, wet_once
<1>3. /\ IsFiniteSet(breaching) /\ IsFiniteSet(wet_once)
      /\ CLUSTER_MIN_SENSORS \in Nat
  BY <1>2, CorrelatorAssumption, FS_Subset
<1>4. ASSUME NEW zone \in pending'
      PROVE  /\ zone \subseteq breaching
             /\ \E p \in zone : Cardinality(Neighbourhood(wet_once, Near, p)) >= CLUSTER_MIN_SENSORS
             /\ CLUSTER_MIN_SENSORS <= 2 => Cardinality(zone) >= CLUSTER_MIN_SENSORS
  <2>1. PICK p \in zone : p \in CorePoints(breaching, Near, CLUSTER_MIN_SENSORS)
    BY <1>1, ClusterHoldsCore DEF current_clusters
  <2>2. Cardinality(Neighbourhood(wet_once, Near, p)) >= CLUSTER_MIN_SENSORS
    <3>1. /\ Neighbourhood(breaching, Near, p) \subseteq breaching
          /\ Neighbourhood(wet_once, Near, p) \subseteq wet_once
      BY DEF Neighbourhood
    <3>2. /\ Cardinality(Neighbourhood(breaching, Near, p)) \in Nat
          /\ Cardinality(Neighbourhood(wet_once, Near, p)) \in Nat
      BY <1>3, <3>1, FS_Subset, FS_CardinalityType
    <3>3. Cardinality(Neighbourhood(breaching, Near, p)) >= CLUSTER_MIN_SENSORS
      BY <2>1 DEF CorePoints
    <3>4. Cardinality(Neighbourhood(wet_once, Near, p)) >= Cardinality(Neighbourhood(breaching, Near, p))
      BY <1>2, <1>3, NeighboursGrow
    <3> QED
      BY <1>3, <3>2, <3>3, <3>4
  <2>3. zone \subseteq breaching
    BY <1>1, ClusterHoldsCore DEF current_clusters
  <2>4. CLUSTER_MIN_SENSORS <= 2 => Cardinality(zone) >= CLUSTER_MIN_SENSORS
    BY <1>1, <1>3, ClusterSize DEF current_clusters
  <2> QED
    BY <2>2, <2>3, <2>4
<1>5. TypeOK'
  BY <1>1, <1>2, <1>4 DEF IInv, TypeOK, Steps, Zone, store
<1>6. InHand'
  BY <1>1 DEF IInv, InHand, Kept, store
<1>7. ZonesAreClusters'
  <2>1. wet_once' = wet_once
    BY <1>1 DEF wet_once, store
  <2>2. \A zone \in sent' : zone \in sent
    BY <1>1
  <2> QED
    BY <1>2, <1>4, <2>1, <2>2 DEF IInv, ZonesAreClusters
<1> QED
  BY <1>1, <1>5, <1>6, <1>7, QueueStays DEF Kept, Excused, store

\* A zone that was pending is sent.
LEMMA SendZoneStep == ASSUME IInv, SendZone PROVE IInv'
<1>1. /\ UNCHANGED <<queue, body, env, history, redis, horizon, store, cached, due, unit, attempt>>
      /\ pc = "send" /\ pc' \in {"delete", "send"}
      /\ pending' \subseteq pending /\ sent \subseteq sent' /\ sent' \subseteq sent \cup pending
  BY DEF SendZone, env_unchanged
<1>2. TypeOK'
  BY <1>1 DEF IInv, TypeOK, Steps, store
<1>3. InHand'
  BY <1>1 DEF IInv, InHand, Kept, store
<1>4. ZonesAreClusters'
  BY <1>1, <1>2, ZonesStay DEF Kept, store
<1> QED
  BY <1>1, <1>2, <1>3, <1>4, QueueStays DEF Kept, Excused, store

\* What is deleted was stored, as every statement before was passed.
LEMMA DeleteStep == ASSUME IInv, DeleteMessage PROVE IInv'
<1>1. /\ UNCHANGED <<body, store, cached, redis, window, sent, env, history>>
      /\ pc = "delete" /\ pc' = "receive" /\ unit' = NoUnit /\ attempt' = 1 /\ pending' = {}
  BY DEF DeleteMessage, Idle
<1>2. /\ unit \in Units
      /\ body[unit].kind = "reading" => unit \in Kept
  BY <1>1 DEF IInv, TypeOK, InHand
<1>3. /\ queue' \in [Units -> Message] /\ queue'[unit].at = "deleted"
      /\ \A v \in Units \ {unit} : queue'[v] = queue[v]
  BY <1>2 DEF IInv, TypeOK, Message, Places, DeleteMessage, Deleted
<1>4. TypeOK'
  BY <1>1, <1>3 DEF IInv, TypeOK, store, window, Steps
<1>5. InHand'
  BY <1>1 DEF InHand
<1>6. Charged' /\ Counted'
  BY <1>1, <1>2, <1>3 DEF IInv, Charged, Counted, Paid, Excused
<1>7. AcknowledgedIsStored'
  BY <1>1, <1>2, <1>3 DEF IInv, AcknowledgedIsStored, Kept, store
<1>8. DivergenceNeverDeadLetters'
  BY <1>1, <1>3 DEF IInv, DivergenceNeverDeadLetters
<1>9. ZonesAreClusters'
  BY <1>1, <1>4, ZonesStay DEF Kept, store
<1> QED
  BY <1>4, <1>5, <1>6, <1>7, <1>8, <1>9 DEF IInv

\* The exception is paid for by the clearing that undid the repair.
LEMMA ViolationStep == ASSUME IInv, ViolationEscapes PROVE IInv'
<1>1. /\ UNCHANGED <<queue, body, store, cached, redis, window, sent, env, history>>
      /\ pc' = "receive" /\ unit' = NoUnit /\ attempt' = 1 /\ pending' = {}
  BY DEF ViolationEscapes, Idle
<1>2. Excused
  BY DEF ViolationEscapes, AfterViolation, Excused
<1>3. TypeOK'
  BY <1>1 DEF IInv, TypeOK, store, window, Steps
<1>4. InHand'
  BY <1>1 DEF InHand
<1>5. Charged' /\ Counted'
  BY <1>1, <1>2 DEF IInv, Charged, Counted, Paid
<1>6. AcknowledgedIsStored' /\ DivergenceNeverDeadLetters'
  BY <1>1 DEF IInv, AcknowledgedIsStored, DivergenceNeverDeadLetters, store
<1>7. ZonesAreClusters'
  BY <1>1, <1>3, ZonesStay DEF Kept, store
<1> QED
  BY <1>3, <1>4, <1>5, <1>6, <1>7 DEF IInv

\* A fault pays for the receive it ends.
LEMMA FaultStep == ASSUME IInv, HandlerFails \/ Crash PROVE IInv'
<1>1. /\ UNCHANGED <<queue, body, store, cached, redis, horizon, sent>>
      /\ pc' \in {"receive", "down"} /\ unit' = NoUnit /\ attempt' = 1 /\ pending' = {}
      /\ due' \in BOOLEAN
  BY DEF IInv, TypeOK, HandlerFails, Crash, Idle, window
<1>2. /\ env' = [env EXCEPT !.faults = @ + 1] /\ env.faults < MAX_FAULTS
      /\ history' = IF unit = NoUnit THEN history ELSE [history EXCEPT !.met[unit] = @ + 1]
  BY DEF HandlerFails, Crash, Fault
<1>3. /\ env' \in [faults : 0..MAX_FAULTS, restores : 0..MAX_RESTORES, outages : 0..MAX_OUTAGES]
      /\ env'.faults = env.faults + 1 /\ env'.restores = env.restores
  BY <1>2, CorrelatorAssumption DEF IInv, TypeOK
<1>4. /\ history'.cleared = history.cleared
      /\ \A u \in Units : history'.met[u] = IF u = unit THEN history.met[u] + 1 ELSE history.met[u]
      /\ history' \in [met : [Units -> 0..MAX_FAULTS], cleared : SUBSET Units]
  <2>1. CASE unit = NoUnit
    BY <1>2, <2>1, CorrelatorAssumption DEF IInv, TypeOK
  <2>2. CASE unit # NoUnit
    <3>1. unit \in Units /\ history.met[unit] + 1 \in 0..MAX_FAULTS
      BY <1>2, <2>2, CorrelatorAssumption DEF IInv, TypeOK, Counted
    <3>2. history' = [history EXCEPT !.met = [history.met EXCEPT ![unit] = @ + 1]]
      BY <1>2, <2>2 DEF IInv, TypeOK
    <3> QED
      BY <3>1, <3>2 DEF IInv, TypeOK
  <2> QED
    BY <2>1, <2>2
<1>5. TypeOK'
  BY <1>1, <1>3, <1>4 DEF IInv, TypeOK, store, Steps
<1>6. InHand'
  BY <1>1 DEF InHand
<1>7. Charged' /\ Counted'
  <2>1. ASSUME NEW u \in Units
        PROVE  /\ Paid(u) \in Nat /\ queue[u].receives \in Nat
               /\ Paid(u)' = IF u = unit THEN Paid(u) + 1 ELSE Paid(u)
    <3>1. history.met[u] \in Nat /\ env.restores \in Nat /\ queue[u].receives \in Nat
      BY CorrelatorAssumption, MaxReceiveAssumption DEF IInv, TypeOK, Message
    <3> QED
      BY <1>3, <1>4, <3>1 DEF Paid
  <2>2. ASSUME NEW u \in Units, queue[u].at # "deleted" PROVE queue[u].receives <= Paid(u)'
    BY <2>1, <2>2 DEF IInv, Charged
  <2>4. Charged'
    <3>1. ASSUME NEW u \in Units PROVE Paid(u)' \in Nat /\ queue[u].receives \in Nat
      BY <2>1
    <3> QED
      BY <1>1, <2>2, <3>1 DEF Charged
  <2>3. Counted'
    BY <1>3, <1>4, CorrelatorAssumption DEF IInv, TypeOK, Counted
  <2> QED
    BY <2>3, <2>4
<1>8. AcknowledgedIsStored'
  BY <1>1, <1>4 DEF IInv, AcknowledgedIsStored, store
<1>9. DivergenceNeverDeadLetters'
  BY <1>1, <1>3, <1>4, MaxReceiveAssumption DEF IInv, TypeOK, DivergenceNeverDeadLetters
<1>10. ZonesAreClusters'
  BY <1>1, <1>4, <1>5, ZonesStay DEF Kept, store
<1> QED
  BY <1>5, <1>6, <1>7, <1>8, <1>9, <1>10 DEF IInv

\* Every step keeps the invariant.
LEMMA NextIInv == IInv /\ [Next]_vars => IInv'
<1> SUFFICES ASSUME IInv, [Next]_vars PROVE IInv'
  OBVIOUS
<1>1. CASE Environment
  BY <1>1, QueueStep, SurroundingsStep, TablesClearedStep DEF Environment
<1>2. CASE Consumer
  BY <1>2, ReceiveStep, QuietStep, ClaimStep, ViolationStep, QueryStep, SendZoneStep, DeleteStep
     DEF Consumer, HandleReading, MaybeCluster
<1>3. CASE HandlerFails \/ Crash
  BY <1>3, FaultStep
<1>4. CASE Restart
  BY <1>4, SurroundingsStep
<1>5. CASE UNCHANGED vars
  <2>1. TypeOK' /\ InHand' /\ (Excused' => Excused)
    BY <1>5 DEF vars, IInv, TypeOK, InHand, Kept, Excused, sensor_id
  <2>2. ZonesAreClusters'
    BY <1>5, <2>1, ZonesStay DEF vars, Kept
  <2> QED
    BY <1>5, <2>1, <2>2, QueueStays DEF vars, Kept
<1> QED
  BY <1>1, <1>2, <1>3, <1>4, <1>5 DEF Next

-----------------------------------------------------------------------------
(* Theorems *)

\* Every reachable state of the correlator, its queue, tables and cache is well
\* typed, and a stored reading has its sensor's row.
THEOREM TypeCorrect == Spec => []TypeOK
<1>1. IInv => TypeOK
  BY DEF IInv
<1> QED
  BY <1>1, InitIInv, NextIInv, PTL DEF Spec

\* No reading is acknowledged that Postgres does not hold, for any number of
\* messages, sensors, redeliveries, faults, outages of Redis and clearings.
THEOREM StoredHolds == Spec => []AcknowledgedIsStored
<1>1. IInv => AcknowledgedIsStored
  BY DEF IInv
<1> QED
  BY <1>1, InitIInv, NextIInv, PTL DEF Spec

\* E-016: a message is dead-lettered only after as many faults and clearings as
\* the redrive policy allows receives, whatever the cache says.
THEOREM DivergenceHolds == Spec => []DivergenceNeverDeadLetters
<1>1. IInv => DivergenceNeverDeadLetters
  BY DEF IInv
<1> QED
  BY <1>1, InitIInv, NextIInv, PTL DEF Spec

\* Every zone sent consists of sensors with a wet stored reading and is built
\* round one that had as many of them near as ST_ClusterDBSCAN asks for, on any
\* map of sensors; asked for no more than two, it has as many members itself.
THEOREM ZonesHold == Spec => []ZonesAreClusters
<1>1. IInv => ZonesAreClusters
  BY DEF IInv
<1> QED
  BY <1>1, InitIInv, NextIInv, PTL DEF Spec
=============================================================================

-------------------------- MODULE DispatcherProofs --------------------------
(***************************************************************************)
(* Theorems about Dispatcher, for every set of zones, messages and bounds. *)
(*                                                                         *)
(* Every safety property of the consumer follows from one inductive        *)
(* invariant, Inv: the types, what the consumer's locals mean at each      *)
(* statement of handle() (Handling), and how the three logs are linked     *)
(* while a decision is half written (Linked).                              *)
(***************************************************************************)
EXTENDS Dispatcher, SequenceTheorems, WellFoundedInduction, TLAPS

\* The statements that run after decide_level(), and those of handle().
Decided == {"upsert", "audit", "publish", "record", "delete"}
Busy == Decided \cup {"read"}

\* What the locals of handle() mean while it runs.
Handling ==
    /\ pc \in Busy => batch # <<>>
    /\ pc \in Decided => /\ cur.level = Level(body[unit])
                         /\ cur.state = next_state(cur.previous.state)

-----------------------------------------------------------------------------
(* Lemmas on the operators of the model *)

\* The ladder answers with a level.
LEMMA LevelType == ASSUME NEW d, NEW n, NEW a PROVE decide_level(d, n, a) \in Levels
BY DEF decide_level, Levels

\* A zone that was just clustered is forming or active.
LEMMA NextStateType == ASSUME NEW s PROVE next_state(s) \in {"forming", "active"}
BY DEF next_state

\* A non-empty set of indices of a sequence has a greatest element.
LEMMA GreatestIndex ==
    ASSUME NEW n \in Nat, NEW S, S \subseteq 1..n, S # {}
    PROVE  \E i \in S : \A j \in S : i >= j
<1> DEFINE T == {m \in Nat : n - m \in S}
<1>1. T \subseteq Nat
  OBVIOUS
<1>2. T # {}
  <2>1. PICK i \in S : TRUE
    OBVIOUS
  <2>2. i \in 1..n
    OBVIOUS
  <2>3. n - i \in Nat /\ n - (n - i) = i
    BY <2>2
  <2>4. n - i \in T
    BY <2>3, <2>1
  <2> QED
    BY <2>4
<1>3. PICK m \in T : \A k \in T : ~ (<<k, m>> \in OpToRel(<, Nat))
  <2> HIDE DEF T
  <2> QED
    BY <1>1, <1>2, NatLessThanWellFounded, WFMin
<1>4. \A k \in T : k >= m
  <2> SUFFICES ASSUME NEW k \in T PROVE k >= m
    OBVIOUS
  <2>1. k \in Nat /\ m \in Nat
    OBVIOUS
  <2>2. ~ (k < m)
    BY <1>3, <2>1 DEF OpToRel
  <2> QED
    BY <2>1, <2>2
<1>5. \A j \in S : n - m >= j
  <2> SUFFICES ASSUME NEW j \in S PROVE n - m >= j
    OBVIOUS
  <2>1. j \in 1..n /\ m \in Nat
    OBVIOUS
  <2>2. n - j \in T
    BY <2>1
  <2>3. n - j >= m
    BY <2>2, <1>4
  <2> QED
    BY <2>1, <2>3
<1> QED
  BY <1>5

\* A zone's last level is that of one of its rows, or none.
LEMMA LastLevelType ==
    ASSUME advisories \in Seq(AdvisoryRow), NEW z
    PROVE  last_level(z) \in Levels \cup {NoLevel}
<1>1. CASE RowsOf(z) = {}
  BY <1>1 DEF last_level
<1>2. CASE RowsOf(z) # {}
  <2> DEFINE newest == CHOOSE i \in RowsOf(z) : \A j \in RowsOf(z) : i >= j
  <2>1. Len(advisories) \in Nat /\ DOMAIN advisories = 1..Len(advisories)
    OBVIOUS
  <2>2. RowsOf(z) \subseteq 1..Len(advisories)
    BY <2>1 DEF RowsOf
  <2>3. \E i \in RowsOf(z) : \A j \in RowsOf(z) : i >= j
    BY <1>2, <2>1, <2>2, GreatestIndex
  <2>4. newest \in RowsOf(z)
    BY <2>3
  <2>5. advisories[newest] \in AdvisoryRow
    BY <2>1, <2>2, <2>4
  <2> QED
    BY <1>2, <2>5 DEF last_level, AdvisoryRow
<1> QED
  BY <1>1, <1>2

-----------------------------------------------------------------------------
(* Type correctness *)

\* What handle() reads of a zone is well typed.
LEMMA OpenZonesType ==
    ASSUME TypeOK, NEW z \in Zones
    PROVE  open_zones(z) \in Previous
<1>1. last_level(z) \in Levels \cup {NoLevel}
  BY LastLevelType DEF TypeOK
<1>2. zones[z] \in Row
  BY DEF TypeOK
<1> QED
  BY <1>1, <1>2 DEF open_zones, Open, NoPrevious, Previous, Row

\* While a handler runs there is a message in hand.
LEMMA CurrentMessage ==
    ASSUME TypeOK, Handling, pc \in Busy
    PROVE  /\ batch # <<>>
           /\ unit \in Units
           /\ body[unit] \in Bodies
           /\ zone_id \in Zones
           /\ body[unit].under_alert \in BOOLEAN
           /\ Level(body[unit]) \in Levels
<1>1. batch # <<>> /\ batch \in Seq(Units)
  BY DEF Handling, TypeOK
<1>2. unit \in Units
  BY <1>1, HeadTailProperties DEF unit
<1>3. body[unit] \in Bodies
  BY <1>2 DEF TypeOK
<1> QED
  BY <1>1, <1>2, <1>3, DispatcherAssumption, LevelType DEF Level, zone_id

\* The dispatcher before its first message is well typed.
LEMMA InitType == Init => TypeOK /\ Handling
BY DispatcherAssumption, MaxReceiveAssumption
   DEF Init, TypeOK, Handling, EmptyQueue, Message, Places, Row, ZoneStates,
       OpenStates, NoState, Locals, Unlocked, Previous, NoPrevious, NoLevel,
       ConsumerSteps, Memory, Busy, Decided

\* consume() goes on to the rest of the batch or to the next receive.
LEMMA NextMessageType ==
    ASSUME TypeOK, batch # <<>>, NextMessage
    PROVE  /\ batch' \in Seq(Units)
           /\ pc' \in {"receive", "read"}
           /\ cur' \in Locals
           /\ pc' = "read" => batch' # <<>>
<1>1. batch' \in Seq(Units)
  BY HeadTailProperties DEF TypeOK, NextMessage
<1>2. cur' \in Locals
  BY DEF NextMessage, Locals, Unlocked, Previous, NoPrevious, NoLevel, NoState
<1> QED
  BY <1>1, <1>2 DEF NextMessage

\* A message moves from place to place.
LEMMA PlaceType ==
    ASSUME NEW q \in [Units -> Message], NEW u \in Units, NEW place \in Places
    PROVE  [q EXCEPT ![u].at = place] \in [Units -> Message]
<1>1. [q[u] EXCEPT !.at = place] \in Message
  BY DEF Message
<1> QED
  BY <1>1

EnvType == [crashes : 0..MAX_CRASHES, outages : 0..MAX_OUTAGES,
            duplicates : 0..MAX_DUPLICATES]

\* Detections, redeliveries, redrives and ageing leave the handler alone.
LEMMA EnvironmentType ==
    ASSUME TypeOK, Handling, Environment
    PROVE  (TypeOK /\ Handling)'
<1>1. UNCHANGED <<body, audit, sns, advisories, pc, batch, cur, sweeper, stale, history>>
  BY DEF Environment, Detect, Expire, DeadLetter, DeliverAgain, Age
<1>2. Handling'
  BY <1>1 DEF Handling, unit
<1>3. ASSUME NEW u \in Units, Detect(u) \/ Expire(u) \/ DeadLetter(u)
      PROVE  (TypeOK /\ Handling)'
  <2>1. queue' \in [Units -> Message]
    <3>1. CASE queue' = [queue EXCEPT ![u].at = "visible"]
      BY <3>1, PlaceType DEF TypeOK, Places
    <3>2. CASE queue' = [queue EXCEPT ![u].at = "dead"]
      BY <3>2, PlaceType DEF TypeOK, Places
    <3> QED
      BY <1>3, <3>1, <3>2
      DEF Detect, Expire, DeadLetter, Sent, TimedOut, Redriven
  <2>2. zones' = zones /\ env' = env
    BY <1>3 DEF Detect, Expire, DeadLetter
  <2> QED
    BY <1>1, <1>2, <2>1, <2>2 DEF TypeOK
<1>4. ASSUME NEW u \in Units, DeliverAgain(u)
      PROVE  (TypeOK /\ Handling)'
  <2>1. queue' \in [Units -> Message] /\ zones' = zones
    BY <1>4, PlaceType DEF TypeOK, DeliverAgain, Resurfaced, Places
  <2>2. env.duplicates + 1 \in 0..MAX_DUPLICATES
    BY <1>4, DispatcherAssumption DEF TypeOK, DeliverAgain
  <2>3. env' = [env EXCEPT !.duplicates = env.duplicates + 1]
    BY <1>4 DEF DeliverAgain
  <2>4. env' \in EnvType
    BY <2>2, <2>3 DEF TypeOK, EnvType
  <2> QED
    BY <1>1, <1>2, <2>1, <2>4 DEF TypeOK, EnvType
<1>5. ASSUME NEW z \in Zones, Age(z)
      PROVE  (TypeOK /\ Handling)'
  <2>1. zones' = [zones EXCEPT ![z] = [zones[z] EXCEPT !.fresh = FALSE]]
    BY <1>5 DEF Age
  <2>2. [zones[z] EXCEPT !.fresh = FALSE] \in Row
    <3>1. zones[z] \in Row
      BY DEF TypeOK
    <3> QED
      BY <3>1 DEF Row
  <2>3. zones' \in [Zones -> Row] /\ queue' = queue /\ env' = env
    BY <1>5, <2>1, <2>2 DEF TypeOK, Age
  <2> QED
    BY <1>1, <1>2, <2>3 DEF TypeOK
<1> QED
  BY <1>3, <1>4, <1>5 DEF Environment

\* A batch is a sequence of messages.
LEMMA ReceiveType ==
    ASSUME TypeOK, Handling, Receive
    PROVE  (TypeOK /\ Handling)'
<1>1. PICK n \in 1..BATCH : \E msgs \in [1..n -> Receivable(queue)] :
          /\ batch' = msgs
          /\ queue' = Received(queue, {msgs[i] : i \in 1..n})
  BY DEF Receive
<1>2. PICK msgs \in [1..n -> Receivable(queue)] :
          /\ batch' = msgs
          /\ queue' = Received(queue, {msgs[i] : i \in 1..n})
  BY <1>1
<1>3. n \in Nat /\ n >= 1
  BY <1>1, DispatcherAssumption
<1>4. Receivable(queue) \subseteq Units
  BY DEF Receivable, In
<1>5. batch' \in Seq(Units) /\ batch' # <<>>
  <2>1. msgs \in [1..n -> Units]
    BY <1>2, <1>4
  <2>2. msgs \in Seq(Units) /\ Len(msgs) = n
    BY <2>1, <1>3
  <2> QED
    BY <2>2, <1>2, <1>3
<1>6. queue' \in [Units -> Message]
  <2> DEFINE B == {msgs[i] : i \in 1..n}
  <2>1. B \subseteq Receivable(queue)
    BY <1>2
  <2>2. ASSUME NEW u \in Units
        PROVE  (IF u \in B THEN [at |-> "inflight", receives |-> queue[u].receives + 1]
                ELSE queue[u]) \in Message
    <3>1. queue[u] \in Message
      BY DEF TypeOK
    <3>2. CASE u \in B
      <4>1. queue[u].receives < MAX_RECEIVE
        BY <3>1, <3>2, <2>1, MaxReceiveAssumption DEF Receivable, In, Exhausted, Message
      <4> QED
        BY <3>1, <3>2, <4>1, MaxReceiveAssumption DEF Message, Places
    <3> QED
      BY <3>1, <3>2
  <2>3. queue' = Received(queue, B)
    BY <1>2
  <2> HIDE DEF B
  <2> QED
    BY <2>2, <2>3 DEF Received
<1>7. pc' = "read"
  BY DEF Receive
<1> QED
  BY <1>5, <1>6, <1>7 DEF TypeOK, Handling, Receive, sweep, ConsumerSteps, Busy, Decided

\* After the read, level and state are the ladder's answers.
LEMMA ReadType ==
    ASSUME TypeOK, Handling, ReadOpenZones
    PROVE  (TypeOK /\ Handling)'
<1>1. pc = "read" /\ pc' = "upsert"
  BY DEF ReadOpenZones
<1>2. /\ batch # <<>> /\ zone_id \in Zones
      /\ Level(body[unit]) \in Levels
  BY <1>1, CurrentMessage DEF Busy, Decided
<1>3. open_zones(zone_id) \in Previous
  BY <1>2, OpenZonesType
<1>4. cur' = [cur EXCEPT !.previous = open_zones(zone_id),
                         !.state = next_state(open_zones(zone_id).state),
                         !.level = Level(body[unit])]
  BY DEF ReadOpenZones
<1>5. next_state(open_zones(zone_id).state) \in {"forming", "active"}
  BY NextStateType
<1>6. /\ cur' \in Locals
      /\ cur'.level = Level(body[unit])
      /\ cur'.previous = open_zones(zone_id)
      /\ cur'.state = next_state(open_zones(zone_id).state)
  BY <1>2, <1>3, <1>4, <1>5 DEF TypeOK, Locals
<1>7. UNCHANGED <<queue, body, zones, audit, sns, advisories, batch, sweeper,
                  stale, env, history>>
  BY DEF ReadOpenZones, sweep
<1>8. unit' = unit /\ Level(body[unit])' = Level(body[unit])
  BY <1>7 DEF unit, Level
<1>9. TypeOK'
  BY <1>1, <1>6, <1>7 DEF TypeOK, ConsumerSteps
<1>10. Handling'
  BY <1>1, <1>2, <1>6, <1>7, <1>8 DEF Handling
<1> QED
  BY <1>9, <1>10

\* ... and the upsert writes them.
LEMMA UpsertType ==
    ASSUME TypeOK, Handling, UpsertZone
    PROVE  (TypeOK /\ Handling)'
<1>1. /\ pc = "upsert"
      /\ pc' = AfterUpsert
      /\ zones' = upsert_zone(zone_id, cur.state, body[unit].under_alert)
      /\ UNCHANGED <<queue, body, audit, sns, advisories, batch, cur, sweeper,
                     stale, env>>
  BY DEF UpsertZone, sweep
<1>2. /\ batch # <<>> /\ zone_id \in Zones /\ unit \in Units
      /\ body[unit].under_alert \in BOOLEAN
  BY <1>1, CurrentMessage DEF Busy, Decided
<1>3. pc' \in {"audit", "delete"}
  BY <1>1 DEF AfterUpsert
<1>4. zones' \in [Zones -> Row]
  <2> DEFINE row == [state |-> cur.state,
                     under_alert |-> body[unit].under_alert, fresh |-> TRUE]
  <2>1. row \in Row
    BY <1>2 DEF TypeOK, Locals, Row, ZoneStates, OpenStates, NoState
  <2>2. zones' = [zones EXCEPT ![zone_id] = row]
    BY <1>1 DEF upsert_zone
  <2> HIDE DEF row
  <2> QED
    BY <2>1, <2>2, <1>2 DEF TypeOK
<1>5. history' \in [zone : [Zones -> Memory], owed : SUBSET Units]
  <2> DEFINE old == history.zone[zone_id]
             forming == cur.state = "forming"
             new == [units |-> {unit} \cup (IF forming THEN {} ELSE old.units),
                     runs  |-> IF forming \/ old.runs = 0 THEN 1 ELSE 2,
                     moved |-> \/ old.moved
                               \/ zones[zone_id].state # cur.state
                               \/ zones[zone_id].under_alert
                                     # body[unit].under_alert]
             owed == IF Notifies THEN history.owed \cup {unit} ELSE history.owed
  <2>1. old \in Memory
    BY <1>2 DEF TypeOK
  <2>2. new.units \in SUBSET Units
    BY <2>1, <1>2 DEF Memory
  <2>3. new.runs \in 0..2
    OBVIOUS
  <2>4. new.moved \in BOOLEAN
    BY <2>1 DEF Memory
  <2>5. new \in Memory
    <3> HIDE DEF old, forming
    <3> QED
      BY <2>2, <2>3, <2>4 DEF Memory
  <2>6. owed \in SUBSET Units
    BY <1>2 DEF TypeOK
  <2>7. history' = [zone |-> [history.zone EXCEPT ![zone_id] = new],
                    owed |-> owed]
    BY DEF UpsertZone
  <2> HIDE DEF new, owed
  <2> QED
    BY <2>5, <2>6, <2>7, <1>2 DEF TypeOK
<1>6. TypeOK'
  BY <1>1, <1>3, <1>4, <1>5 DEF TypeOK, ConsumerSteps
<1>7. unit' = unit /\ Level(body[unit])' = Level(body[unit])
  BY <1>1 DEF unit, Level
<1>8. Handling'
  BY <1>1, <1>2, <1>3, <1>7 DEF Handling, Busy, Decided
<1> QED
  BY <1>6, <1>8

\* The audit record is of the message in hand.
LEMMA AuditType ==
    ASSUME TypeOK, Handling, WriteAudit
    PROVE  (TypeOK /\ Handling)'
<1> DEFINE e == [unit |-> unit, zone |-> zone_id, level |-> cur.level]
<1>1. /\ pc = "audit" /\ pc' = "publish"
      /\ audit' = Append(audit, e)
      /\ cur' = [cur EXCEPT !.key = Len(audit')]
      /\ UNCHANGED <<queue, body, zones, sns, advisories, batch, sweeper,
                     stale, env, history>>
  BY DEF WriteAudit, sweep
<1>2. /\ batch # <<>> /\ zone_id \in Zones /\ unit \in Units
      /\ Level(body[unit]) \in Levels
  BY <1>1, CurrentMessage DEF Busy, Decided
<1>3. e \in Evidence
  BY <1>1, <1>2 DEF Evidence, Handling, Decided
<1>4. audit' \in Seq(Evidence)
  <2> HIDE DEF e
  <2> QED
    BY <1>1, <1>3, AppendProperties DEF TypeOK
<1>5. cur' \in Locals /\ cur'.level = cur.level /\ cur'.state = cur.state
      /\ cur'.previous = cur.previous
  <2>1. Len(audit') \in Nat
    BY <1>4
  <2>2. cur \in Locals /\ cur' = [cur EXCEPT !.key = Len(audit')]
    BY <1>1 DEF TypeOK
  <2> QED
    BY <2>1, <2>2 DEF Locals
<1>6. TypeOK'
  BY <1>1, <1>4, <1>5 DEF TypeOK, ConsumerSteps
<1>7. unit' = unit /\ Level(body[unit])' = Level(body[unit])
  BY <1>1 DEF unit, Level
<1>8. Handling'
  BY <1>1, <1>2, <1>5, <1>7 DEF Handling, Busy, Decided
<1> QED
  BY <1>6, <1>8

\* ... and so is the notification, which cites it.
LEMMA PublishType ==
    ASSUME TypeOK, Handling, Publish
    PROVE  (TypeOK /\ Handling)'
<1> DEFINE n == [unit |-> unit, zone |-> zone_id, level |-> cur.level,
                 key |-> cur.key]
<1>1. /\ pc = "publish" /\ pc' = "record"
      /\ sns' = Append(sns, n)
      /\ cur' = [cur EXCEPT !.sns = Len(sns')]
      /\ history' = [history EXCEPT !.owed = @ \ {unit}]
      /\ UNCHANGED <<queue, body, zones, audit, advisories, batch, sweeper,
                     stale, env>>
  BY DEF Publish, sweep
<1>2. /\ batch # <<>> /\ zone_id \in Zones /\ unit \in Units
      /\ Level(body[unit]) \in Levels
  BY <1>1, CurrentMessage DEF Busy, Decided
<1>3. n \in Notification
  BY <1>1, <1>2 DEF Notification, Handling, Decided, TypeOK, Locals
<1>4. sns' \in Seq(Notification)
  <2> HIDE DEF n
  <2> QED
    BY <1>1, <1>3, AppendProperties DEF TypeOK
<1>5. cur' \in Locals /\ cur'.level = cur.level /\ cur'.state = cur.state
      /\ cur'.previous = cur.previous
  <2>1. Len(sns') \in Nat
    BY <1>4
  <2>2. cur \in Locals /\ cur' = [cur EXCEPT !.sns = Len(sns')]
    BY <1>1 DEF TypeOK
  <2> QED
    BY <2>1, <2>2 DEF Locals
<1>6. history' \in [zone : [Zones -> Memory], owed : SUBSET Units]
  BY <1>1 DEF TypeOK
<1>7. TypeOK'
  BY <1>1, <1>4, <1>5, <1>6 DEF TypeOK, ConsumerSteps
<1>8. unit' = unit /\ Level(body[unit])' = Level(body[unit])
  BY <1>1 DEF unit, Level
<1>9. Handling'
  BY <1>1, <1>2, <1>5, <1>8 DEF Handling, Busy, Decided
<1> QED
  BY <1>7, <1>9

\* history remembers of a zone whether it was moved.
LEMMA MemoryType ==
    ASSUME TypeOK, NEW z \in Zones, NEW b \in BOOLEAN
    PROVE  [history EXCEPT !.zone[z].moved = b]
              \in [zone : [Zones -> Memory], owed : SUBSET Units]
<1> DEFINE m == [history.zone[z] EXCEPT !.moved = b]
           f == [history.zone EXCEPT ![z] = m]
<1>1. m \in Memory
  <2>1. history.zone[z] \in Memory
    BY DEF TypeOK
  <2> QED
    BY <2>1 DEF Memory
<1>2. f \in [Zones -> Memory]
  <2> HIDE DEF m
  <2> QED
    BY <1>1 DEF TypeOK
<1>3. [history EXCEPT !.zone[z].moved = b] = [history EXCEPT !.zone = f]
  OBVIOUS
<1> HIDE DEF f
<1> QED
  BY <1>2, <1>3 DEF TypeOK

\* The advisory row is of the message in hand.
LEMMA RecordType ==
    ASSUME TypeOK, Handling, RecordAdvisory
    PROVE  (TypeOK /\ Handling)'
<1>1. /\ pc = "record" /\ pc' = "delete"
      /\ advisories' = Append(advisories, advisory_row)
      /\ history' = [history EXCEPT !.zone[zone_id].moved = FALSE]
      /\ UNCHANGED <<queue, body, zones, audit, sns, batch, cur, sweeper,
                     stale, env>>
  BY DEF RecordAdvisory, sweep
<1>2. /\ batch # <<>> /\ zone_id \in Zones
      /\ Level(body[unit]) \in Levels
  BY <1>1, CurrentMessage DEF Busy, Decided
<1>3. advisory_row \in AdvisoryRow
  BY <1>1, <1>2 DEF advisory_row, AdvisoryRow, Handling, Decided, TypeOK, Locals
<1>4. advisories' \in Seq(AdvisoryRow)
  BY <1>1, <1>3, AppendProperties DEF TypeOK
<1>5. history' \in [zone : [Zones -> Memory], owed : SUBSET Units]
  BY <1>1, <1>2, MemoryType
<1>6. TypeOK'
  BY <1>1, <1>4, <1>5 DEF TypeOK, ConsumerSteps
<1>7. unit' = unit /\ Level(body[unit])' = Level(body[unit])
  BY <1>1 DEF unit, Level
<1>8. Handling'
  BY <1>1, <1>2, <1>7 DEF Handling, Busy, Decided
<1> QED
  BY <1>6, <1>8

\* A message is deleted, or its handler gives up.
LEMMA LeaveType ==
    ASSUME TypeOK, Handling, DeleteMessage \/ HandlerFails
    PROVE  (TypeOK /\ Handling)'
<1>1. pc \in Busy
  BY DEF DeleteMessage, HandlerFails, AfterRaise, Busy, Decided
<1>2. batch # <<>> /\ unit \in Units
  BY <1>1, CurrentMessage
<1>3. NextMessage
  BY DEF DeleteMessage, HandlerFails, AfterRaise
<1>4. queue' \in [Units -> Message]
  <2>1. CASE queue' = queue
    BY <2>1 DEF TypeOK
  <2>2. CASE queue' = [queue EXCEPT ![unit].at = "deleted"]
    BY <2>2, <1>2, PlaceType DEF TypeOK, Places
  <2> QED
    BY <2>1, <2>2 DEF DeleteMessage, HandlerFails, AfterRaise, Deleted
<1>5. UNCHANGED <<body, zones, audit, sns, advisories, sweeper, stale, env,
                  history>>
  BY DEF DeleteMessage, HandlerFails, AfterRaise, sweep
<1>6. /\ batch' \in Seq(Units)
      /\ pc' \in {"receive", "read"}
      /\ cur' \in Locals
      /\ pc' = "read" => batch' # <<>>
  BY <1>2, <1>3, NextMessageType
<1>7. TypeOK'
  BY <1>4, <1>5, <1>6 DEF TypeOK, ConsumerSteps
<1>8. Handling'
  BY <1>6 DEF Handling, Busy, Decided
<1> QED
  BY <1>7, <1>8

\* The sweeper's steps touch the rows and its own list.
LEMMA SweeperType ==
    ASSUME TypeOK, Handling, Sweeper
    PROVE  (TypeOK /\ Handling)'
<1>1. UNCHANGED <<queue, body, audit, sns, advisories, pc, batch, cur>>
  BY DEF Sweeper, SweepRead, SweepSet, SweepFails, table, consumer
<1>2. Handling'
  <2>1. unit' = unit /\ Level(body[unit])' = Level(body[unit])
    BY <1>1 DEF unit, Level
  <2> QED
    BY <1>1, <2>1 DEF Handling
<1>3. CASE SweepRead
  <2>1. stale' \subseteq [zone : Zones, state : OpenStates]
    BY <1>3 DEF SweepRead, stale_open_zones, Open
  <2>2. UNCHANGED <<zones, env, history>> /\ sweeper' \in {"sleep", "sweep"}
    BY <1>3 DEF SweepRead, table
  <2> QED
    BY <1>1, <1>2, <2>1, <2>2 DEF TypeOK
<1>4. CASE SweepFails
  <2>1. env.outages + 1 \in 0..MAX_OUTAGES
    BY <1>4, DispatcherAssumption DEF TypeOK, SweepFails
  <2>2. env' = [env EXCEPT !.outages = env.outages + 1]
    BY <1>4 DEF SweepFails
  <2>3. env' \in EnvType
    BY <2>1, <2>2 DEF TypeOK, EnvType
  <2>4. UNCHANGED <<zones, history>> /\ sweeper' = "sleep" /\ stale' = {}
    BY <1>4 DEF SweepFails, table
  <2> QED
    BY <1>1, <1>2, <2>3, <2>4 DEF TypeOK, EnvType
<1>5. ASSUME NEW row \in stale, SweepSet(row)
      PROVE  (TypeOK /\ Handling)'
  <2>1. row.zone \in Zones /\ row.state \in OpenStates
    BY DEF TypeOK
  <2>2. sweep_state(row.state) \in ZoneStates
    BY DEF sweep_state, ZoneStates, OpenStates, NoState
  <2>3. zones' \in [Zones -> Row]
    <3>1. CASE zones' = zones
      BY <3>1 DEF TypeOK
    <3>2. CASE zones' = set_zone_state(row.zone, sweep_state(row.state))
      <4>1. zones[row.zone] \in Row
        BY <2>1 DEF TypeOK
      <4>2. [zones[row.zone] EXCEPT !.state = sweep_state(row.state)] \in Row
        BY <2>2, <4>1 DEF Row
      <4> QED
        BY <2>1, <3>2, <4>2 DEF TypeOK, set_zone_state
    <3> QED
      BY <1>5, <3>1, <3>2 DEF SweepSet
  <2>4. history' \in [zone : [Zones -> Memory], owed : SUBSET Units]
    <3>1. CASE history' = history
      BY <3>1 DEF TypeOK
    <3>2. CASE history' = [history EXCEPT !.zone[row.zone].moved = TRUE]
      BY <3>2, <2>1, MemoryType
    <3> QED
      BY <1>5, <3>1, <3>2 DEF SweepSet
  <2>5. /\ stale' = stale \ {row} /\ env' = env
        /\ sweeper' \in {"sleep", "sweep"}
    BY <1>5 DEF SweepSet
  <2> QED
    BY <1>1, <1>2, <2>3, <2>4, <2>5 DEF TypeOK
<1> QED
  BY <1>3, <1>4, <1>5 DEF Sweeper

\* Crashes, restarts and the two threads keep the types.
LEMMA ProcessType ==
    ASSUME TypeOK, Handling, Process
    PROVE  (TypeOK /\ Handling)'
<1>1. CASE Crash
  <2>1. env.crashes + 1 \in 0..MAX_CRASHES
    BY <1>1, DispatcherAssumption DEF TypeOK, Crash
  <2>2. env' = [env EXCEPT !.crashes = env.crashes + 1]
    BY <1>1 DEF Crash
  <2>3. env' \in EnvType
    BY <2>1, <2>2 DEF TypeOK, EnvType
  <2>4. /\ UNCHANGED <<queue, body, zones, advisories, audit, sns, history>>
        /\ pc' = "down" /\ batch' = <<>> /\ cur' = Unlocked
        /\ sweeper' = "sleep" /\ stale' = {}
    BY <1>1 DEF Crash, table
  <2>5. cur' \in Locals
    BY <2>4 DEF Locals, Unlocked, Previous, NoPrevious, NoLevel, NoState
  <2> QED
    BY <2>3, <2>4, <2>5 DEF TypeOK, EnvType, Handling, ConsumerSteps, Busy, Decided
<1>2. CASE Restart
  BY <1>2 DEF Restart, table, sweep, TypeOK, Handling, ConsumerSteps, Busy, Decided
<1> QED
  BY <1>1, <1>2 DEF Process

\* ... and so does a step that changes nothing.
LEMMA StutterType ==
    ASSUME TypeOK, Handling, UNCHANGED vars
    PROVE  (TypeOK /\ Handling)'
BY DEF vars, TypeOK, Handling, unit, Level

\* The types, and what the locals of handle() mean, are an invariant.
THEOREM TypeCorrect == Spec => [](TypeOK /\ Handling)
<1>1. Init => TypeOK /\ Handling
  BY InitType
<1>2. TypeOK /\ Handling /\ [Next]_vars => (TypeOK /\ Handling)'
  <2> SUFFICES ASSUME TypeOK, Handling, [Next]_vars
               PROVE  (TypeOK /\ Handling)'
    OBVIOUS
  <2>1. CASE Environment
    BY <2>1, EnvironmentType
  <2>2. CASE Receive
    BY <2>2, ReceiveType
  <2>3. CASE ReadOpenZones
    BY <2>3, ReadType
  <2>4. CASE UpsertZone
    BY <2>4, UpsertType
  <2>5. CASE WriteAudit
    BY <2>5, AuditType
  <2>6. CASE Publish
    BY <2>6, PublishType
  <2>7. CASE RecordAdvisory
    BY <2>7, RecordType
  <2>8. CASE DeleteMessage \/ HandlerFails
    BY <2>8, LeaveType
  <2>9. CASE Sweeper
    BY <2>9, SweeperType
  <2>10. CASE Process
    BY <2>10, ProcessType
  <2>11. CASE UNCHANGED vars
    BY <2>11, StutterType
  <2> QED
    BY <2>1, <2>2, <2>3, <2>4, <2>5, <2>6, <2>7, <2>8, <2>9, <2>10, <2>11
    DEF Next, Consumer
<1> QED
  BY <1>1, <1>2, PTL DEF Spec

-----------------------------------------------------------------------------
(* Audit before notification, and the evidence ledger *)

\* The audit record of the decision in hand exists and is not cited yet; then
\* its notification exists and is not recorded yet.
PendingEvidence ==
    pc = "publish" =>
        /\ cur.key \in DOMAIN audit
        /\ audit[cur.key] = [unit |-> unit, zone |-> zone_id, level |-> cur.level]
        /\ \A i \in DOMAIN sns : sns[i].key # cur.key

PendingNotice ==
    pc = "record" =>
        /\ cur.sns \in DOMAIN sns
        /\ sns[cur.sns] = [unit |-> unit, zone |-> zone_id,
                           level |-> cur.level, key |-> cur.key]
        /\ \A i \in DOMAIN advisories : advisories[i].sns # cur.sns

RowsCiteNotices ==
    \A i \in DOMAIN advisories : advisories[i].sns \in DOMAIN sns

Linked ==
    /\ AuditedBeforeNotified
    /\ RowsCiteNotices
    /\ PendingEvidence
    /\ PendingNotice

\* The steps that write none of the three logs and start no decision.
LEMMA UnlinkedStep ==
    ASSUME Linked, UNCHANGED <<audit, sns, advisories>>,
           \/ pc' \notin {"publish", "record"}
           \/ UNCHANGED <<pc, batch, cur, body>>
    PROVE  Linked'
<1>1. AuditedBeforeNotified' /\ RowsCiteNotices'
  BY DEF Linked, AuditedBeforeNotified, RowsCiteNotices
<1>2. PendingEvidence' /\ PendingNotice'
  <2>1. CASE pc' \notin {"publish", "record"}
    BY <2>1 DEF PendingEvidence, PendingNotice
  <2>2. CASE UNCHANGED <<pc, batch, cur, body>>
    <3>1. unit' = unit /\ zone_id' = zone_id
      BY <2>2 DEF unit, zone_id
    <3> QED
      BY <2>2, <3>1 DEF Linked, PendingEvidence, PendingNotice
  <2> QED
    BY <2>1, <2>2
<1> QED
  BY <1>1, <1>2 DEF Linked

\* An audit record is a new attestation of the ledger.
LEMMA WriteAuditLinks ==
    ASSUME TypeOK, Handling, Linked, WriteAudit
    PROVE  Linked' /\ Ledger!Attest
<1> DEFINE e == [unit |-> unit, zone |-> zone_id, level |-> cur.level]
<1>1. /\ pc = "audit" /\ pc' = "publish"
      /\ audit' = Append(audit, e)
      /\ cur' = [cur EXCEPT !.key = Len(audit')]
      /\ UNCHANGED <<body, sns, advisories, batch>>
  BY DEF WriteAudit
<1>2. /\ zone_id \in Zones /\ unit \in Units
      /\ Level(body[unit]) \in Levels
  BY <1>1, CurrentMessage DEF Busy, Decided
<1>3. e \in Evidence
  BY <1>1, <1>2 DEF Evidence, Handling, Decided
<1>4. /\ Len(audit) \in Nat
      /\ Len(audit') = Len(audit) + 1
      /\ DOMAIN audit = 1..Len(audit)
      /\ DOMAIN audit' = 1..Len(audit')
      /\ \A i \in 1..Len(audit) : audit'[i] = audit[i]
      /\ audit'[Len(audit')] = e
  <2> HIDE DEF e
  <2> QED
    BY <1>1, <1>3, AppendProperties DEF TypeOK
<1>5. /\ cur'.key = Len(audit') /\ cur'.level = cur.level
      /\ unit' = unit /\ zone_id' = zone_id
  BY <1>1 DEF TypeOK, Locals, unit, zone_id
<1>6. \A i \in DOMAIN sns : sns[i].key \in 1..Len(audit)
  BY <1>4 DEF Linked, AuditedBeforeNotified
<1>7. AuditedBeforeNotified' /\ RowsCiteNotices'
  BY <1>1, <1>4, <1>6 DEF Linked, AuditedBeforeNotified, RowsCiteNotices
<1>8. PendingEvidence' /\ PendingNotice'
  BY <1>1, <1>4, <1>5, <1>6 DEF PendingEvidence, PendingNotice
<1>9. Ledger!Attest
  BY <1>1, <1>3 DEF Ledger!Attest
<1> QED
  BY <1>7, <1>8, <1>9 DEF Linked

\* A notification cites the attestation of its own decision.
LEMMA PublishLinks ==
    ASSUME TypeOK, Handling, Linked, Publish
    PROVE  Linked' /\ Ledger!Notify
<1> DEFINE n == [unit |-> unit, zone |-> zone_id, level |-> cur.level,
                 key |-> cur.key]
<1>1. /\ pc = "publish" /\ pc' = "record"
      /\ sns' = Append(sns, n)
      /\ cur' = [cur EXCEPT !.sns = Len(sns')]
      /\ UNCHANGED <<body, audit, advisories, batch>>
  BY DEF Publish
<1>2. /\ zone_id \in Zones /\ unit \in Units
      /\ Level(body[unit]) \in Levels
  BY <1>1, CurrentMessage DEF Busy, Decided
<1>3. n \in Notification
  BY <1>1, <1>2 DEF Notification, Handling, Decided, TypeOK, Locals
<1>4. /\ Len(sns) \in Nat
      /\ Len(sns') = Len(sns) + 1
      /\ DOMAIN sns = 1..Len(sns)
      /\ DOMAIN sns' = 1..Len(sns')
      /\ \A i \in 1..Len(sns) : sns'[i] = sns[i]
      /\ sns'[Len(sns')] = n
  <2> HIDE DEF n
  <2> QED
    BY <1>1, <1>3, AppendProperties DEF TypeOK
<1>5. /\ cur'.sns = Len(sns') /\ cur'.level = cur.level /\ cur'.key = cur.key
      /\ unit' = unit /\ zone_id' = zone_id
  BY <1>1 DEF TypeOK, Locals, unit, zone_id
<1>6. /\ cur.key \in DOMAIN audit
      /\ audit[cur.key] = [unit |-> unit, zone |-> zone_id, level |-> cur.level]
      /\ \A i \in DOMAIN sns : sns[i].key # cur.key
  BY <1>1 DEF Linked, PendingEvidence
<1>7. AuditedBeforeNotified'
  <2> SUFFICES ASSUME NEW i \in 1..Len(sns')
               PROVE  /\ sns'[i].key \in DOMAIN audit
                      /\ audit[sns'[i].key] =
                            [unit |-> sns'[i].unit, zone |-> sns'[i].zone,
                             level |-> sns'[i].level]
    BY <1>1, <1>4 DEF AuditedBeforeNotified
  <2>1. CASE i \in 1..Len(sns)
    BY <1>4, <2>1 DEF Linked, AuditedBeforeNotified
  <2>2. CASE i = Len(sns')
    BY <1>4, <1>6, <2>2
  <2> QED
    BY <1>4, <2>1, <2>2
<1>8. \A i \in DOMAIN advisories : advisories[i].sns \in 1..Len(sns)
  BY <1>4 DEF Linked, RowsCiteNotices
<1>9. RowsCiteNotices'
  BY <1>1, <1>4, <1>8 DEF RowsCiteNotices
<1>10. PendingEvidence' /\ PendingNotice'
  BY <1>1, <1>4, <1>5, <1>8 DEF PendingEvidence, PendingNotice
<1>11. Ledger!Notify
  BY <1>1, <1>6 DEF Ledger!Notify, Ledger!Cited
<1> QED
  BY <1>7, <1>9, <1>10, <1>11 DEF Linked

\* An advisory row names the notification that was just sent.
LEMMA RecordLinks ==
    ASSUME TypeOK, Handling, Linked, RecordAdvisory
    PROVE  Linked' /\ Ledger!Record
<1>1. /\ pc = "record" /\ pc' = "delete"
      /\ advisories' = Append(advisories, advisory_row)
      /\ UNCHANGED <<body, audit, sns, batch, cur>>
  BY DEF RecordAdvisory
<1>2. /\ zone_id \in Zones
      /\ Level(body[unit]) \in Levels
  BY <1>1, CurrentMessage DEF Busy, Decided
<1>3. advisory_row \in AdvisoryRow
  BY <1>1, <1>2 DEF advisory_row, AdvisoryRow, Handling, Decided, TypeOK, Locals
<1>4. /\ Len(advisories) \in Nat
      /\ Len(advisories') = Len(advisories) + 1
      /\ DOMAIN advisories = 1..Len(advisories)
      /\ DOMAIN advisories' = 1..Len(advisories')
      /\ \A i \in 1..Len(advisories) : advisories'[i] = advisories[i]
      /\ advisories'[Len(advisories')] = advisory_row
  BY <1>1, <1>3, AppendProperties DEF TypeOK
<1>5. /\ cur.sns \in DOMAIN sns
      /\ sns[cur.sns] = [unit |-> unit, zone |-> zone_id,
                         level |-> cur.level, key |-> cur.key]
      /\ \A i \in DOMAIN advisories : advisories[i].sns # cur.sns
  BY <1>1 DEF Linked, PendingNotice
<1>6. RowsCiteNotices'
  <2> SUFFICES ASSUME NEW i \in 1..Len(advisories')
               PROVE  advisories'[i].sns \in DOMAIN sns
    BY <1>1, <1>4 DEF RowsCiteNotices
  <2>1. CASE i \in 1..Len(advisories)
    BY <1>4, <2>1 DEF Linked, RowsCiteNotices
  <2>2. CASE i = Len(advisories')
    BY <1>4, <1>5, <2>2 DEF advisory_row
  <2> QED
    BY <1>4, <2>1, <2>2
<1>7. AuditedBeforeNotified'
  BY <1>1 DEF Linked, AuditedBeforeNotified
<1>8. PendingEvidence' /\ PendingNotice'
  BY <1>1 DEF PendingEvidence, PendingNotice
<1>9. Ledger!Record
  BY <1>1, <1>5 DEF Ledger!Record, Ledger!Recorded, advisory_row
<1> QED
  BY <1>6, <1>7, <1>8, <1>9 DEF Linked

\* One step: the links survive it, and it is a step or a stutter of the ledger.
LEMMA LinkedStep ==
    ASSUME TypeOK, Handling, Linked, [Next]_vars
    PROVE  Linked' /\ [Ledger!Next]_(Ledger!logs)
<1>1. CASE WriteAudit
  BY <1>1, WriteAuditLinks DEF Ledger!Next
<1>2. CASE Publish
  BY <1>2, PublishLinks DEF Ledger!Next
<1>3. CASE RecordAdvisory
  BY <1>3, RecordLinks DEF Ledger!Next
<1>4. CASE Environment \/ Sweeper \/ UNCHANGED vars
  <2>1. UNCHANGED <<audit, sns, advisories, pc, batch, cur, body>>
    BY <1>4 DEF Environment, Detect, Expire, DeadLetter, DeliverAgain, Age,
                Sweeper, SweepRead, SweepSet, SweepFails, table, consumer, vars
  <2> QED
    BY <2>1, UnlinkedStep DEF Ledger!logs
<1>5. CASE Receive \/ ReadOpenZones \/ UpsertZone \/ DeleteMessage
           \/ HandlerFails \/ Process
  <2>1. UNCHANGED <<audit, sns, advisories>>
    BY <1>5 DEF Receive, ReadOpenZones, UpsertZone, DeleteMessage, HandlerFails, AfterRaise,
                Process, Crash, Restart, table
  <2>2. pc' \notin {"publish", "record"}
    BY <1>5 DEF Receive, ReadOpenZones, UpsertZone, AfterUpsert, DeleteMessage,
                HandlerFails, AfterRaise, NextMessage, Process, Crash, Restart
  <2> QED
    BY <2>1, <2>2, UnlinkedStep DEF Ledger!logs
<1> QED
  BY <1>1, <1>2, <1>3, <1>4, <1>5 DEF Next, Consumer

\* Empty logs hang together.
LEMMA InitLinked == Init => Linked /\ Ledger!Init
BY DEF Init, Linked, AuditedBeforeNotified, RowsCiteNotices, PendingEvidence,
       PendingNotice, Ledger!Init

\* Every notification cites an audit record of the same decision.
THEOREM AuditFirst == Spec => []AuditedBeforeNotified
<1>1. Init => Linked
  BY InitLinked
<1>2. TypeOK /\ Handling /\ Linked /\ [Next]_vars => Linked'
  BY LinkedStep
<1>3. Linked => AuditedBeforeNotified
  BY DEF Linked
<1> QED
  BY <1>1, <1>2, <1>3, TypeCorrect, PTL DEF Spec

\* The dispatcher implements the evidence ledger.
THEOREM ImplementsLedger == Spec => KeepsLedger
<1>1. Init => Linked /\ Ledger!Init
  BY InitLinked
<1>2. TypeOK /\ Handling /\ Linked /\ [Next]_vars
         => Linked' /\ [Ledger!Next]_(Ledger!logs)
  BY LinkedStep
<1> QED
  BY <1>1, <1>2, TypeCorrect, PTL DEF Spec, KeepsLedger, Ledger!Spec

-----------------------------------------------------------------------------
(* The forming delay *)

Runs(z) == history.zone[z].runs

\* A zone with a row was upserted at least once since it entered forming, as
\* was a zone the sweeper or the consumer read; a zone whose handling decided
\* to notify was upserted twice.
Delayed ==
    /\ \A z \in Zones : zones[z].state # NoState => Runs(z) # 0
    /\ \A row \in stale : Runs(row.zone) # 0
    /\ pc = "upsert" /\ cur.previous.state # NoState => Runs(zone_id) # 0
    /\ pc \in {"audit", "publish"} => Runs(zone_id) = 2

\* No zone has been upserted yet.
LEMMA InitDelayed == Init => Delayed
BY DEF Init, Delayed, NoState

\* The upsert is the one step that counts; it makes a new zone forming.
LEMMA UpsertDelays ==
    ASSUME TypeOK, Handling, Delayed, UpsertZone
    PROVE  Delayed'
<1>1. /\ pc = "upsert" /\ pc' = AfterUpsert
      /\ zones' = upsert_zone(zone_id, cur.state, body[unit].under_alert)
      /\ UNCHANGED <<body, batch, cur, stale>>
  BY DEF UpsertZone, sweep
<1>2. zone_id \in Zones
  BY <1>1, CurrentMessage DEF Busy, Decided
<1>3. unit' = unit /\ zone_id' = zone_id
  BY <1>1 DEF unit, zone_id
<1>4. \A z \in Zones : Runs(z)' = IF z # zone_id THEN Runs(z)
                                 ELSE IF cur.state = "forming" \/ Runs(z) = 0
                                      THEN 1 ELSE 2
  BY <1>2 DEF UpsertZone, TypeOK, Runs
<1>5. \A z \in Zones : z # zone_id => zones'[z] = zones[z]
  BY <1>1, <1>2 DEF upsert_zone, TypeOK
<1>6. \A z \in Zones : Runs(z) # 0 \/ z = zone_id => Runs(z)' # 0
  BY <1>4
<1>7. /\ \A z \in Zones : zones'[z].state # NoState => Runs(z)' # 0
      /\ \A row \in stale' : Runs(row.zone)' # 0
  <2>1. ASSUME NEW z \in Zones, zones'[z].state # NoState PROVE Runs(z)' # 0
    BY <2>1, <1>5, <1>6 DEF Delayed
  <2>2. ASSUME NEW row \in stale PROVE Runs(row.zone)' # 0
    <3>1. row.zone \in Zones /\ Runs(row.zone) # 0
      BY DEF TypeOK, Delayed
    <3> QED
      BY <3>1, <1>6
  <2> QED
    BY <2>1, <2>2, <1>1
<1>8. pc' \in {"audit", "publish"} => Runs(zone_id)' = 2
  <2> SUFFICES ASSUME Notifies PROVE Runs(zone_id)' = 2
    BY <1>1 DEF AfterUpsert
  <2>1. cur.state # "forming"
    BY DEF Notifies, should_notify
  <2>2. cur.previous.state # NoState
    BY <1>1, <2>1 DEF Handling, Decided, next_state
  <2>3. Runs(zone_id) # 0
    BY <1>1, <2>2 DEF Delayed
  <2>4. history'.zone[zone_id].runs = 2
    BY <1>2, <1>4, <2>1, <2>3 DEF Runs
  <2> QED
    BY <1>3, <2>4 DEF Runs
<1>9. pc' # "upsert"
  BY <1>1 DEF AfterUpsert
<1> QED
  BY <1>7, <1>8, <1>9 DEF Delayed

\* The steps that neither upsert nor update a zone row.
LEMMA OtherDelays ==
    ASSUME TypeOK, Handling, Delayed,
           Environment \/ Receive \/ ReadOpenZones \/ WriteAudit \/ Publish
              \/ RecordAdvisory \/ DeleteMessage \/ HandlerFails
              \/ SweepRead \/ SweepFails \/ Process \/ UNCHANGED vars
    PROVE  Delayed'
<1>1. \A z \in Zones : zones'[z].state = zones[z].state
  <2>1. ASSUME NEW y \in Zones, Age(y), NEW z \in Zones
        PROVE  zones'[z].state = zones[z].state
    BY <2>1 DEF Age, TypeOK, Row
  <2>2. CASE zones' = zones
    BY <2>2
  <2> QED
    BY <2>1, <2>2
    DEF Environment, Detect, Expire, DeadLetter, DeliverAgain, Receive,
        ReadOpenZones, WriteAudit, Publish, RecordAdvisory, DeleteMessage,
        HandlerFails, AfterRaise, SweepRead, SweepFails, Process, Crash, Restart, table, vars
<1>2. \A z \in Zones : Runs(z)' = Runs(z)
  <2>1. CASE RecordAdvisory
    BY <2>1, CurrentMessage DEF RecordAdvisory, Busy, Decided, TypeOK, Runs, Memory
  <2>2. CASE Publish
    BY <2>2 DEF Publish, TypeOK, Runs
  <2>3. CASE history' = history
    BY <2>3 DEF Runs
  <2> QED
    BY <2>1, <2>2, <2>3
    DEF Environment, Detect, Expire, DeadLetter, DeliverAgain, Age, Receive,
        ReadOpenZones, WriteAudit, DeleteMessage,
        HandlerFails, AfterRaise, SweepRead, SweepFails, Process, Crash, Restart, vars
<1>3. \A z \in Zones : zones'[z].state # NoState => Runs(z)' # 0
  BY <1>1, <1>2 DEF Delayed
<1>4. \A row \in stale' : row.zone \in Zones /\ Runs(row.zone)' # 0
  <2>1. CASE SweepRead
    BY <2>1, <1>2 DEF SweepRead, stale_open_zones, Open, OpenStates, NoState, Delayed
  <2>2. CASE stale' = stale \/ stale' = {}
    BY <2>2, <1>2 DEF Delayed, TypeOK
  <2> QED
    BY <2>1, <2>2
    DEF Environment, Detect, Expire, DeadLetter, DeliverAgain, Age, Receive,
        ReadOpenZones, WriteAudit, Publish, RecordAdvisory, DeleteMessage,
        HandlerFails, AfterRaise, SweepFails, Process, Crash, Restart, sweep, vars
<1>5. /\ pc' = "upsert" /\ cur'.previous.state # NoState => Runs(zone_id)' # 0
      /\ pc' \in {"audit", "publish"} => Runs(zone_id)' = 2
  <2>1. CASE ReadOpenZones
    <3>1. /\ pc = "read" /\ pc' = "upsert" /\ UNCHANGED <<body, batch>>
          /\ cur' = [cur EXCEPT !.previous = open_zones(zone_id),
                                !.state = next_state(open_zones(zone_id).state),
                                !.level = Level(body[unit])]
      BY <2>1 DEF ReadOpenZones
    <3>2. zone_id \in Zones /\ zone_id' = zone_id
      BY <3>1, CurrentMessage DEF Busy, Decided, unit, zone_id
    <3>3. cur'.previous = open_zones(zone_id)
      BY <3>1 DEF TypeOK, Locals
    <3>4. open_zones(zone_id).state # NoState => zones[zone_id].state # NoState
      BY DEF open_zones, NoPrevious, Open, OpenStates, NoState
    <3> QED
      BY <1>2, <3>1, <3>2, <3>3, <3>4 DEF Delayed, Runs
  <2>2. CASE WriteAudit
    <3>1. /\ pc = "audit" /\ pc' = "publish" /\ UNCHANGED <<body, batch>>
      BY <2>2 DEF WriteAudit
    <3>2. zone_id \in Zones /\ zone_id' = zone_id
      BY <3>1, CurrentMessage DEF Busy, Decided, unit, zone_id
    <3> QED
      BY <1>2, <3>1, <3>2 DEF Delayed, Runs
  <2>3. CASE pc' \notin {"upsert", "audit", "publish"}
    BY <2>3
  <2>4. CASE UNCHANGED <<pc, batch, cur, body>>
    <3>1. zone_id' = zone_id
      BY <2>4 DEF zone_id, unit
    <3>2. CASE pc \in Busy
      BY <2>4, <3>1, <3>2, <1>2, CurrentMessage DEF Delayed, Runs
    <3>3. CASE pc \notin Busy
      BY <2>4, <3>3 DEF Busy, Decided
    <3> QED
      BY <3>2, <3>3
  <2> QED
    BY <2>1, <2>2, <2>3, <2>4
    DEF Environment, Detect, Expire, DeadLetter, DeliverAgain, Age, Receive,
        Publish, RecordAdvisory, DeleteMessage, NextMessage,
        HandlerFails, AfterRaise, SweepRead, SweepFails, Process, Crash, Restart, consumer, vars
<1> QED
  BY <1>3, <1>4, <1>5 DEF Delayed

\* The sweeper moves only zones that were upserted before.
LEMMA SweepSetDelays ==
    ASSUME TypeOK, Handling, Delayed, NEW row \in stale, SweepSet(row)
    PROVE  Delayed'
<1>1. row.zone \in Zones /\ Runs(row.zone) # 0
  BY DEF TypeOK, Delayed
<1>2. \A z \in Zones : Runs(z)' = Runs(z)
  <2>1. CASE history' = history
    BY <2>1 DEF Runs
  <2>2. CASE history' = [history EXCEPT !.zone[row.zone].moved = TRUE]
    <3>1. history'.zone = [history.zone EXCEPT ![row.zone] =
                              [history.zone[row.zone] EXCEPT !.moved = TRUE]]
      BY <2>2 DEF TypeOK
    <3>2. history.zone[row.zone] \in Memory
      BY <1>1 DEF TypeOK
    <3> QED
      BY <1>1, <3>1, <3>2 DEF TypeOK, Memory, Runs
  <2> QED
    BY <2>1, <2>2 DEF SweepSet
<1>3. \A z \in Zones : z # row.zone => zones'[z] = zones[z]
  BY <1>1 DEF SweepSet, set_zone_state, TypeOK
<1>4. \A z \in Zones : zones'[z].state # NoState => Runs(z)' # 0
  BY <1>1, <1>2, <1>3 DEF Delayed
<1>5. \A r \in stale' : Runs(r.zone)' # 0
  BY <1>2 DEF SweepSet, Delayed, TypeOK
<1>6. UNCHANGED <<pc, batch, cur, body>> /\ zone_id' = zone_id
  BY DEF SweepSet, consumer, zone_id, unit
<1>7. pc \in Busy => Runs(zone_id)' = Runs(zone_id)
  BY <1>2, <1>6, CurrentMessage DEF Runs
<1> QED
  BY <1>4, <1>5, <1>6, <1>7 DEF Delayed, Busy, Decided

\* No zone notifies before a second delivery has upserted it.
THEOREM DelayHolds == Spec => FormingDelay
<1>1. Init => Delayed
  BY InitDelayed
<1>2. TypeOK /\ Handling /\ Delayed /\ [Next]_vars => Delayed'
  BY UpsertDelays, OtherDelays, SweepSetDelays DEF Next, Consumer, Sweeper
<1>3. TypeOK /\ Handling /\ Delayed /\ [Next]_vars
         => [Len(sns') > Len(sns) =>
                history.zone[sns'[Len(sns')].zone].runs = 2]_vars
  <2> SUFFICES ASSUME TypeOK, Handling, Delayed, Next, Len(sns') > Len(sns)
               PROVE  history.zone[sns'[Len(sns')].zone].runs = 2
    OBVIOUS
  <2>1. Len(sns) \in Nat
    BY DEF TypeOK
  <2>2. Publish
    <3> SUFFICES ASSUME sns' # sns PROVE Publish
      BY <2>1
    <3> QED
      BY DEF Next, Environment, Detect, Expire, DeadLetter, DeliverAgain, Age,
             Consumer, Receive, ReadOpenZones, UpsertZone, WriteAudit,
             RecordAdvisory, DeleteMessage, HandlerFails, AfterRaise, Sweeper, SweepRead,
             SweepSet, SweepFails, Process, Crash, Restart
  <2>3. sns'[Len(sns')].zone = zone_id
    <3> DEFINE n == [unit |-> unit, zone |-> zone_id, level |-> cur.level,
                     key |-> cur.key]
    <3>1. n \in Notification
      BY <2>2, CurrentMessage
      DEF Publish, Notification, Handling, Busy, Decided, TypeOK, Locals
    <3>2. sns' = Append(sns, n)
      BY <2>2 DEF Publish
    <3>3. sns'[Len(sns')] = n
      <4> HIDE DEF n
      <4> QED
        BY <3>1, <3>2, AppendProperties DEF TypeOK
    <3> QED
      BY <3>3
  <2> QED
    BY <2>2, <2>3 DEF Publish, Delayed, Runs
<1> QED
  BY <1>1, <1>2, <1>3, TypeCorrect, PTL DEF Spec, FormingDelay

-----------------------------------------------------------------------------
(* Escalation: suppression never hides a level *)

\* handle() suppresses against the level of the latest advisory, and leaves
\* only when that level is the one it decided.
Graded ==
    cur.state = "active" =>
        /\ pc = "upsert" => cur.previous.last_level = last_level(zone_id)
        /\ pc = "delete" => cur.level = last_level(zone_id)

\* An advisory row, once inserted, is the latest of its zone.
LEMMA LastLevelAppend ==
    ASSUME advisories \in Seq(AdvisoryRow), NEW row \in AdvisoryRow,
           advisories' = Append(advisories, row)
    PROVE  last_level(row.zone)' = row.level
<1> DEFINE n == Len(advisories)'
           S == {i \in DOMAIN advisories' : advisories'[i].zone = row.zone}
<1>1. /\ n \in Nat
      /\ DOMAIN advisories' = 1..n
      /\ advisories'[n] = row
      /\ n >= 1
  BY AppendProperties
<1>2. n \in S /\ \A j \in S : n >= j
  BY <1>1
<1>3. \A i \in S : (\A j \in S : i >= j) => i = n
  BY <1>1, <1>2
<1>4. (CHOOSE i \in S : \A j \in S : i >= j) = n
  <2> HIDE DEF S, n
  <2>1. \E i \in S : \A j \in S : i >= j
    BY <1>2
  <2> QED
    BY <1>3, <2>1
<1>5. RowsOf(row.zone)' = S
  BY DEF RowsOf
<1> QED
  BY <1>1, <1>2, <1>4, <1>5 DEF last_level

\* Every step keeps what EscalationHolds rests on.
LEMMA GradedStep ==
    ASSUME TypeOK, Handling, Graded, [Next]_vars
    PROVE  Graded'
<1>1. CASE ReadOpenZones
  <2>1. /\ pc = "read" /\ pc' = "upsert" /\ UNCHANGED <<body, batch, advisories>>
        /\ cur' = [cur EXCEPT !.previous = open_zones(zone_id),
                              !.state = next_state(open_zones(zone_id).state),
                              !.level = Level(body[unit])]
    BY <1>1 DEF ReadOpenZones
  <2>2. /\ cur'.previous = open_zones(zone_id)
        /\ cur'.state = next_state(open_zones(zone_id).state)
    BY <2>1 DEF TypeOK, Locals
  <2>3. last_level(zone_id)' = last_level(zone_id)
    BY <2>1 DEF last_level, RowsOf, zone_id, unit
  <2>4. cur'.state = "active" => cur'.previous.last_level = last_level(zone_id)
    BY <2>2 DEF open_zones, next_state, NoPrevious
  <2> QED
    BY <2>1, <2>3, <2>4 DEF Graded
<1>2. CASE UpsertZone
  <2>1. /\ pc = "upsert" /\ pc' = AfterUpsert
        /\ UNCHANGED <<body, batch, advisories, cur>>
    BY <1>2 DEF UpsertZone
  <2>2. last_level(zone_id)' = last_level(zone_id)
    BY <2>1 DEF last_level, RowsOf, zone_id, unit
  <2>3. pc' = "delete" /\ cur.state = "active" => cur.level = cur.previous.last_level
    BY <2>1 DEF AfterUpsert, Notifies, should_notify
  <2> QED
    BY <2>1, <2>2, <2>3 DEF Graded, AfterUpsert
<1>3. CASE RecordAdvisory
  <2>1. /\ pc = "record" /\ UNCHANGED <<body, batch, cur>>
        /\ advisories' = Append(advisories, advisory_row)
        /\ pc' = "delete"
    BY <1>3 DEF RecordAdvisory
  <2>2. advisory_row \in AdvisoryRow
    BY <2>1, CurrentMessage
    DEF advisory_row, AdvisoryRow, Handling, Busy, Decided, TypeOK, Locals
  <2>3. PICK row \in AdvisoryRow : row = advisory_row
    BY <2>2
  <2>4. last_level(row.zone)' = row.level
    BY <2>1, <2>3, LastLevelAppend DEF TypeOK
  <2>5. row.zone = zone_id' /\ row.level = cur.level
    BY <2>1, <2>3 DEF advisory_row, zone_id, unit
  <2> QED
    BY <2>1, <2>4, <2>5 DEF Graded
<1>4. CASE Environment \/ Sweeper \/ UNCHANGED vars
  <2>1. UNCHANGED <<advisories, pc, batch, cur, body>>
    BY <1>4 DEF Environment, Detect, Expire, DeadLetter, DeliverAgain, Age,
                Sweeper, SweepRead, SweepSet, SweepFails, table, consumer, vars
  <2> QED
    BY <2>1 DEF Graded, last_level, RowsOf, zone_id, unit
<1>5. CASE Receive \/ WriteAudit \/ Publish \/ DeleteMessage \/ HandlerFails
           \/ Process
  <2>1. pc' \notin {"upsert", "delete"}
    BY <1>5 DEF Receive, WriteAudit, Publish, DeleteMessage, HandlerFails, AfterRaise,
                NextMessage, Process, Crash, Restart
  <2> QED
    BY <2>1 DEF Graded
<1> QED
  BY <1>1, <1>2, <1>3, <1>4, <1>5 DEF Next, Consumer

\* When a message of an active zone is deleted, the zone's latest advisory is
\* at the level of that message.
THEOREM EscalationHolds == Spec => LatestAdvisoryIsGraded
<1>1. Init => Graded
  BY DEF Init, Graded, Unlocked, NoState
<1>2. TypeOK /\ Handling /\ Graded /\ [Next]_vars => Graded'
  BY GradedStep
<1>3. TypeOK /\ Handling /\ Graded /\ [Next]_vars
         => [\A u \in Units :
                /\ queue[u].at = "inflight"
                /\ queue'[u].at = "deleted"
                /\ cur.state = "active"
                => last_level(body[u].zone) = Level(body[u])]_vars
  <2> SUFFICES ASSUME TypeOK, Handling, Graded, Next, NEW u \in Units,
                      queue[u].at = "inflight", queue'[u].at = "deleted",
                      cur.state = "active"
               PROVE  last_level(body[u].zone) = Level(body[u])
    OBVIOUS
  <2>1. DeleteMessage /\ u = unit
    <3>1. CASE Receive
      BY <3>1 DEF Receive, Received
    <3>2. CASE \E x \in Units : Detect(x) \/ Expire(x) \/ DeadLetter(x)
                                   \/ DeliverAgain(x)
      <4>1. PICK x \in Units, place \in {"visible", "dead"} :
               queue' = [queue EXCEPT ![x].at = place]
        BY <3>2 DEF Detect, Expire, DeadLetter, DeliverAgain, Sent, TimedOut,
                    Redriven, Resurfaced
      <4>2. queue[u] \in Message
        BY DEF TypeOK
      <4> QED
        BY <4>1, <4>2 DEF TypeOK, Message
    <3>3. CASE DeleteMessage
      <4>1. queue' = [queue EXCEPT ![unit].at = "deleted"]
        BY <3>3 DEF DeleteMessage, Deleted
      <4>2. unit \in Units
        BY <3>3, CurrentMessage DEF DeleteMessage, Busy, Decided
      <4> QED
        BY <3>3, <4>1, <4>2 DEF TypeOK
    <3>4. CASE queue' = queue
      BY <3>4
    <3> QED
      BY <3>1, <3>2, <3>3, <3>4
      DEF Next, Environment, Age, Consumer, ReadOpenZones, UpsertZone,
          WriteAudit, Publish, RecordAdvisory, HandlerFails, AfterRaise, Sweeper, SweepRead,
          SweepSet, SweepFails, Process, Crash, Restart
  <2> QED
    BY <2>1 DEF DeleteMessage, Graded, Handling, Decided, zone_id
<1> QED
  BY <1>1, <1>2, <1>3, TypeCorrect, PTL DEF Spec, LatestAdvisoryIsGraded

-----------------------------------------------------------------------------
(* Suppression: an advisory says something new *)

Moved(z) == history.zone[z].moved

\* Until the upsert, what handle() read of an active zone still stands or the
\* sweeper moved the zone; after it, an advisory at the level of the last one
\* is owed to a change.
Changed ==
    /\ pc = "upsert" /\ cur.state = "active" =>
          \/ Moved(zone_id) = TRUE
          \/ /\ zones[zone_id].state = cur.previous.state
             /\ zones[zone_id].under_alert = cur.previous.under_alert
    /\ pc \in {"audit", "publish", "record"} /\ last_level(zone_id) = cur.level
          => Moved(zone_id) = TRUE

\* What was just read still stands.
LEMMA ReadChanges ==
    ASSUME TypeOK, Handling, ReadOpenZones
    PROVE  Changed'
<1>1. /\ pc = "read" /\ pc' = "upsert" /\ UNCHANGED <<body, batch, zones>>
      /\ cur' = [cur EXCEPT !.previous = open_zones(zone_id),
                            !.state = next_state(open_zones(zone_id).state),
                            !.level = Level(body[unit])]
  BY DEF ReadOpenZones
<1>2. /\ cur'.previous = open_zones(zone_id)
      /\ cur'.state = next_state(open_zones(zone_id).state)
      /\ zone_id' = zone_id
  BY <1>1 DEF TypeOK, Locals, zone_id, unit
<1>3. cur'.state = "active" => Open(zone_id)
  BY <1>2 DEF open_zones, next_state, NoPrevious
<1>4. Open(zone_id) => /\ zones[zone_id].state = cur'.previous.state
                       /\ zones[zone_id].under_alert = cur'.previous.under_alert
  BY <1>2 DEF open_zones
<1> QED
  BY <1>1, <1>2, <1>3, <1>4 DEF Changed

\* handle() goes on to an advisory for a change of state, which Changed knows
\* of, a change of corroboration, or another level.
LEMMA UpsertChanges ==
    ASSUME TypeOK, Handling, Graded, Changed, UpsertZone
    PROVE  Changed'
<1> DEFINE changed == \/ zones[zone_id].state # cur.state
                      \/ zones[zone_id].under_alert # body[unit].under_alert
<1>1. /\ pc = "upsert" /\ pc' = AfterUpsert
      /\ UNCHANGED <<body, batch, advisories, cur>>
      /\ zone_id' = zone_id
  BY DEF UpsertZone, zone_id, unit
<1>2. last_level(zone_id)' = last_level(zone_id)
  BY <1>1 DEF last_level, RowsOf
<1>3. zone_id \in Zones /\ history.zone[zone_id] \in Memory
  BY <1>1, CurrentMessage DEF TypeOK, Busy, Decided
<1>4. history.zone[zone_id].moved = TRUE \/ changed => Moved(zone_id)' = TRUE
  <2> DEFINE old == history.zone[zone_id]
             forming == cur.state = "forming"
             new == [units |-> {unit} \cup (IF forming THEN {} ELSE old.units),
                     runs  |-> IF forming \/ old.runs = 0 THEN 1 ELSE 2,
                     moved |-> \/ old.moved
                               \/ zones[zone_id].state # cur.state
                               \/ zones[zone_id].under_alert
                                     # body[unit].under_alert]
  <2>1. history'.zone = [history.zone EXCEPT ![zone_id] = new]
    BY DEF UpsertZone
  <2>2. old.moved = TRUE \/ changed => new.moved = TRUE
    OBVIOUS
  <2> HIDE DEF new, changed, old
  <2>3. history'.zone[zone_id] = new
    BY <1>3, <2>1 DEF TypeOK
  <2> QED
    BY <1>1, <2>2, <2>3 DEF Moved, old
<1>5. ASSUME Notifies, last_level(zone_id) = cur.level
      PROVE  history.zone[zone_id].moved = TRUE \/ changed
  <2>1. cur.state = "active" /\ cur.previous.state # NoState
    BY <1>1, <1>5 DEF Notifies, should_notify, Handling, Decided, next_state
  <2>2. \/ cur.previous.state # cur.state
        \/ cur.previous.under_alert # body[unit].under_alert
    BY <1>1, <1>5, <2>1 DEF Notifies, should_notify, Graded
  <2> QED
    BY <1>1, <2>1, <2>2 DEF Changed, Moved
<1> HIDE DEF changed
<1> QED
  BY <1>1, <1>2, <1>4, <1>5 DEF Changed, AfterUpsert

\* The sweeper marks a zone that it moves.
LEMMA SweepSetChanges ==
    ASSUME TypeOK, Handling, Changed, NEW row \in stale, SweepSet(row)
    PROVE  Changed'
<1>1. UNCHANGED <<pc, batch, cur, body, advisories>> /\ row.zone \in Zones /\ zone_id' = zone_id
  BY DEF SweepSet, consumer, TypeOK, zone_id, unit
<1>2. last_level(zone_id)' = last_level(zone_id)
  BY <1>1 DEF last_level, RowsOf
<1>3. CASE UNCHANGED <<zones, history>>
  BY <1>1, <1>2, <1>3 DEF Changed, Moved
<1>4. CASE /\ zones' = set_zone_state(row.zone, sweep_state(row.state))
           /\ history' = [history EXCEPT !.zone[row.zone].moved = TRUE]
  <2>1. history'.zone = [history.zone EXCEPT ![row.zone] =
                            [history.zone[row.zone] EXCEPT !.moved = TRUE]]
    BY <1>4 DEF TypeOK
  <2>2. \A z \in Zones : Moved(z)' = IF z = row.zone THEN TRUE ELSE Moved(z)
    <3>1. history.zone \in [Zones -> Memory]
      BY DEF TypeOK
    <3>2. history'.zone[row.zone] = [history.zone[row.zone] EXCEPT !.moved = TRUE]
      BY <1>1, <2>1, <3>1
    <3>3. \A z \in Zones \ {row.zone} : history'.zone[z] = history.zone[z]
      BY <2>1, <3>1
    <3>4. Moved(row.zone)' = TRUE
      BY <1>1, <3>1, <3>2 DEF Memory, Moved
    <3> QED
      BY <3>3, <3>4 DEF Moved
  <2>3. \A z \in Zones : z # row.zone => zones'[z] = zones[z]
    BY <1>1, <1>4 DEF set_zone_state, TypeOK
  <2>4. pc \in Busy => zone_id \in Zones
    BY CurrentMessage
  <2>5. CASE pc \in Busy /\ zone_id = row.zone
    BY <1>1, <2>2, <2>4, <2>5 DEF Changed, Moved
  <2>6. CASE pc \in Busy /\ zone_id # row.zone
    <3>1. zones'[zone_id] = zones[zone_id] /\ Moved(zone_id)' = Moved(zone_id)
      BY <1>1, <2>2, <2>3, <2>4, <2>6 DEF Moved
    <3> QED
      BY <1>1, <1>2, <3>1 DEF Changed
  <2>7. CASE pc \notin Busy
    BY <1>1, <2>7 DEF Changed, Busy, Decided
  <2> QED
    BY <2>5, <2>6, <2>7
<1> QED
  BY <1>3, <1>4 DEF SweepSet

\* A row that ages keeps its state and its corroboration.
LEMMA AgeChanges ==
    ASSUME TypeOK, Handling, Changed, NEW z \in Zones, Age(z)
    PROVE  Changed'
<1>1. /\ UNCHANGED <<pc, batch, cur, body, advisories, history>> /\ zone_id' = zone_id
      /\ zones' = [zones EXCEPT ![z] = [zones[z] EXCEPT !.fresh = FALSE]]
  BY DEF Age, zone_id, unit
<1>2. last_level(zone_id)' = last_level(zone_id) /\ Moved(zone_id)' = Moved(zone_id)
  BY <1>1 DEF last_level, RowsOf, Moved
<1>3. \A y \in Zones : /\ zones'[y].state = zones[y].state
                       /\ zones'[y].under_alert = zones[y].under_alert
  BY <1>1 DEF TypeOK, Row
<1>4. CASE pc \in Busy
  BY <1>1, <1>2, <1>3, <1>4, CurrentMessage DEF Changed
<1>5. CASE pc \notin Busy
  BY <1>1, <1>5 DEF Changed, Busy, Decided
<1> QED
  BY <1>4, <1>5

\* Every step keeps what RepeatHolds rests on; the sweeper marks what it moves.
LEMMA ChangedStep ==
    ASSUME TypeOK, Handling, Graded, Changed, [Next]_vars
    PROVE  Changed'
<1>1. CASE WriteAudit \/ Publish
  <2>1. /\ pc \in {"audit", "publish"} /\ pc' \in {"publish", "record"}
        /\ UNCHANGED <<body, batch, advisories>>
        /\ cur'.level = cur.level /\ history'.zone = history.zone
    BY <1>1 DEF WriteAudit, Publish, TypeOK, Locals
  <2>2. zone_id' = zone_id
    BY <2>1 DEF zone_id, unit
  <2>3. last_level(zone_id)' = last_level(zone_id) /\ Moved(zone_id)' = Moved(zone_id)
    BY <2>1, <2>2 DEF last_level, RowsOf, Moved
  <2> QED
    BY <2>1, <2>2, <2>3 DEF Changed
<1>2. CASE Receive \/ RecordAdvisory \/ DeleteMessage \/ HandlerFails \/ Process
  <2>1. pc' \notin {"upsert", "audit", "publish", "record"}
    BY <1>2 DEF Receive, RecordAdvisory, DeleteMessage, HandlerFails, AfterRaise, NextMessage,
         Process, Crash, Restart
  <2> QED
    BY <2>1 DEF Changed
<1>3. CASE \/ \E u \in Units : Detect(u) \/ Expire(u) \/ DeadLetter(u) \/ DeliverAgain(u)
           \/ SweepRead \/ SweepFails \/ UNCHANGED vars
  <2>1. UNCHANGED <<zones, advisories, pc, batch, cur, body, history>>
    BY <1>3 DEF Detect, Expire, DeadLetter, DeliverAgain, SweepRead, SweepFails, table,
         consumer, vars
  <2> QED
    BY <2>1 DEF Changed, Moved, last_level, RowsOf, zone_id, unit
<1> QED
  BY <1>1, <1>2, <1>3, ReadChanges, UpsertChanges, SweepSetChanges, AgeChanges
     DEF Next, Environment, Consumer, Sweeper

\* No advisory repeats the zone's last one unless its state or corroboration
\* changed in between, whatever the sweeper does while handle() runs.
THEOREM RepeatHolds == Spec => NoRepeatedAdvisory
<1> DEFINE NoRepeat ==
        Len(advisories') > Len(advisories) =>
          LET new == advisories'[Len(advisories')]
          IN  last_level(new.zone) = new.level => history.zone[new.zone].moved
<1>1. Init => Graded /\ Changed
  BY DEF Init, Graded, Changed, Unlocked, NoState
<1>2. TypeOK /\ Handling /\ Graded /\ Changed /\ [Next]_vars => Graded' /\ Changed'
  BY GradedStep, ChangedStep
<1>3. TypeOK /\ Handling /\ Graded /\ Changed /\ [Next]_vars => [NoRepeat]_vars
  <2> SUFFICES ASSUME TypeOK, Handling, Changed, Next, Len(advisories') > Len(advisories)
               PROVE  NoRepeat
    OBVIOUS
  <2>1. Len(advisories) \in Nat
    BY DEF TypeOK
  <2>2. RecordAdvisory
    <3> SUFFICES ASSUME advisories' # advisories PROVE RecordAdvisory
      BY <2>1
    <3> QED
      BY DEF Next, Environment, Detect, Expire, DeadLetter, DeliverAgain, Age,
             Consumer, Receive, ReadOpenZones, UpsertZone, WriteAudit, Publish,
             DeleteMessage, HandlerFails, AfterRaise, Sweeper, SweepRead,
             SweepSet, SweepFails, Process, Crash, Restart, table
  <2>3. PICK row \in AdvisoryRow : row = advisory_row
    BY <2>2, CurrentMessage
    DEF RecordAdvisory, advisory_row, AdvisoryRow, Handling, Busy, Decided, TypeOK, Locals
  <2>4. advisories'[Len(advisories')] = row
    BY <2>2, <2>3, AppendProperties DEF RecordAdvisory, TypeOK
  <2>5. row.zone = zone_id /\ row.level = cur.level
    BY <2>3 DEF advisory_row
  <2> QED
    BY <2>2, <2>4, <2>5 DEF Changed, Moved, RecordAdvisory
<1> QED
  BY <1>1, <1>2, <1>3, TypeCorrect, PTL DEF Spec, NoRepeatedAdvisory
=============================================================================

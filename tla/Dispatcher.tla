----------------------------- MODULE Dispatcher -----------------------------
(***************************************************************************)
(* The dispatcher process (workers/dispatcher.py) on top of the SQS worker *)
(* loop of curbline/aws.py and the zones and advisories tables of          *)
(* curbline/db.py.                                                         *)
(*                                                                         *)
(* Two threads share the database: the consumer takes candidate zones from *)
(* the zones queue and runs handle() on each, one statement per step, and  *)
(* the sweeper retires zones that were not republished.  Any statement may *)
(* fail, the process may die between two statements, and the queue         *)
(* delivers at least once.                                                 *)
(*                                                                         *)
(* Time is abstracted: a zone row is fresh until Age lets                  *)
(* ZONE_STALE_MINUTES pass without an upsert.                              *)
(***************************************************************************)
EXTENDS AdvisoryLadder, SqsQueue, Sequences, FiniteSets

CONSTANTS
    Zones,          \* zone identities (stable_zone_id of the member sensors)
    Bodies,         \* zone messages the correlator can send
    BATCH,          \* MaxNumberOfMessages of one receive (10 in the code)
    MAX_CRASHES,    \* bound: process deaths
    MAX_OUTAGES,    \* bound: failing sweeps
    MAX_DUPLICATES  \* bound: deleted messages that SQS delivers again

ASSUME DispatcherAssumption ==
    /\ \A b \in Bodies : /\ b.zone \in Zones
                         /\ b.max_depth_cm \in Nat
                         /\ b.sensor_count \in Nat
                         /\ b.under_alert \in BOOLEAN
    /\ BATCH \in Nat \ {0}
    /\ MAX_CRASHES \in Nat
    /\ MAX_OUTAGES \in Nat
    /\ MAX_DUPLICATES \in Nat

VARIABLES
    queue,      \* the zones queue (SqsQueue)
    body,       \* body[u]: the zone message unit u carries
    zones,      \* the zones table: state, under_alert, freshness of updated_at
    audit,      \* the S3 audit bucket, in order of writing; a key is an index
    sns,        \* the notifications SNS accepted; a message id is an index
    advisories, \* the advisories table, in order of issued_at
    pc,         \* the statement the consumer is about to run
    batch,      \* the received messages not handled yet, the current one first
    cur,        \* the locals of handle(): previous, state, level, key, sns id
    sweeper,    \* "sleep", or "sweep" while sweep_zones() is in its loop
    stale,      \* the rows sweep_zones() read and has not updated yet
    env,        \* how much of each environment bound is used up
    history     \* what the properties remember; no action depends on it

table == <<zones, advisories>>
consumer == <<pc, batch, cur>>
sweep == <<sweeper, stale>>
vars == <<queue, body, zones, audit, sns, advisories, pc, batch, cur,
          sweeper, stale, env, history>>

-----------------------------------------------------------------------------
(* Types *)

ZoneStates == OpenStates \cup {NoState, "closed"}

Row == [state : ZoneStates, under_alert : BOOLEAN, fresh : BOOLEAN]

Previous == [state : OpenStates \cup {NoState},
             last_level : Levels \cup {NoLevel},
             under_alert : BOOLEAN]

Locals == [previous : Previous, state : {NoState, "forming", "active"},
           level : Levels \cup {NoLevel}, key : Nat, sns : Nat]

\* What the audit record says of the decision it explains.
Evidence == [unit : Units, zone : Zones, level : Levels]

Notification == [unit : Units, zone : Zones, level : Levels, key : Nat]

AdvisoryRow == [zone : Zones, level : Levels, key : Nat, sns : Nat]

ConsumerSteps == {"down", "receive", "read", "upsert", "audit", "publish",
                  "record", "delete"}

\* units and runs: the distinct messages and the upserts a zone has seen
\* since it last entered forming; moved: its state or corroboration changed
\* since its last recorded advisory.
Memory == [units : SUBSET Units, runs : 0..2, moved : BOOLEAN]

TypeOK ==
    /\ queue \in [Units -> Message]
    /\ body \in [Units -> Bodies]
    /\ zones \in [Zones -> Row]
    /\ audit \in Seq(Evidence)
    /\ sns \in Seq(Notification)
    /\ advisories \in Seq(AdvisoryRow)
    /\ pc \in ConsumerSteps
    /\ batch \in Seq(Units)
    /\ cur \in Locals
    /\ sweeper \in {"sleep", "sweep"}
    /\ stale \subseteq [zone : Zones, state : OpenStates]
    /\ env \in [crashes : 0..MAX_CRASHES, outages : 0..MAX_OUTAGES,
                duplicates : 0..MAX_DUPLICATES]
    /\ history \in [zone : [Zones -> Memory], owed : SUBSET Units]

-----------------------------------------------------------------------------
(* Helpers *)

Open(z) == zones[z].state \in OpenStates

\* open_zones(): the level of the zone's latest advisory, of any flood.
RowsOf(z) == {i \in DOMAIN advisories : advisories[i].zone = z}

last_level(z) ==
    IF RowsOf(z) = {} THEN NoLevel
    ELSE advisories[CHOOSE i \in RowsOf(z) : \A j \in RowsOf(z) : i >= j].level

NoPrevious == [state |-> NoState, last_level |-> NoLevel, under_alert |-> FALSE]

\* The row open_zones() holds for a zone; a closed zone is not among them.
open_zones(z) ==
    IF Open(z) THEN [state |-> zones[z].state, last_level |-> last_level(z),
                     under_alert |-> zones[z].under_alert]
    ELSE NoPrevious

\* INSERT ... ON CONFLICT DO UPDATE with updated_at = now().
upsert_zone(z, state, under_alert) ==
    [zones EXCEPT ![z] = [state |-> state, under_alert |-> under_alert,
                          fresh |-> TRUE]]

stale_open_zones ==
    {[zone |-> z, state |-> zones[z].state] :
        z \in {y \in Zones : Open(y) /\ ~zones[y].fresh}}

\* UPDATE ... WHERE zone_id: updated_at is not touched, the state that is
\* overwritten is not looked at.
set_zone_state(z, state) == [zones EXCEPT ![z].state = state]

Unlocked == [previous |-> NoPrevious, state |-> NoState, level |-> NoLevel,
             key |-> 0, sns |-> 0]

unit == Head(batch)
zone_id == body[unit].zone
Level(b) == decide_level(b.max_depth_cm, b.sensor_count, b.under_alert)

Notifies == should_notify(cur.previous, cur.state, cur.level,
                          body[unit].under_alert)

\* The consumer leaves the current message, handled or not, for the next one.
NextMessage ==
    /\ batch' = Tail(batch)
    /\ pc' = IF Tail(batch) = <<>> THEN "receive" ELSE "read"
    /\ cur' = Unlocked

-----------------------------------------------------------------------------
Init ==
    /\ queue = EmptyQueue
    /\ body \in [Units -> Bodies]
    /\ zones = [z \in Zones |-> [state |-> NoState, under_alert |-> FALSE,
                                 fresh |-> FALSE]]
    /\ audit = <<>>
    /\ sns = <<>>
    /\ advisories = <<>>
    /\ pc = "receive"
    /\ batch = <<>>
    /\ cur = Unlocked
    /\ sweeper = "sleep"
    /\ stale = {}
    /\ env = [crashes |-> 0, outages |-> 0, duplicates |-> 0]
    /\ history = [zone |-> [z \in Zones |->
                               [units |-> {}, runs |-> 0, moved |-> FALSE]],
                  owed |-> {}]

-----------------------------------------------------------------------------
(* The zones queue and the clock: what the dispatcher does not control *)

\* The correlator publishes a candidate zone.
Detect(u) ==
    /\ queue[u].at = "unsent"
    /\ queue' = Sent(queue, u)
    /\ UNCHANGED <<body, zones, audit, sns, advisories, pc, batch, cur,
                   sweeper, stale, env, history>>

\* The visibility timeout of a message nobody holds any more expires.  While
\* the only consumer holds a message its expiry cannot be observed.
Expire(u) ==
    /\ queue[u].at = "inflight"
    /\ \A i \in DOMAIN batch : batch[i] # u
    /\ queue' = TimedOut(queue, u)
    /\ UNCHANGED <<body, zones, audit, sns, advisories, pc, batch, cur,
                   sweeper, stale, env, history>>

DeadLetter(u) ==
    /\ queue[u].at = "visible"
    /\ Exhausted(queue, u)
    /\ queue' = Redriven(queue, u)
    /\ UNCHANGED <<body, zones, audit, sns, advisories, pc, batch, cur,
                   sweeper, stale, env, history>>

DeliverAgain(u) ==
    /\ queue[u].at = "deleted"
    /\ env.duplicates < MAX_DUPLICATES
    /\ queue' = Resurfaced(queue, u)
    /\ env' = [env EXCEPT !.duplicates = @ + 1]
    /\ UNCHANGED <<body, zones, audit, sns, advisories, pc, batch, cur,
                   sweeper, stale, history>>

\* ZONE_STALE_MINUTES go by without an upsert of an open zone.
Age(z) ==
    /\ Open(z)
    /\ zones[z].fresh
    /\ zones' = [zones EXCEPT ![z].fresh = FALSE]
    /\ UNCHANGED <<queue, body, audit, sns, advisories, pc, batch, cur,
                   sweeper, stale, env, history>>

-----------------------------------------------------------------------------
(* The consumer thread: aws.consume() around handle() *)

Receive ==
    /\ pc = "receive"
    /\ \E n \in 1..BATCH : \E msgs \in [1..n -> Receivable(queue)] :
          /\ \A i, j \in 1..n : i # j => msgs[i] # msgs[j]
          /\ batch' = msgs
          /\ queue' = Received(queue, {msgs[i] : i \in 1..n})
    /\ pc' = "read"
    /\ UNCHANGED <<body, zones, audit, sns, advisories, cur, sweep, env,
                   history>>

\* open_zones() and the decisions taken from it alone.
ReadOpenZones ==
    /\ pc = "read"
    /\ cur' = [cur EXCEPT !.previous = open_zones(zone_id),
                          !.state = next_state(open_zones(zone_id).state),
                          !.level = Level(body[unit])]
    /\ pc' = "upsert"
    /\ UNCHANGED <<queue, body, zones, audit, sns, advisories, batch, sweep,
                   env, history>>

\* What handle() does once the zone row is written.  The mutants publish
\* before the audit record is written, and skip it.
AfterUpsert_unaudited == IF Notifies THEN "publish" ELSE "delete"
AfterUpsert == IF Notifies THEN "audit" ELSE "delete"

\* upsert_zone(), then the early returns for a forming and for an unchanged
\* zone.
UpsertZone ==
    /\ pc = "upsert"
    /\ zones' = upsert_zone(zone_id, cur.state, body[unit].under_alert)
    /\ pc' = AfterUpsert
    /\ history' =
          LET old == history.zone[zone_id]
              forming == cur.state = "forming"
          IN  [zone |-> [history.zone EXCEPT ![zone_id] =
                  [units |-> {unit} \cup (IF forming THEN {} ELSE old.units),
                   runs  |-> IF forming \/ old.runs = 0 THEN 1 ELSE 2,
                   moved |-> \/ old.moved
                             \/ zones[zone_id].state # cur.state
                             \/ zones[zone_id].under_alert
                                   # body[unit].under_alert]],
               owed |-> IF Notifies THEN history.owed \cup {unit}
                        ELSE history.owed]
    /\ UNCHANGED <<queue, body, audit, sns, advisories, batch, cur, sweep,
                   env>>

\* write_audit(): a fresh key on every attempt.
WriteAudit ==
    /\ pc = "audit"
    /\ audit' = Append(audit, [unit |-> unit, zone |-> zone_id,
                               level |-> cur.level])
    /\ cur' = [cur EXCEPT !.key = Len(audit')]
    /\ pc' = "publish"
    /\ UNCHANGED <<queue, body, zones, sns, advisories, batch, sweep, env,
                   history>>

Publish ==
    /\ pc = "publish"
    /\ sns' = Append(sns, [unit |-> unit, zone |-> zone_id,
                           level |-> cur.level, key |-> cur.key])
    /\ cur' = [cur EXCEPT !.sns = Len(sns')]
    /\ pc' = "record"
    /\ history' = [history EXCEPT !.owed = @ \ {unit}]
    /\ UNCHANGED <<queue, body, zones, audit, advisories, batch, sweep, env>>

\* The row record_advisory() inserts.  The mutant forgets the message id,
\* which the code allows to be None.
advisory_row_unlinked == [zone |-> zone_id, level |-> cur.level,
                          key |-> cur.key, sns |-> 0]
advisory_row == [zone |-> zone_id, level |-> cur.level,
                 key |-> cur.key, sns |-> cur.sns]

RecordAdvisory ==
    /\ pc = "record"
    /\ advisories' = Append(advisories, advisory_row)
    /\ pc' = "delete"
    /\ history' = [history EXCEPT !.zone[zone_id].moved = FALSE]
    /\ UNCHANGED <<queue, body, zones, audit, sns, batch, cur, sweep, env>>

\* handle() returned: delete_message, outside the try.
DeleteMessage ==
    /\ pc = "delete"
    /\ queue' = Deleted(queue, unit)
    /\ NextMessage
    /\ UNCHANGED <<body, zones, audit, sns, advisories, sweep, env, history>>

\* except: continue.  The mutant tries the same message again.
AfterRaise_again == batch' = batch /\ pc' = "read" /\ cur' = Unlocked
AfterRaise == NextMessage

\* handle() raised at any of its statements: the message stays in flight
\* until its visibility timeout, and the loop continues with the next one.
HandlerFails ==
    /\ pc \in {"read", "upsert", "audit", "publish", "record"}
    /\ AfterRaise
    /\ UNCHANGED <<queue, body, zones, audit, sns, advisories, sweep, env,
                   history>>

-----------------------------------------------------------------------------
(* The sweeper thread: aws.poll_loop() around sweep_zones() *)

\* stale_open_zones(), read once before the loop.
SweepRead ==
    /\ pc # "down"
    /\ sweeper = "sleep"
    /\ stale' = stale_open_zones
    /\ sweeper' = IF stale' = {} THEN "sleep" ELSE "sweep"
    /\ UNCHANGED <<queue, body, table, audit, sns, consumer, env, history>>

\* set_zone_state() for one row of the list, whatever the row says by now.
SweepSet(row) ==
    /\ sweeper = "sweep"
    /\ row \in stale
    /\ stale' = stale \ {row}
    /\ sweeper' = IF stale' = {} THEN "sleep" ELSE "sweep"
    /\ IF sweep_state(row.state) = NoState
       THEN UNCHANGED <<zones, history>>
       ELSE /\ zones' = set_zone_state(row.zone, sweep_state(row.state))
            /\ history' = [history EXCEPT !.zone[row.zone].moved = TRUE]
    /\ UNCHANGED <<queue, body, audit, sns, advisories, consumer, env>>

\* A statement of sweep_zones() raised: poll_loop() logs it and the rest of
\* the list is dropped.
SweepFails ==
    /\ sweeper = "sweep"
    /\ env.outages < MAX_OUTAGES
    /\ env' = [env EXCEPT !.outages = @ + 1]
    /\ sweeper' = "sleep"
    /\ stale' = {}
    /\ UNCHANGED <<queue, body, table, audit, sns, consumer, history>>

-----------------------------------------------------------------------------
(* The process: both threads die together and systemd starts them again *)

\* A kill, a reboot, an exception out of receive_message or delete_message,
\* or a SIGTERM between two batches.
Crash ==
    /\ pc # "down"
    /\ env.crashes < MAX_CRASHES
    /\ env' = [env EXCEPT !.crashes = @ + 1]
    /\ pc' = "down"
    /\ batch' = <<>>
    /\ cur' = Unlocked
    /\ sweeper' = "sleep"
    /\ stale' = {}
    /\ UNCHANGED <<queue, body, table, audit, sns, history>>

Restart ==
    /\ pc = "down"
    /\ pc' = "receive"
    /\ UNCHANGED <<queue, body, table, audit, sns, batch, cur, sweep, env,
                   history>>

-----------------------------------------------------------------------------
Environment ==
    \/ \E u \in Units : Detect(u) \/ Expire(u) \/ DeadLetter(u) \/ DeliverAgain(u)
    \/ \E z \in Zones : Age(z)

Consumer ==
    \/ Receive \/ ReadOpenZones \/ UpsertZone \/ WriteAudit \/ Publish
    \/ RecordAdvisory \/ DeleteMessage \/ HandlerFails

Sweeper == SweepRead \/ SweepFails \/ \E row \in stale : SweepSet(row)

Process == Crash \/ Restart

Next == Environment \/ Consumer \/ Sweeper \/ Process

Spec == Init /\ [][Next]_vars

(* Fairness.  The consumer thread runs its next statement (the statement    *)
(* completes or raises: both are steps of Consumer), the sweeper's timer    *)
(* fires, systemd restarts a dead process, visibility timeouts expire, SQS  *)
(* applies the redrive policy and time passes.  Nothing is assumed of       *)
(* success: a handler may fail on every attempt it is given.                *)
Fairness ==
    /\ WF_vars(Consumer)
    /\ WF_vars(Sweeper)
    /\ WF_vars(Restart)
    /\ \A u \in Units : WF_vars(Expire(u)) /\ WF_vars(DeadLetter(u))
    /\ \A z \in Zones : WF_vars(Age(z))

FairSpec == Spec /\ Fairness

-----------------------------------------------------------------------------
(* Properties *)

\* write_audit() before publish(): every notification cites an audit record
\* of the same decision (same message, zone and level) that existed when it
\* was accepted, over every retry, crash and redelivery (D-009).
AuditedBeforeNotified ==
    \A i \in DOMAIN sns :
        /\ sns[i].key \in DOMAIN audit
        /\ audit[sns[i].key] = [unit |-> sns[i].unit, zone |-> sns[i].zone,
                                level |-> sns[i].level]

\* The one-cycle delay of next_state(), as the code keeps it: a zone notifies
\* only once a second delivery has upserted it since it entered forming.
FormingDelay ==
    [][Len(sns') > Len(sns) =>
          history.zone[sns'[Len(sns')].zone].runs = 2]_vars

\* E-021: when handle() returns for a zone it holds active, the latest
\* advisory of the zone is at the level of the message, whether this delivery
\* sent it or suppressed it, and whatever failed before.
LatestAdvisoryIsGraded ==
    [][\A u \in Units :
          /\ queue[u].at = "inflight"
          /\ queue'[u].at = "deleted"
          /\ cur.state = "active"
          => last_level(body[u].zone) = Level(body[u])]_vars

\* No advisory is recorded twice for the same thing: a zone's next advisory
\* has another level, or the zone's state or corroboration changed since the
\* last one was recorded.
NoRepeatedAdvisory ==
    [][Len(advisories') > Len(advisories) =>
          LET new == advisories'[Len(advisories')]
          IN  last_level(new.zone) = new.level => history.zone[new.zone].moved
      ]_vars

\* The dispatcher implements the evidence ledger: the audit bucket, the
\* notifications SNS accepted and the advisories table are its three logs.
Ledger == INSTANCE EvidenceLedger
             WITH Decisions <- Evidence, evidence <- audit, notices <- sns,
                  records <- advisories

KeepsLedger == Ledger!Spec

\* Every message the correlator sent is eventually handled or dead-lettered,
\* even when every attempt fails.
EveryUnitSettles ==
    \A u \in Units :
        queue[u].at = "visible" ~> queue[u].at \in {"deleted", "dead"}

\* sweep_zones(): once no zone message arrives any more, every zone closes.
EveryZoneCloses == <>[](\A z \in Zones : ~Open(z))
-----------------------------------------------------------------------------
(* What the documents promise and the code does not keep *)

\* D-008: "A zone must survive a second cycle before it issues an advisory."
SecondCycleBeforeAdvisory ==
    [][Len(sns') > Len(sns) =>
          Cardinality(history.zone[sns'[Len(sns')].zone].units) >= 2]_vars

\* dispatcher.py: "If this raises, nothing is sent and the unit retries."  A
\* unit whose handling decided on an advisory is not deleted unless that
\* advisory was published.
OwedAdvisoryIsSent ==
    \A u \in history.owed : queue[u].at # "deleted"
=============================================================================

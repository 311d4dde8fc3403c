------------------------------ MODULE AlertFeed ------------------------------
(***************************************************************************)
(* The way of a flood alert from api.weather.gov to the map: poll_alerts() *)
(* of workers/collector.py sends what the feed lists to the ingest queue,  *)
(* again on every poll, the correlator's handle_alert() upserts the row,   *)
(* and alert_for_hull() of sql/schema.sql decides whether it applies.      *)
(* Alert messages are not claimed: whichever is handled last wins.         *)
(*                                                                         *)
(* One alert, which the feed lists in one version after another and then   *)
(* no longer.  A tick is a part of the 30 minutes for which an alert       *)
(* without expiry applies.                                                 *)
(***************************************************************************)
EXTENDS SqsQueue

CONSTANTS
    ISSUES,     \* bound: versions of the alert the feed may list
    Open,       \* the versions without an expiry
    LIFE,       \* ticks from the first listing of another version to its expiry
    WINDOW,     \* ticks in interval '30 minutes'
    MAX_ERRORS  \* bound: exceptions, in polls and in the handler, and redeliveries

AlertFeedAssumption ==
    /\ ISSUES \in Nat \ {0} /\ Open \subseteq 1..ISSUES
    /\ LIFE \in Nat \ {0} /\ WINDOW \in Nat \ {0} /\ MAX_ERRORS \in Nat

VARIABLES
    listed,     \* the version the feed lists, 0 before the first, Delisted
    left,       \* ticks until each version expires
    todo,       \* the features this poll has not come to
    ingest,     \* the ingest queue
    content,    \* the feature each message carries
    holding,    \* the message the correlator handles, or NoMessage
    step,       \* the statement the correlator is about to run
    row,        \* the row of the alerts table, or NoRow
    unseen,     \* ticks since updated_at, at most WINDOW
    errors

feed == <<listed, left>>
feedvars == <<feed, todo, ingest, content, holding, step, row, unseen, errors>>

-----------------------------------------------------------------------------
Versions == 1..ISSUES
NoMessage == "no message"
NoRow == 0
Delisted == ISSUES + 1

TypeOK ==
    /\ listed \in Versions \cup {0, Delisted}
    /\ left \in [Versions -> 0..LIFE]
    /\ todo \subseteq Versions
    /\ ingest \in [Units -> Message]
    /\ content \in [Units -> Versions]
    /\ holding \in Units \cup {NoMessage}
    /\ step \in {"receive", "upsert", "delete"}
    /\ row \in Versions \cup {NoRow}
    /\ unseen \in 0..WINDOW
    /\ errors \in 0..MAX_ERRORS

Init ==
    /\ listed = 0
    /\ left = [v \in Versions |-> LIFE]
    /\ todo = {}
    /\ ingest = EmptyQueue
    /\ content = [u \in Units |-> 1]
    /\ holding = NoMessage
    /\ step = "receive"
    /\ row = NoRow
    /\ unseen = WINDOW
    /\ errors = 0

-----------------------------------------------------------------------------
(* api.weather.gov and the clock *)

Issue ==
    /\ listed # Delisted
    /\ listed' \in {listed + 1, Delisted}
    /\ UNCHANGED <<left, todo, ingest, content, holding, step, row, unseen, errors>>

\* A version that has been issued comes closer to its expiry.
Tick ==
    /\ left' = [v \in Versions |-> IF v <= listed /\ left[v] > 0 THEN left[v] - 1 ELSE left[v]]
    /\ unseen' = IF unseen < WINDOW THEN unseen + 1 ELSE WINDOW
    /\ <<left', unseen'>> # <<left, unseen>>
    /\ UNCHANGED <<listed, todo, ingest, content, holding, step, row, errors>>

-----------------------------------------------------------------------------
(* poll_alerts() *)

\* Messages that are over make room for new ones.
Spare == {u \in Units : ingest[u].at \in {"unsent", "deleted", "dead"}}

\* The features of the response that are flood alerts and have an id (E-029).
Poll ==
    /\ todo = {}
    /\ todo' = {listed} \cap Versions
    /\ UNCHANGED <<feed, ingest, content, holding, step, row, unseen, errors>>

Publish(u) ==
    /\ u \in Spare
    /\ \E f \in todo :
          /\ content' = [content EXCEPT ![u] = f]
          /\ todo' = todo \ {f}
    /\ ingest' = [ingest EXCEPT ![u] = [at |-> "visible", receives |-> 0]]
    /\ UNCHANGED <<feed, holding, step, row, unseen, errors>>

\* The request or a send raises: logged by poll_loop(), the rest of the poll
\* is not sent.
PollFails ==
    /\ todo # {}
    /\ errors < MAX_ERRORS
    /\ errors' = errors + 1
    /\ todo' = {}
    /\ UNCHANGED <<feed, ingest, content, holding, step, row, unseen>>

-----------------------------------------------------------------------------
(* The correlator: consume() around handle_alert(), one message at a time *)

Receive(u) ==
    /\ step = "receive"
    /\ u \in Receivable(ingest)
    /\ ingest' = Received(ingest, {u})
    /\ holding' = u
    /\ step' = "upsert"
    /\ UNCHANGED <<feed, todo, content, row, unseen, errors>>

\* upsert_alert(): the row takes expiry, severity and polygon of this message,
\* whichever version it holds, and updated_at is now.  The mutants insert only,
\* and leave updated_at alone.
Upserted_insert(f) == IF row = NoRow THEN f ELSE row
Upserted(f) == f
Touched_once == IF row = NoRow THEN 0 ELSE unseen
Touched == 0

UpsertAlert ==
    /\ step = "upsert"
    /\ row' = Upserted(content[holding])
    /\ unseen' = Touched
    /\ step' = "delete"
    /\ UNCHANGED <<feed, todo, ingest, content, holding, errors>>

Delete ==
    /\ step = "delete"
    /\ ingest' = Deleted(ingest, holding)
    /\ holding' = NoMessage
    /\ step' = "receive"
    /\ UNCHANGED <<feed, todo, content, row, unseen, errors>>

\* A statement raises, or the process dies and is started again.
HandlerFails ==
    /\ step \in {"upsert", "delete"}
    /\ errors < MAX_ERRORS
    /\ errors' = errors + 1
    /\ holding' = NoMessage
    /\ step' = "receive"
    /\ UNCHANGED <<feed, todo, ingest, content, row, unseen>>

Expire(u) ==
    /\ ingest[u].at = "inflight"
    /\ u # holding
    /\ ingest' = TimedOut(ingest, u)
    /\ UNCHANGED <<feed, todo, content, holding, step, row, unseen, errors>>

\* At least once: SQS delivers a message once more that was deleted.
DeliverAgain(u) ==
    /\ ingest[u].at = "deleted"
    /\ errors < MAX_ERRORS
    /\ errors' = errors + 1
    /\ ingest' = Resurfaced(ingest, u)
    /\ UNCHANGED <<feed, todo, content, holding, step, row, unseen>>

DeadLetter(u) ==
    /\ ingest[u].at = "visible"
    /\ Exhausted(ingest, u)
    /\ ingest' = Redriven(ingest, u)
    /\ UNCHANGED <<feed, todo, content, holding, step, row, unseen, errors>>

-----------------------------------------------------------------------------
(* alert_for_hull() and alerts_geojson(): does the stored alert apply now?  *)
(* The mutant never lets an alert without expiry lapse.                     *)

Applies_open == row # NoRow /\ (row \in Open \/ left[row] > 0)
Applies ==
    /\ row # NoRow
    /\ IF row \in Open THEN unseen < WINDOW ELSE left[row] > 0

-----------------------------------------------------------------------------
Collector == Poll \/ PollFails \/ \E u \in Units : Publish(u)

Correlator ==
    \/ \E u \in Units : Receive(u)
    \/ UpsertAlert \/ Delete \/ HandlerFails

Sqs == \E u \in Units : Expire(u) \/ DeadLetter(u) \/ DeliverAgain(u)

Next == Issue \/ Tick \/ Collector \/ Correlator \/ Sqs

Spec == Init /\ [][Next]_feedvars

(* Fairness.  Time passes, both processes run on, and SQS times out and     *)
(* redrives.                                                                *)
Fairness ==
    /\ WF_feedvars(Tick)
    /\ WF_feedvars(Collector)
    /\ WF_feedvars(Correlator)
    /\ \A u \in Units : WF_feedvars(Expire(u) \/ DeadLetter(u))

FairSpec == Spec /\ Fairness

-----------------------------------------------------------------------------
(* Properties *)

\* A message of an older version that is handled late overwrites the newer
\* row; the next polls put it right: a version that stays listed is the one
\* that stays stored.
RowFollowsFeed ==
    \A v \in Versions : <>[](listed = v) => <>[](row = v)

\* E-029, "active while the feed still lists it": an alert without expiry never
\* stays lapsed while it is listed.
ListedApplies ==
    \A v \in Open : <>[](listed = v) => []<>Applies

\* ... "bounded by updated_at": an alert the feed has dropped ceases to apply
\* for good, although messages still in the queue revive it.
DelistedLapses ==
    <>[](listed = Delisted) => <>[]~Applies
=============================================================================

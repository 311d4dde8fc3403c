----------------------------- MODULE WorkerLoop -----------------------------
(***************************************************************************)
(* The loop a worker lives in: consume() of curbline/aws.py, which beats,  *)
(* receives a batch, handles and deletes it message by message, publishes  *)
(* the counters of curbline/cache.py and looks at the shutdown flag; and   *)
(* systemd, which stops it with SIGTERM and later SIGKILL and starts it    *)
(* again.  What a handler does is left to the modules of the handlers;     *)
(* here it reads the cache some times and returns or raises.               *)
(*                                                                         *)
(* Time passes in ticks.  POLL, TTL and GRACE are the long poll (20 s),    *)
(* HEARTBEAT_TTL_SECONDS (120 s) and TimeoutStopSec (45 s) in ticks; the   *)
(* visibility timeout may end at any time, as a batch may take any time.   *)
(***************************************************************************)
EXTENDS SqsQueue, FiniteSets, Sequences

CONSTANTS
    BATCH,          \* MaxNumberOfMessages (10 in the code)
    POLL, TTL, GRACE,
    MAX_READS,      \* bound: cache reads
    MAX_OUTAGES,    \* bound: Redis outages
    MAX_STOPS,      \* bound: systemctl stop
    MAX_DEATHS,     \* bound: deaths of the process that nobody asked for
    MAX_LOST,       \* bound: replies to INCRBY that do not arrive in time
    MAX_DUPLICATES  \* bound: deleted messages that SQS delivers again

Empty == "no message"

WorkerLoopAssumption ==
    /\ BATCH \in Nat \ {0}
    /\ POLL \in Nat /\ TTL \in Nat /\ GRACE \in Nat /\ POLL < TTL
    /\ {MAX_READS, MAX_OUTAGES, MAX_STOPS, MAX_DEATHS, MAX_LOST, MAX_DUPLICATES} \subseteq Nat
    /\ Empty \notin Units

VARIABLES
    work,       \* the queue the worker consumes (SqsQueue)
    at,         \* the statement consume() is about to run
    batch,      \* the messages of the response still to handle
    hand,       \* the message whose handler returned, or Empty
    requested,  \* shutdown.requested
    grace,      \* ticks since SIGTERM
    since,      \* ticks since the top of the loop, at most TTL
    beatage,    \* ticks since the heartbeat key was written; TTL: no key
    server,     \* Redis: "up" or "down"
    STATS,      \* the deltas of this process
    published,  \* the counters in Redis
    added,      \* the names flush_stats() has sent INCRBY for
    spent,      \* how much of each bound is used up
    past        \* refused: Redis refused the last beat; reads: cache reads whose
                \* deltas did not die with a process;
                \* cut: names whose INCRBY Redis applied and that it was not the
                \* last of; finished: units handled since they were last lost by
                \* a death or delivered again; left: units whose last attempt
                \* ended in an exception or a death

process == <<at, batch, hand, requested, grace>>
counters == <<STATS, published, added>>
loopvars == <<work, process, since, beatage, server, counters, spent, past>>

-----------------------------------------------------------------------------
Names == <<"hits", "misses", "errors">>
Name == {"hits", "misses", "errors"}
Zero == [n \in Name |-> 0]
Down == {"exited", "killed"}

Budget == [reads : 0..MAX_READS, outages : 0..MAX_OUTAGES, stops : 0..MAX_STOPS,
           deaths : 0..MAX_DEATHS, lost : 0..MAX_LOST, duplicates : 0..MAX_DUPLICATES]

TypeOK ==
    /\ work \in [Units -> Message]
    /\ at \in Down \cup {"top", "receive", "handle", "delete", "flush"}
    /\ batch \subseteq Units
    /\ hand \in Units \cup {Empty}
    /\ requested \in BOOLEAN
    /\ grace \in 0..GRACE
    /\ since \in 0..TTL
    /\ beatage \in 0..TTL
    /\ server \in {"up", "down"}
    /\ STATS \in [Name -> 0..MAX_READS]
    /\ published \in [Name -> 0..(MAX_READS * (MAX_OUTAGES + MAX_LOST + 1))]
    /\ added \subseteq Name
    /\ spent \in Budget
    /\ past.refused \in BOOLEAN /\ past.reads \in [Name -> 0..MAX_READS]
    /\ past.cut \subseteq Name /\ past.finished \subseteq Units /\ past.left \subseteq Units

\* A worker that has just been started.
Idle ==
    /\ at = "top"
    /\ batch = {}
    /\ hand = Empty
    /\ requested = FALSE
    /\ grace = 0
    /\ since = 0
    /\ beatage = TTL
    /\ server = "up"
    /\ STATS = Zero
    /\ published = Zero
    /\ added = {}
    /\ past = [refused |-> FALSE, reads |-> Zero, cut |-> {}, finished |-> {}, left |-> {}]

Init ==
    /\ Idle
    /\ work = EmptyQueue
    /\ spent = [reads |-> 0, outages |-> 0, stops |-> 0, deaths |-> 0,
                lost |-> 0, duplicates |-> 0]

-----------------------------------------------------------------------------
(* consume() *)

\* while not shutdown.requested: the heartbeat before the long poll, and no
\* error when Redis does not take it.  The mutant beats only in a worker that
\* has work.
Beat_busy == IF server = "up" /\ In(work, "visible") # {} THEN 0 ELSE beatage
Beat == IF server = "up" THEN 0 ELSE beatage

Top ==
    /\ at = "top"
    /\ ~requested
    /\ beatage' = Beat
    /\ since' = 0
    /\ at' = "receive"
    /\ past' = [past EXCEPT !.refused = server = "down"]
    /\ UNCHANGED <<work, batch, hand, requested, grace, server, counters, spent>>

Exit ==
    /\ at = "top"
    /\ requested
    /\ at' = "exited"
    /\ STATS' = Zero
    /\ past' = [past EXCEPT !.reads = [n \in Name |-> @[n] - STATS[n]]]
    /\ UNCHANGED <<work, batch, hand, requested, grace, since, beatage, server, published, added, spent>>

\* SQS redrives what has no receives left and returns up to a batch of the
\* rest, in any order; nothing after the long poll.
Receive ==
    /\ at = "receive"
    /\ \E some \in SUBSET Receivable(work) :
          /\ Cardinality(some) <= BATCH
          /\ Receivable(work) # {} => some # {}
          /\ work' = [u \in Units |->
                         IF u \in In(work, "visible") /\ Exhausted(work, u)
                         THEN Redriven(work, u)[u] ELSE Received(work, some)[u]]
          /\ batch' = some
          /\ at' = IF some = {} THEN "flush" ELSE "handle"
          /\ past' = [past EXCEPT !.left = @ \ some]
    /\ UNCHANGED <<hand, requested, grace, since, beatage, server, counters, spent>>

\* _get() in the handler: a hit, a miss, or an error that is counted too.
CacheRead ==
    /\ at = "handle"
    /\ spent.reads < MAX_READS
    /\ \E n \in (IF server = "up" THEN {"hits", "misses"} ELSE {"errors"}) :
          /\ STATS' = [STATS EXCEPT ![n] = @ + 1]
          /\ past' = [past EXCEPT !.reads[n] = @ + 1]
    /\ spent' = [spent EXCEPT !.reads = @ + 1]
    /\ UNCHANGED <<work, process, since, beatage, server, published, added>>

HandlerReturns(u) ==
    /\ at = "handle"
    /\ u \in batch
    /\ batch' = batch \ {u}
    /\ hand' = u
    /\ at' = "delete"
    /\ past' = [past EXCEPT !.finished = @ \cup {u}]
    /\ UNCHANGED <<work, requested, grace, since, beatage, server, counters, spent>>

\* The flag is not looked at between messages.  The mutant looks.
NextMessage_drop(rest) == IF rest = {} \/ requested THEN "flush" ELSE "handle"
NextMessage(rest) == IF rest = {} THEN "flush" ELSE "handle"

\* The message stays for a retry, and the batch goes on.
HandlerRaises(u) ==
    /\ at = "handle"
    /\ u \in batch
    /\ batch' = batch \ {u}
    /\ at' = NextMessage(batch')
    /\ past' = [past EXCEPT !.left = @ \cup {u}]
    /\ UNCHANGED <<work, hand, requested, grace, since, beatage, server, counters, spent>>

\* delete_message, with a receipt that no later receive has replaced: it works
\* although the visibility timeout may be over.  The mutant loses it then.
Acknowledged_inflight(u) == IF work[u].at = "inflight" THEN Deleted(work, u) ELSE work
Acknowledged(u) == Deleted(work, u)

Delete ==
    /\ at = "delete"
    /\ work' = Acknowledged(hand)
    /\ hand' = Empty
    /\ at' = NextMessage(batch)
    /\ batch' = IF at' = "flush" THEN {} ELSE batch
    /\ UNCHANGED <<requested, grace, since, beatage, server, counters, spent, past>>

-----------------------------------------------------------------------------
(* flush_stats() *)

pending == {n \in Name : STATS[n] > 0} \ added

nextname == Names[CHOOSE i \in DOMAIN Names :
                      /\ Names[i] \in pending
                      /\ \A j \in 1..(i - 1) : Names[j] \notin pending]

\* INCRBY, name by name.
Incremented == [published EXCEPT ![nextname] = @ + STATS[nextname]]

Publish ==
    /\ at = "flush"
    /\ server = "up"
    /\ pending # {}
    /\ published' = Incremented
    /\ added' = added \cup {nextname}
    /\ UNCHANGED <<work, process, since, beatage, server, STATS, spent, past>>

\* Redis has applied an INCRBY when socket_timeout ends the wait for its reply:
\* a TimeoutError, which is a RedisError, or an INCRBY sent once more by those
\* releases of redis-py (requirements.txt says 5.0 or later) that retry.
ReplyLost ==
    /\ at = "flush"
    /\ server = "up"
    /\ pending # {}
    /\ spent.lost < MAX_LOST
    /\ spent' = [spent EXCEPT !.lost = @ + 1]
    /\ published' = Incremented
    /\ \/ /\ added' = {}
          /\ at' = "top"
          /\ past' = [past EXCEPT !.cut = @ \cup added \cup {nextname}]
       \/ /\ UNCHANGED <<at, added>>
          /\ past' = [past EXCEPT !.cut = @ \cup {nextname}]
    /\ UNCHANGED <<work, batch, hand, requested, grace, since, beatage, server, STATS>>

\* The deltas leave after the last INCRBY.  The mutant leaves them in.
Drained_kept == STATS
Drained == [n \in Name |-> IF n \in added THEN 0 ELSE STATS[n]]

Flushed ==
    /\ at = "flush"
    /\ pending = {}
    /\ STATS' = Drained
    /\ added' = {}
    /\ at' = "top"
    /\ UNCHANGED <<work, batch, hand, requested, grace, since, beatage, server, published, spent, past>>

\* A RedisError: every delta is retained, what INCRBY has taken included.
FlushFails ==
    /\ at = "flush"
    /\ server = "down"
    /\ pending # {}
    /\ added' = {}
    /\ past' = [past EXCEPT !.cut = @ \cup added]
    /\ at' = "top"
    /\ UNCHANGED <<work, batch, hand, requested, grace, since, beatage, server, STATS, published, spent>>

-----------------------------------------------------------------------------
(* systemd, SQS, Redis and the clock *)

Send(u) ==
    /\ work[u].at = "unsent"
    /\ work' = Sent(work, u)
    /\ UNCHANGED <<process, since, beatage, server, counters, spent, past>>

\* A batch may outlast its visibility timeout.
Expire(u) ==
    /\ work[u].at = "inflight"
    /\ work' = TimedOut(work, u)
    /\ UNCHANGED <<process, since, beatage, server, counters, spent, past>>

\* The handler only notes the signal; a long poll it interrupts goes on.
Sigterm ==
    /\ at \notin Down
    /\ ~requested
    /\ spent.stops < MAX_STOPS
    /\ spent' = [spent EXCEPT !.stops = @ + 1]
    /\ requested' = TRUE
    /\ grace' = 0
    /\ UNCHANGED <<work, at, batch, hand, since, beatage, server, counters, past>>

\* At least once: SQS delivers a message once more that was deleted.
DeliverAgain(u) ==
    /\ work[u].at = "deleted"
    /\ spent.duplicates < MAX_DUPLICATES
    /\ spent' = [spent EXCEPT !.duplicates = @ + 1]
    /\ work' = Resurfaced(work, u)
    /\ past' = [past EXCEPT !.finished = @ \ {u}]
    /\ UNCHANGED <<process, since, beatage, server, counters>>

\* What the process held in memory is gone; what it received comes back later.
Dies ==
    /\ at' = "killed"
    /\ batch' = {}
    /\ hand' = Empty
    /\ STATS' = Zero
    /\ added' = {}
    /\ past' = [past EXCEPT
                   !.reads = [n \in Name |-> IF n \in added THEN @[n] ELSE @[n] - STATS[n]],
                   !.finished = @ \ {hand},
                   !.left = @ \cup batch \cup ({hand} \cap Units)]
    /\ UNCHANGED <<work, requested, grace, since, beatage, server, published>>

Sigkill ==
    /\ at \notin Down
    /\ requested
    /\ grace = GRACE
    /\ spent' = spent
    /\ Dies

\* The host, or an error of receive_message or delete_message, which nothing
\* catches.
Dying ==
    /\ at \notin Down
    /\ spent.deaths < MAX_DEATHS
    /\ spent' = [spent EXCEPT !.deaths = @ + 1]
    /\ Dies

\* Restart=always, and systemctl start after a stop.
Start ==
    /\ at \in Down
    /\ at' = "top"
    /\ requested' = FALSE
    /\ grace' = 0
    /\ UNCHANGED <<work, batch, hand, since, beatage, server, counters, spent, past>>

ServerFails ==
    /\ server = "up"
    /\ spent.outages < MAX_OUTAGES
    /\ server' = "down"
    /\ spent' = [spent EXCEPT !.outages = @ + 1]
    /\ UNCHANGED <<work, process, since, beatage, counters, past>>

ServerReturns ==
    /\ server = "down"
    /\ server' = "up"
    /\ UNCHANGED <<work, process, since, beatage, counters, spent, past>>

\* setex: a key that is not written again goes.  The mutant is set.
Aged_never(age) == age
Aged(age) == IF age < TTL THEN age + 1 ELSE TTL

\* The long poll ends, the beat and the flush take no time to speak of, and
\* systemd does not wait longer than it was told.
Tick ==
    /\ at \in Down \cup {"receive", "handle", "delete"}
    /\ at = "receive" => since < POLL
    /\ requested /\ at \notin Down => grace < GRACE
    /\ since' = IF since < TTL THEN since + 1 ELSE TTL
    /\ beatage' = Aged(beatage)
    /\ grace' = IF requested /\ at \notin Down THEN grace + 1 ELSE grace
    /\ UNCHANGED <<work, at, batch, hand, requested, server, counters, spent, past>>

-----------------------------------------------------------------------------
Loop ==
    \/ Top \/ Exit \/ Receive \/ CacheRead \/ Delete
    \/ Publish \/ ReplyLost \/ Flushed \/ FlushFails
    \/ \E u \in Units : HandlerReturns(u) \/ HandlerRaises(u)

Surroundings ==
    \/ Sigterm \/ Sigkill \/ Dying \/ Start \/ ServerFails \/ ServerReturns \/ Tick
    \/ \E u \in Units : Send(u) \/ Expire(u) \/ DeliverAgain(u)

Next == Loop \/ Surroundings

Spec == Init /\ [][Next]_loopvars

-----------------------------------------------------------------------------
(* What the API makes of it: worker_liveness() and health_status() *)

worker_liveness == CASE server = "down" -> "unknown"
                     [] server = "up" /\ beatage < TTL -> "alive"
                     [] OTHER -> "stopped"

health_status(database, cache_ok, live) ==
    CASE ~database                     -> "down"
      [] database /\ (live = "stopped" \/ ~cache_ok) -> "degraded"
      [] OTHER                         -> "ok"

-----------------------------------------------------------------------------
(* Properties *)

\* E-023, "green over a stopped pipeline": /api/health says ok only of a
\* worker that came past the top of its loop within the TTL; a dead one and
\* one that hangs in a handler turn it to degraded.
GreenMeansLooping ==
    health_status(TRUE, server = "up", worker_liveness) = "ok" => since < TTL

\* aws.py: "an idle worker on an empty queue still reports alive".  A running
\* worker is taken for stopped only inside a batch that outlasts the TTL, or
\* after Redis refused its last beat.
IdleReportsAlive ==
    worker_liveness = "stopped"
        => at \in Down \cup {"top"} \/ since = TTL \/ past.refused

\* cache.py: the published counters and the deltas in memory add up to the
\* reads: none is lost by a failing flush, and one is counted twice only when
\* an INCRBY of that name was applied in a flush that failed, or its reply was
\* lost.
StatsAddUp ==
    \A n \in Name :
        LET total == published[n] + (IF n \in added THEN 0 ELSE STATS[n])
        IN  total >= past.reads[n] /\ (total > past.reads[n] => n \in past.cut)

\* One process per queue: a message that was handled comes to a handler again
\* only when the process died before its delete, or SQS delivered it again
\* after ("it will occasionally see the same message twice").  A visibility
\* timeout that the batch outlasts repeats nothing.
TimeoutRepeatsNothing ==
    [][\A u \in Units :
          at = "handle" /\ hand' = u /\ hand # u => u \notin past.finished]_loopvars

\* Shutdown: "so systemd can stop a worker without losing in-flight work": a
\* worker that left by itself leaves no message in flight but those whose last
\* attempt had already failed.
CleanStopAbandonsNothing ==
    at = "exited" => In(work, "inflight") \subseteq past.left
=============================================================================

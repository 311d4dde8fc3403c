---------------------------- MODULE UsgsBaseline ----------------------------
(***************************************************************************)
(* The collector reading river gauges: USGSSource of curbline/sources.py   *)
(* driven by poll_sensors() of workers/collector.py.  A gauge reports an   *)
(* absolute stage; what is published is its rise above the low-water datum *)
(* of the site, which resolve_baseline() looks for in process memory, then *)
(* in Redis, then in the history API, and without which the reading is     *)
(* withheld (E-026).                                                       *)
(*                                                                         *)
(* Stages and datums are whole numbers of one unit.  The BASELINE_TTL and  *)
(* the retry delay run out by an action; the poll interval is the time     *)
(* between two polls and needs none.                                       *)
(***************************************************************************)
EXTENDS Integers, FiniteSets

CONSTANTS
    Sites,          \* gauges
    FLOOD,          \* how far a flood raises the stage
    MAX_CHANGES,    \* bound: channel changes, each moves a datum up by one
    MAX_FAULTS,     \* bound: failing requests and sends
    MAX_CRASHES,    \* bound: process deaths
    MAX_GARBLED,    \* bound: history answers that are not JSON
    MAX_EXPIRIES    \* bound: persisted datums that expire

ASSUME BaselineAssumption ==
    /\ FLOOD \in Nat \ {0}
    /\ {MAX_CHANGES, MAX_FAULTS, MAX_CRASHES, MAX_GARBLED, MAX_EXPIRIES} \subseteq Nat

VARIABLES
    datum,      \* the true low-water datum of each site
    flooded,    \* the sites in flood
    memory,     \* self._baseline
    redis,      \* baseline:<site> in Redis
    reachable,  \* is Redis reachable
    backoff,    \* sites whose _baseline_retry_after lies ahead
    pc,         \* "idle", "fetch", "resolve", "send" or "down"
    todo,       \* features of the response not handled yet
    reading,    \* the reading about to be sent
    published,  \* the sites a reading was sent for
    env,        \* how much of each environment bound is used up
    history     \* moved: which copies of a datum the channel has left behind;
                \* kept: sites whose datum was fetched with Redis reachable
                \* and is not older than the TTL

world == <<datum, flooded, reachable>>
process == <<memory, backoff, pc, todo, reading>>
vars == <<world, redis, process, published, env, history>>

Unknown == -1
Datums == 0..MAX_CHANGES
Rises == 0..(MAX_CHANGES + FLOOD)

\* A feature of the response: the stage of a site, and for the properties the
\* datum it stood over when it was measured.
Feature == [site : Sites, stage : Rises, datum : Datums]
Measured(s) ==
    [site |-> s, stage |-> datum[s] + (IF s \in flooded THEN FLOOD ELSE 0),
     datum |-> datum[s]]

\* A reading, and for the properties: the true rise, whether the datum it was
\* taken over is still the site's (sound).
Reading == [rise : Rises, true : Rises, sound : BOOLEAN]
NoReading == [site |-> "none"]

\* max(0, stage - base): the stage may lie below the datum.  The mutant
\* forgets the bound.
rise_unbounded(stage, base) == stage - base
rise(stage, base) == IF stage > base THEN stage - base ELSE 0

TypeOK ==
    /\ datum \in [Sites -> Datums]
    /\ flooded \subseteq Sites
    /\ memory \in [Sites -> Datums \cup {Unknown}]
    /\ redis \in [Sites -> Datums \cup {Unknown}]
    /\ reachable \in BOOLEAN
    /\ backoff \subseteq Sites
    /\ pc \in {"idle", "fetch", "resolve", "send", "down"}
    /\ todo \subseteq Feature
    /\ reading = NoReading \/ reading \in [site : Sites, of : Reading]
    /\ published \subseteq Sites
    /\ env \in [changes : 0..MAX_CHANGES, faults : 0..MAX_FAULTS, crashes : 0..MAX_CRASHES,
                garbled : 0..MAX_GARBLED, expiries : 0..MAX_EXPIRIES]
    /\ history \in [moved : [Sites -> SUBSET {"memory", "redis"}],
                    kept : SUBSET Sites]

Init ==
    /\ datum = [s \in Sites |-> 0]
    /\ flooded = {}
    /\ memory = [s \in Sites |-> Unknown]
    /\ redis = [s \in Sites |-> Unknown]
    /\ reachable = TRUE
    /\ backoff = {}
    /\ pc = "idle"
    /\ todo = {}
    /\ reading = NoReading
    /\ published = {}
    /\ env = [changes |-> 0, faults |-> 0, crashes |-> 0, garbled |-> 0, expiries |-> 0]
    /\ history = [moved |-> [s \in Sites |-> {}], kept |-> {}]

-----------------------------------------------------------------------------
(* The rivers, Redis and the clock *)

WaterMoves(s) ==
    /\ flooded' = IF s \in flooded THEN flooded \ {s} ELSE flooded \cup {s}
    /\ UNCHANGED <<datum, reachable, redis, process, published, env, history>>

ChannelChanges(s) ==
    /\ env.changes < MAX_CHANGES
    /\ env' = [env EXCEPT !.changes = @ + 1]
    /\ datum' = [datum EXCEPT ![s] = @ + 1]
    /\ history' = [history EXCEPT !.moved[s] = {"memory", "redis"}]
    /\ UNCHANGED <<flooded, reachable, redis, process, published>>

RedisToggles ==
    /\ reachable' = ~reachable
    /\ UNCHANGED <<datum, flooded, redis, process, published, env, history>>

\* BASELINE_TTL_SECONDS after a fetch: the key expires, memory does not.
BaselineExpires(s) ==
    /\ env.expiries < MAX_EXPIRIES
    /\ memory[s] # Unknown \/ redis[s] # Unknown
    /\ env' = [env EXCEPT !.expiries = @ + 1]
    /\ redis' = [redis EXCEPT ![s] = Unknown]
    /\ history' = [history EXCEPT !.kept = @ \ {s}]
    /\ UNCHANGED <<world, process, published>>

RetryPasses_never(s) == FALSE /\ s \in backoff /\ UNCHANGED vars
RetryPasses(s) ==
    /\ s \in backoff
    /\ backoff' = backoff \ {s}
    /\ UNCHANGED <<world, redis, memory, pc, todo, reading, published, env, history>>

-----------------------------------------------------------------------------
(* poll_sensors(), one feature of the response at a time *)

Fault == env.faults < MAX_FAULTS /\ env' = [env EXCEPT !.faults = @ + 1]

PollEnds == pc' = "idle" /\ todo' = {} /\ reading' = NoReading

Poll ==
    /\ pc = "idle"
    /\ pc' = "fetch"
    /\ UNCHANGED <<world, redis, memory, backoff, todo, reading, published, env, history>>

\* The latest-continuous response; features without coordinates, value or
\* usable timestamp are skipped, which costs a fault here.
FetchLatest ==
    /\ pc = "fetch"
    /\ pc' = "resolve"
    /\ \/ todo' = {Measured(s) : s \in Sites} /\ env' = env
       \/ Fault /\ \E x \in Sites : todo' = {Measured(s) : s \in Sites \ {x}}
    /\ UNCHANGED <<world, redis, memory, backoff, reading, published, history>>

FetchFails ==
    /\ pc = "fetch"
    /\ Fault
    /\ PollEnds
    /\ UNCHANGED <<world, redis, memory, backoff, published, history>>

\* The reading of feature f over the datum base.
Yield(f, base) ==
    /\ reading' = [site |-> f.site,
                   of |-> [rise |-> rise(f.stage, base),
                           true |-> f.stage - f.datum,
                           sound |-> "memory" \notin history'.moved[f.site] /\ f.datum = datum[f.site]]]
    /\ todo' = todo \ {f}
    /\ pc' = "send"

\* resolve_baseline() returned None: the reading is withheld and the loop
\* goes on.  The mutant falls back to the current stage, the defect of E-026.
Unresolved_fallback(f) == Yield(f, f.stage)
Unresolved(f) ==
    /\ todo' = todo \ {f}
    /\ UNCHANGED <<pc, reading>>

FromMemory(f) ==
    /\ pc = "resolve"
    /\ memory[f.site] # Unknown
    /\ history' = history
    /\ Yield(f, memory[f.site])
    /\ UNCHANGED <<world, redis, memory, backoff, published, env>>

InRedis(s) == reachable /\ redis[s] # Unknown

FromRedis(f) ==
    /\ pc = "resolve"
    /\ memory[f.site] = Unknown
    /\ InRedis(f.site)
    /\ memory' = [memory EXCEPT ![f.site] = redis[f.site]]
    /\ history' = [history EXCEPT !.moved[f.site] =
                      (@ \ {"memory"}) \cup (IF "redis" \in @ THEN {"memory"} ELSE {})]
    /\ Yield(f, redis[f.site])
    /\ UNCHANGED <<world, redis, backoff, published, env>>

\* cache.set_baseline() swallows a Redis error.  The mutant keeps the datum
\* in the process only.
Persisted_not(s, base) == redis
Persisted(s, base) == IF reachable THEN [redis EXCEPT ![s] = base] ELSE redis

Asks(s) == memory[s] = Unknown /\ ~InRedis(s) /\ s \notin backoff

FromHistory(f) ==
    /\ pc = "resolve"
    /\ Asks(f.site)
    /\ memory' = [memory EXCEPT ![f.site] = datum[f.site]]
    /\ redis' = Persisted(f.site, datum[f.site])
    /\ history' = [moved |-> [history.moved EXCEPT ![f.site] =
                                   IF reachable THEN {} ELSE @ \ {"memory"}],
                   kept  |-> IF reachable THEN history.kept \cup {f.site} ELSE history.kept]
    /\ Yield(f, datum[f.site])
    /\ UNCHANGED <<world, backoff, published, env>>

\* The request fails or the history is too short.
HistoryFails(f) ==
    /\ pc = "resolve"
    /\ Asks(f.site)
    /\ Fault
    /\ backoff' = backoff \cup {f.site}
    /\ history' = history
    /\ Unresolved(f)
    /\ UNCHANGED <<world, redis, memory, published>>

BacksOff(f) ==
    /\ pc = "resolve"
    /\ memory[f.site] = Unknown
    /\ ~InRedis(f.site)
    /\ f.site \in backoff
    /\ history' = history
    /\ Unresolved(f)
    /\ UNCHANGED <<world, redis, memory, backoff, published, env>>

\* resp.json() is outside the try: it raises through fetch() and ends the
\* poll, for every feature that was still to come.
HistoryGarbled(f) ==
    /\ pc = "resolve"
    /\ Asks(f.site)
    /\ env.garbled < MAX_GARBLED
    /\ env' = [env EXCEPT !.garbled = @ + 1]
    /\ PollEnds
    /\ UNCHANGED <<world, redis, memory, backoff, published, history>>

Send ==
    /\ pc = "send"
    /\ published' = published \cup {reading.site}
    /\ reading' = NoReading
    /\ pc' = "resolve"
    /\ UNCHANGED <<world, redis, memory, backoff, todo, env, history>>

SendFails ==
    /\ pc = "send"
    /\ Fault
    /\ PollEnds
    /\ UNCHANGED <<world, redis, memory, backoff, published, history>>

PollDone ==
    /\ pc = "resolve"
    /\ todo = {}
    /\ PollEnds
    /\ UNCHANGED <<world, redis, memory, backoff, published, env, history>>

\* The process dies and systemd starts it again with empty dicts.
Crash ==
    /\ pc # "down"
    /\ env.crashes < MAX_CRASHES
    /\ env' = [env EXCEPT !.crashes = @ + 1]
    /\ pc' = "down"
    /\ memory' = [s \in Sites |-> Unknown]
    /\ backoff' = {}
    /\ todo' = {}
    /\ reading' = NoReading
    /\ UNCHANGED <<world, redis, published, history>>

Restart ==
    /\ pc = "down"
    /\ pc' = "idle"
    /\ UNCHANGED <<world, redis, memory, backoff, todo, reading, published, env, history>>

-----------------------------------------------------------------------------
Environment ==
    \/ \E s \in Sites : WaterMoves(s) \/ ChannelChanges(s) \/ BaselineExpires(s) \/ RetryPasses(s)
    \/ RedisToggles

ResolveBaseline ==
    \E f \in todo :
        \/ FromMemory(f) \/ FromRedis(f) \/ FromHistory(f)
        \/ HistoryFails(f) \/ BacksOff(f) \/ HistoryGarbled(f)

Collector ==
    Poll \/ FetchLatest \/ FetchFails \/ ResolveBaseline \/ Send \/ SendFails \/ PollDone

Next == Environment \/ Collector \/ Crash \/ Restart

Spec == Init /\ [][Next]_vars

(* Fairness.  The collector keeps polling, systemd restarts it and the      *)
(* retry delay runs out.  The history API fails at most MAX_FAULTS times.   *)
Fairness ==
    /\ WF_vars(Collector)
    /\ WF_vars(Restart)
    /\ \A s \in Sites : WF_vars(RetryPasses(s))

FairSpec == Spec /\ Fairness

-----------------------------------------------------------------------------
(* Properties *)

\* E-026: a gauge in flood is never sent as dry, nor a dry one as wet, over
\* restarts in the storm, failing history requests and lost Redis: a reading
\* taken over a datum that still holds is the true rise.
NoRiseIsFabricated ==
    reading # NoReading /\ reading.of.sound => reading.of.rise = reading.of.true

\* What persisting the datum is for: while Redis answers, a site whose datum
\* was stored there in the last BASELINE_TTL_SECONDS is never withheld, a
\* restart of the collector during the storm included.
KeptDatumIsUsed ==
    [][\A f \in Feature :
          /\ f \in todo /\ f \notin todo'
          /\ pc = "resolve" /\ pc' = "resolve"
          => ~(reachable /\ f.site \in history.kept)]_vars

\* A gauge whose lookups failed is not withheld for ever: every gauge is
\* published in the end.
EveryGaugeIsPublished == <>(published = Sites)
-----------------------------------------------------------------------------
(* What the documents promise and the code does not keep *)

\* sources.py: "One malformed gauge must not stop the poll for the others."
\* A poll ends early only by a failing request or send of its own.
OneBadGaugeStopsNoOther ==
    [][pc = "resolve" /\ pc' = "idle" => todo = {}]_vars
=============================================================================

------------------------- MODULE UsgsBaselineProofs -------------------------
(***************************************************************************)
(* Proofs about UsgsBaseline: no rise is fabricated (E-026), and a datum   *)
(* that was kept is used.                                                  *)
(*                                                                         *)
(* A copy of a datum is right until the channel moves, wherever the copy   *)
(* came from (Right); a feature carries a stage no lower than the datum it *)
(* was measured over (Above); and what was kept is in Redis (Held).        *)
(***************************************************************************)
EXTENDS UsgsBaseline, TLAPS

\* A copy that the channel has not left behind is the datum.
Right ==
    \A s \in Sites :
        /\ memory[s] # Unknown /\ "memory" \notin history.moved[s] => memory[s] = datum[s]
        /\ redis[s] # Unknown /\ "redis" \notin history.moved[s] => redis[s] = datum[s]

\* What a poll received: the gauge stood at its datum or in flood over it.
Above == \A f \in todo : f.stage - f.datum \in {0, FLOOD}

\* A datum that counts as kept is in Redis.
Held == \A s \in history.kept : redis[s] # Unknown

\* The datum of a site rose no further than the channels changed.
Counted == \A s \in Sites : datum[s] <= env.changes

\* Who is about to send has a reading in hand.
Loaded == pc = "send" => reading \in [site : Sites, of : Reading]

IInv == TypeOK /\ Right /\ Above /\ Held /\ Counted /\ Loaded /\ NoRiseIsFabricated

Env == [changes : 0..MAX_CHANGES, faults : 0..MAX_FAULTS, crashes : 0..MAX_CRASHES,
        garbled : 0..MAX_GARBLED, expiries : 0..MAX_EXPIRIES]
History == [moved : [Sites -> SUBSET {"memory", "redis"}], kept : SUBSET Sites]

-----------------------------------------------------------------------------
\* Every bound is a number, and Unknown is no datum.
LEMMA Bounds ==
    /\ FLOOD \in Nat \ {0} /\ MAX_CHANGES \in Nat /\ MAX_FAULTS \in Nat /\ MAX_CRASHES \in Nat
    /\ MAX_GARBLED \in Nat /\ MAX_EXPIRIES \in Nat
    /\ Unknown \notin Datums
BY BaselineAssumption DEF Unknown, Datums

\* The invariant holds before the first poll.
LEMMA InitIInv == Init => IInv
<1> SUFFICES ASSUME Init PROVE IInv
  OBVIOUS
<1>1. /\ datum \in [Sites -> Datums] /\ memory \in [Sites -> Datums \cup {Unknown}]
      /\ redis \in [Sites -> Datums \cup {Unknown}]
  BY Bounds DEF Init, Datums
<1>2. env \in Env /\ history \in History
  BY Bounds DEF Init, Env, History
<1>3. /\ flooded = {} /\ backoff = {} /\ todo = {} /\ published = {} /\ reading = NoReading
      /\ pc = "idle" /\ reachable = TRUE
  BY DEF Init
<1>4. TypeOK
  BY <1>1, <1>2, <1>3 DEF TypeOK, Env, History
<1>5. Right /\ Above /\ Held /\ Counted /\ Loaded
  BY DEF Init, Right, Above, Held, Counted, Loaded
<1> QED
  BY <1>3, <1>4, <1>5 DEF IInv, NoRiseIsFabricated

\* What a poll is made of may change while the datums and their copies stay.
LEMMA CopiesStay ==
    ASSUME IInv, TypeOK', UNCHANGED <<datum, memory, redis, history>>,
           env'.changes = env.changes, Above',
           \/ UNCHANGED <<pc, reading>>
           \/ pc' # "send" /\ reading' \in {reading, NoReading}
    PROVE  IInv'
<1>1. Right' /\ Held' /\ Counted'
  BY DEF IInv, Right, Held, Counted
<1>2. Loaded'
  BY DEF IInv, Loaded
<1> QED
  BY <1>1, <1>2 DEF IInv, NoRiseIsFabricated

-----------------------------------------------------------------------------
(* The rivers, Redis and the clock *)

\* The water, the back-offs and Redis touch no copy of a datum.
LEMMA WorldStep ==
    ASSUME IInv, (\E s \in Sites : WaterMoves(s) \/ RetryPasses(s)) \/ RedisToggles
    PROVE  IInv'
<1>1. UNCHANGED <<datum, redis, memory, pc, todo, reading, published, env, history>>
  BY DEF WaterMoves, RetryPasses, RedisToggles, world, process
<1>2. flooded' \subseteq Sites /\ backoff' \subseteq Sites
  BY DEF IInv, TypeOK, WaterMoves, RetryPasses, RedisToggles, world, process
<1>3. reachable' \in BOOLEAN
  BY DEF IInv, TypeOK, WaterMoves, RetryPasses, RedisToggles, world
<1>4. TypeOK'
  BY <1>1, <1>2, <1>3 DEF IInv, TypeOK
<1>5. Above'
  BY <1>1 DEF IInv, Above
<1> QED
  BY <1>1, <1>4, <1>5, CopiesStay

\* Every copy of the datum is marked as left behind.
LEMMA ChannelStep == ASSUME IInv, NEW s \in Sites, ChannelChanges(s) PROVE IInv'
<1>1. /\ UNCHANGED <<flooded, reachable, redis, memory, backoff, pc, todo, reading, published>>
      /\ env' = [env EXCEPT !.changes = @ + 1] /\ env.changes < MAX_CHANGES
      /\ datum' = [datum EXCEPT ![s] = @ + 1]
      /\ history' = [history EXCEPT !.moved[s] = {"memory", "redis"}]
  BY DEF ChannelChanges, process
<1>2. env' \in Env /\ env'.changes = env.changes + 1
  BY <1>1, Bounds DEF IInv, TypeOK, Env
<1>3. /\ history' = [history EXCEPT !.moved = [history.moved EXCEPT ![s] = {"memory", "redis"}]]
      /\ history \in History
  BY <1>1 DEF IInv, TypeOK, History
<1>4. /\ history' \in History /\ history'.kept = history.kept
      /\ history'.moved[s] = {"memory", "redis"}
      /\ \A x \in Sites \ {s} : history'.moved[x] = history.moved[x]
  BY <1>3 DEF History
<1>5. /\ datum[s] + 1 \in Datums /\ datum[s] \in Nat
      /\ \A x \in Sites : datum'[x] = IF x = s THEN datum[x] + 1 ELSE datum[x]
      /\ env.changes \in Nat
  BY <1>1, Bounds DEF IInv, TypeOK, Counted, Datums
<1>6. TypeOK'
  BY <1>1, <1>2, <1>4, <1>5 DEF IInv, TypeOK, Env, History
<1>7. Right'
  BY <1>1, <1>4, <1>5 DEF IInv, Right
<1>8. Above' /\ Held'
  BY <1>1, <1>4 DEF IInv, Above, Held
<1>9. Counted'
  <2>1. \A x \in Sites : datum[x] \in Nat /\ datum[x] <= env.changes
    BY Bounds DEF IInv, TypeOK, Counted, Datums
  <2> QED
    BY <1>2, <1>5, <2>1 DEF Counted
<1>10. Loaded'
  BY <1>1 DEF IInv, Loaded
<1> QED
  BY <1>1, <1>6, <1>7, <1>8, <1>9, <1>10 DEF IInv, NoRiseIsFabricated

\* A datum that expires is no longer kept.
LEMMA ExpiryStep == ASSUME IInv, NEW s \in Sites, BaselineExpires(s) PROVE IInv'
<1>1. /\ UNCHANGED <<world, process, published>>
      /\ env' = [env EXCEPT !.expiries = @ + 1] /\ env.expiries < MAX_EXPIRIES
      /\ redis' = [redis EXCEPT ![s] = Unknown]
      /\ history' = [history EXCEPT !.kept = @ \ {s}]
  BY DEF BaselineExpires
<1>2. env' \in Env /\ env'.changes = env.changes
  BY <1>1, Bounds DEF IInv, TypeOK, Env
<1>3. /\ history' \in History /\ history'.moved = history.moved
      /\ history'.kept = history.kept \ {s} /\ history.kept \subseteq Sites
  BY <1>1 DEF IInv, TypeOK, History
<1>4. TypeOK'
  BY <1>1, <1>2, <1>3 DEF IInv, TypeOK, Env, History, world, process
<1>5. Right' /\ Held'
  BY <1>1, <1>3 DEF IInv, TypeOK, Right, Held, world, process
<1>6. Above' /\ Counted' /\ Loaded'
  BY <1>1, <1>2 DEF IInv, Above, Counted, Loaded, world, process
<1> QED
  BY <1>1, <1>4, <1>5, <1>6 DEF IInv, NoRiseIsFabricated, process

-----------------------------------------------------------------------------
(* poll_sensors() *)

\* A fault is one more in the account.
LEMMA FaultType == ASSUME IInv, Fault PROVE env' \in Env /\ env'.changes = env.changes
BY Bounds DEF IInv, TypeOK, Fault, Env

\* What a poll receives lies above the datums.
LEMMA MeasuredType ==
    ASSUME IInv, NEW s \in Sites
    PROVE  Measured(s) \in Feature /\ Measured(s).stage - Measured(s).datum \in {0, FLOOD}
<1>1. datum[s] \in Datums /\ datum[s] \in Nat
  BY Bounds DEF IInv, TypeOK, Datums
<1>2. datum[s] + (IF s \in flooded THEN FLOOD ELSE 0) \in Rises
  BY <1>1, Bounds DEF Datums, Rises
<1> QED
  BY <1>1, <1>2, Bounds DEF Measured, Feature

\* What is fetched was measured.
LEMMA FetchStep == ASSUME IInv, FetchLatest PROVE IInv'
<1>1. /\ UNCHANGED <<world, redis, memory, backoff, reading, published, history>> /\ pc' = "resolve"
      /\ env' = env \/ Fault
      /\ \A f \in todo' : \E s \in Sites : f = Measured(s)
  BY DEF FetchLatest
<1>2. env' \in Env /\ env'.changes = env.changes
  BY <1>1, FaultType DEF IInv, TypeOK, Env
<1>3. todo' \subseteq Feature /\ Above'
  BY <1>1, MeasuredType DEF Above
<1>4. TypeOK'
  BY <1>1, <1>2, <1>3 DEF IInv, TypeOK, Env, world
<1> QED
  BY <1>1, <1>2, <1>3, <1>4, CopiesStay DEF world

\* The steps of a poll that look at no copy of a datum.
LEMMA PollStep ==
    ASSUME IInv,
           \/ Poll \/ FetchFails \/ SendFails \/ Send \/ PollDone \/ Restart
           \/ \E f \in todo : HistoryFails(f) \/ BacksOff(f) \/ HistoryGarbled(f)
    PROVE  IInv'
<1>1. /\ UNCHANGED <<world, redis, memory, history>>
      /\ todo' \subseteq todo /\ reading' \in {reading, NoReading}
      /\ pc' \in {"idle", "fetch", "resolve"}
  BY DEF Poll, FetchFails, SendFails, Send, PollDone, Restart, HistoryFails, BacksOff,
         HistoryGarbled, PollEnds, Unresolved
<1>2. backoff' \subseteq Sites
  BY DEF IInv, TypeOK, Feature, Poll, FetchFails, SendFails, Send, PollDone, Restart, HistoryFails,
         BacksOff, HistoryGarbled
<1>3. published' \subseteq Sites
  <2>1. CASE Send
    <3>1. reading.site \in Sites
      BY <2>1 DEF IInv, Loaded, Send
    <3> QED
      BY <2>1, <3>1 DEF IInv, TypeOK, Send
  <2>2. CASE ~Send
    BY <2>2 DEF IInv, TypeOK, Poll, FetchFails, SendFails, PollDone, Restart, HistoryFails,
         BacksOff, HistoryGarbled
  <2> QED
    BY <2>1, <2>2
<1>4. env' \in Env /\ env'.changes = env.changes
  <2>1. \/ env' = env \/ Fault
        \/ env.garbled < MAX_GARBLED /\ env' = [env EXCEPT !.garbled = @ + 1]
    BY DEF Poll, FetchFails, SendFails, Send, PollDone, Restart, HistoryFails, BacksOff,
           HistoryGarbled
  <2> QED
    BY <2>1, FaultType, Bounds DEF IInv, TypeOK, Env
<1>5. TypeOK'
  BY <1>1, <1>2, <1>3, <1>4 DEF IInv, TypeOK, Env, world
<1>6. Above'
  BY <1>1 DEF IInv, Above
<1> QED
  BY <1>1, <1>4, <1>5, <1>6, CopiesStay DEF world

\* The reading over a datum that is the site's own if it is held for sound.
LEMMA YieldStep ==
    ASSUME IInv, NEW f \in todo, NEW base \in Datums, Yield(f, base), history' \in History,
           "memory" \notin history'.moved[f.site] => base = datum[f.site]
    PROVE  reading' \in [site : Sites, of : Reading] /\ NoRiseIsFabricated'
<1>1. /\ f.site \in Sites /\ f.stage \in Rises /\ f.datum \in Datums
      /\ f.stage - f.datum \in {0, FLOOD}
  BY DEF IInv, TypeOK, Feature, Above
<1>2. /\ f.stage \in Nat /\ f.datum \in Nat /\ base \in Nat /\ FLOOD \in Nat /\ FLOOD \in Rises
      /\ 0 \in Rises
  BY <1>1, Bounds DEF Rises, Datums
<1>3. rise(f.stage, base) \in Rises
  BY <1>1, <1>2, Bounds DEF rise, Rises, Datums
<1> DEFINE sound == "memory" \notin history'.moved[f.site] /\ f.datum = datum[f.site]
<1>4. reading' = [site |-> f.site,
                  of |-> [rise |-> rise(f.stage, base), true |-> f.stage - f.datum,
                          sound |-> sound]]
  BY DEF Yield
<1>5. sound => rise(f.stage, base) = f.stage - f.datum
  BY <1>1, <1>2 DEF rise
<1>6. f.stage - f.datum \in Rises /\ sound \in BOOLEAN
  BY <1>1, <1>2
<1> HIDE DEF sound
<1>7. reading' \in [site : Sites, of : Reading]
  BY <1>1, <1>3, <1>4, <1>6 DEF Reading
<1>8. reading'.of.sound => reading'.of.rise = reading'.of.true
  BY <1>4, <1>5
<1> QED
  BY <1>7, <1>8 DEF NoRiseIsFabricated

\* A reading over the datum in memory.
LEMMA MemoryStep == ASSUME IInv, NEW f \in todo, FromMemory(f) PROVE IInv'
<1>1. /\ UNCHANGED <<world, redis, memory, backoff, published, env, history>>
      /\ Yield(f, memory[f.site]) /\ memory[f.site] # Unknown /\ todo' \subseteq todo
      /\ pc' = "send"
  BY DEF FromMemory, Yield
<1>2. /\ f.site \in Sites /\ memory[f.site] \in Datums /\ history' \in History
      /\ "memory" \notin history'.moved[f.site] => memory[f.site] = datum[f.site]
  BY <1>1 DEF IInv, TypeOK, Right, Feature, History
<1>3. reading' \in [site : Sites, of : Reading] /\ NoRiseIsFabricated'
  BY <1>1, <1>2, YieldStep
<1>4. TypeOK' /\ Loaded'
  BY <1>1, <1>3 DEF IInv, TypeOK, Loaded, world
<1>5. Right' /\ Above' /\ Held' /\ Counted'
  BY <1>1 DEF IInv, Right, Above, Held, Counted, world
<1> QED
  BY <1>3, <1>4, <1>5 DEF IInv

\* A reading over the datum in Redis, which memory takes over.
LEMMA RedisStep == ASSUME IInv, NEW f \in todo, FromRedis(f) PROVE IInv'
<1> DEFINE s == f.site
           m == (history.moved[s] \ {"memory"})
                  \cup (IF "redis" \in history.moved[s] THEN {"memory"} ELSE {})
<1>1. /\ UNCHANGED <<world, redis, backoff, published, env>>
      /\ Yield(f, redis[s]) /\ redis[s] # Unknown /\ todo' \subseteq todo /\ pc' = "send"
      /\ memory' = [memory EXCEPT ![s] = redis[s]]
      /\ history' = [history EXCEPT !.moved = [history.moved EXCEPT ![s] = m]]
  BY DEF FromRedis, Yield, InRedis
<1>2. s \in Sites /\ redis[s] \in Datums /\ history \in History
  BY <1>1 DEF IInv, TypeOK, Feature, History
<1>3. m \in SUBSET {"memory", "redis"}
  BY <1>2 DEF History
<1>4. /\ history' \in History /\ history'.kept = history.kept /\ history'.moved[s] = m
      /\ \A x \in Sites \ {s} : history'.moved[x] = history.moved[x]
  BY <1>1, <1>2, <1>3 DEF History
<1>5. "memory" \notin m => "redis" \notin history.moved[s]
  OBVIOUS
<1>6. "redis" \notin m => "redis" \notin history.moved[s]
  OBVIOUS
<1>7. "redis" \notin history.moved[s] => redis[s] = datum[s]
  BY <1>1, <1>2 DEF IInv, Right
<1>8. reading' \in [site : Sites, of : Reading] /\ NoRiseIsFabricated'
  BY <1>1, <1>2, <1>4, <1>5, <1>7, YieldStep
<1> HIDE DEF m
<1>9. TypeOK' /\ Loaded'
  BY <1>1, <1>2, <1>4, <1>8 DEF IInv, TypeOK, Loaded, History, world
<1>10. \A x \in Sites : memory'[x] = IF x = s THEN redis[s] ELSE memory[x]
  BY <1>1, <1>2 DEF IInv, TypeOK
<1>11. Right'
  BY <1>1, <1>4, <1>5, <1>6, <1>7, <1>10 DEF IInv, Right, world
<1>12. Above' /\ Held' /\ Counted'
  BY <1>1, <1>4 DEF IInv, Above, Held, Counted, world
<1> QED
  BY <1>8, <1>9, <1>11, <1>12 DEF IInv

\* A reading over the datum of the history, which is the true one.
LEMMA HistoryStep == ASSUME IInv, NEW f \in todo, FromHistory(f) PROVE IInv'
<1> DEFINE s == f.site
           m == IF reachable THEN {} ELSE history.moved[s] \ {"memory"}
<1>1. /\ UNCHANGED <<world, backoff, published, env>>
      /\ Yield(f, datum[s]) /\ todo' \subseteq todo /\ pc' = "send"
      /\ memory' = [memory EXCEPT ![s] = datum[s]]
      /\ redis' = IF reachable THEN [redis EXCEPT ![s] = datum[s]] ELSE redis
      /\ history' = [moved |-> [history.moved EXCEPT ![s] = m],
                     kept |-> IF reachable THEN history.kept \cup {s} ELSE history.kept]
  BY DEF FromHistory, Yield, Persisted
<1>2. s \in Sites /\ datum[s] \in Datums /\ history \in History
  BY <1>1 DEF IInv, TypeOK, Feature, History
<1>3. /\ m \in SUBSET {"memory", "redis"}
      /\ "redis" \notin m => reachable \/ "redis" \notin history.moved[s]
  BY <1>2 DEF History
<1> HIDE DEF m
<1>4. /\ history' \in History /\ history'.moved[s] = m
      /\ \A x \in Sites \ {s} : history'.moved[x] = history.moved[x]
      /\ history'.kept \subseteq IF reachable THEN history.kept \cup {s} ELSE history.kept
  BY <1>1, <1>2, <1>3 DEF History
<1>5. reading' \in [site : Sites, of : Reading] /\ NoRiseIsFabricated'
  BY <1>1, <1>2, <1>4, YieldStep
<1>6. /\ \A x \in Sites : memory'[x] = IF x = s THEN datum[s] ELSE memory[x]
      /\ \A x \in Sites : redis'[x] = IF x = s /\ reachable THEN datum[s] ELSE redis[x]
      /\ datum' = datum
  BY <1>1, <1>2 DEF IInv, TypeOK, world
<1>7. /\ memory' \in [Sites -> Datums \cup {Unknown}]
      /\ redis' \in [Sites -> Datums \cup {Unknown}]
  BY <1>1, <1>2 DEF IInv, TypeOK
<1>8. TypeOK' /\ Loaded'
  BY <1>1, <1>4, <1>5, <1>7 DEF IInv, TypeOK, Loaded, History, world
<1>9. Right'
  BY <1>3, <1>4, <1>6 DEF IInv, Right
<1>10. datum[s] # Unknown
  BY <1>2, Bounds
<1>11. Held'
  <2> SUFFICES ASSUME NEW x \in history'.kept PROVE redis'[x] # Unknown
    BY DEF Held
  <2>1. x \in history.kept \/ (x = s /\ reachable)
    BY <1>4
  <2>2. x \in Sites
    BY <1>2, <2>1 DEF History
  <2> QED
    BY <1>6, <1>10, <2>1, <2>2 DEF IInv, Held
<1>12. Above' /\ Counted'
  BY <1>1 DEF IInv, Above, Counted, world
<1> QED
  BY <1>5, <1>8, <1>9, <1>11, <1>12 DEF IInv

\* A death takes the copies in memory with it.
LEMMA CrashStep == ASSUME IInv, Crash PROVE IInv'
<1>1. /\ UNCHANGED <<world, redis, published, history>>
      /\ env' = [env EXCEPT !.crashes = @ + 1] /\ env.crashes < MAX_CRASHES
      /\ memory' = [x \in Sites |-> Unknown] /\ backoff' = {} /\ todo' = {}
      /\ reading' = NoReading /\ pc' = "down"
  BY DEF Crash
<1>2. env' \in Env /\ env'.changes = env.changes
  BY <1>1, Bounds DEF IInv, TypeOK, Env
<1>3. TypeOK'
  BY <1>1, <1>2 DEF IInv, TypeOK, Env, world
<1>4. Right' /\ Above' /\ Held' /\ Counted' /\ Loaded'
  BY <1>1, <1>2 DEF IInv, Right, Above, Held, Counted, Loaded, world
<1> QED
  BY <1>1, <1>3, <1>4 DEF IInv, NoRiseIsFabricated

\* A step that changes nothing keeps the invariant.
LEMMA StutterStep == ASSUME IInv, UNCHANGED vars PROVE IInv'
<1>1. TypeOK' /\ Right' /\ Above'
  BY DEF IInv, TypeOK, Right, Above, vars, world, process
<1>2. Held' /\ Counted' /\ Loaded' /\ NoRiseIsFabricated'
  BY DEF IInv, Held, Counted, Loaded, NoRiseIsFabricated, vars, world, process
<1> QED
  BY <1>1, <1>2 DEF IInv

\* Every step keeps the invariant.
LEMMA NextIInv == ASSUME IInv, [Next]_vars PROVE IInv'
<1>1. CASE Environment
  <2>1. \/ (\E s \in Sites : WaterMoves(s) \/ RetryPasses(s)) \/ RedisToggles
        \/ \E s \in Sites : ChannelChanges(s) \/ BaselineExpires(s)
    BY <1>1 DEF Environment
  <2> QED
    BY <2>1, WorldStep, ChannelStep, ExpiryStep
<1>2. CASE Collector
  <2>1. CASE FetchLatest
    BY <2>1, FetchStep
  <2>2. CASE ResolveBaseline
    BY <2>2, MemoryStep, RedisStep, HistoryStep, PollStep DEF ResolveBaseline
  <2> QED
    BY <1>2, <2>1, <2>2, PollStep DEF Collector
<1>3. CASE Crash
  BY <1>3, CrashStep
<1>4. CASE Restart
  BY <1>4, PollStep
<1>5. CASE UNCHANGED vars
  BY <1>5, StutterStep
<1> QED
  BY <1>1, <1>2, <1>3, <1>4, <1>5 DEF Next

-----------------------------------------------------------------------------
(* Theorems *)

\* The invariant of every reachable state, which the theorems below rest on.
THEOREM Invariance == Spec => []IInv
BY InitIInv, NextIInv, PTL DEF Spec

\* Every reachable state is well typed.
THEOREM TypeCorrect == Spec => []TypeOK
<1>1. IInv => TypeOK
  BY DEF IInv
<1> QED
  BY <1>1, Invariance, PTL

\* E-026, for any number of gauges, restarts, lost datums and failing
\* requests: resolve_baseline() gives a datum that still holds, or none.
THEOREM RisesHold == Spec => []NoRiseIsFabricated
<1>1. IInv => NoRiseIsFabricated
  BY DEF IInv
<1> QED
  BY <1>1, Invariance, PTL

\* While Redis answers, a site whose datum was persisted is never withheld.
THEOREM KeptHolds == Spec => KeptDatumIsUsed
<1> DEFINE Uses == \A f \in Feature :
               /\ f \in todo /\ f \notin todo'
               /\ pc = "resolve" /\ pc' = "resolve"
               => ~(reachable /\ f.site \in history.kept)
<1>1. IInv /\ [Next]_vars => [Uses]_vars
  <2> SUFFICES ASSUME IInv, [Next]_vars, NEW f \in Feature, f \in todo, f \notin todo', pc = "resolve",
                      pc' = "resolve", reachable, f.site \in history.kept
               PROVE  FALSE
    OBVIOUS
  <2>1. InRedis(f.site)
    BY DEF IInv, Held, InRedis
  <2>2. PICK g \in todo : HistoryFails(g) \/ BacksOff(g)
    <3>1. ~UNCHANGED todo
      OBVIOUS
    <3>2. ~Environment /\ ~UNCHANGED vars
      BY <3>1 DEF Environment, WaterMoves, ChannelChanges, BaselineExpires, RetryPasses,
           RedisToggles, process, vars
    <3>3. ~Crash /\ ~Restart
      BY DEF Crash, Restart
    <3>4. ~Poll /\ ~FetchLatest /\ ~FetchFails /\ ~Send /\ ~SendFails /\ ~PollDone
      BY DEF Poll, FetchLatest, FetchFails, Send, SendFails, PollDone, PollEnds
    <3>5. \A g \in todo : ~FromMemory(g) /\ ~FromRedis(g) /\ ~FromHistory(g) /\ ~HistoryGarbled(g)
      BY DEF FromMemory, FromRedis, FromHistory, HistoryGarbled, Yield, PollEnds
    <3> QED
      BY <3>2, <3>3, <3>4, <3>5 DEF Next, Collector, ResolveBaseline
  <2>3. todo' = todo \ {g} /\ ~InRedis(g.site)
    BY <2>2 DEF HistoryFails, BacksOff, Unresolved, Asks
  <2>4. g = f
    BY <2>3
  <2> QED
    BY <2>1, <2>3, <2>4
<1> QED
  BY <1>1, Invariance, PTL DEF Spec, KeptDatumIsUsed
=============================================================================

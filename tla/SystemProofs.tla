---------------------------- MODULE SystemProofs ----------------------------
(***************************************************************************)
(* The composed system, for any constants of its parts: pool() builds one  *)
(* pool and never leaves its lock behind, the alerts table holds no        *)
(* version that was not listed, an active zone's advisory is at the level  *)
(* of its last detection, and each part keeps its invariants while the     *)
(* others rest.  Those of the worker and of the mock are proved in         *)
(* WorkerLoopProofs and MockServerProofs.                                  *)
(***************************************************************************)
EXTENDS MCSystem, WorkerLoopProofs, MockServerProofs

-----------------------------------------------------------------------------
(* pool() and client(): the lock admits one thread at a time, whatever the  *)
(* unlocked test saw, and so one pool is built.                             *)

\* The lock is held as long as some thread is between Acquire and Unlock, and
\* two never are.
Exclusive ==
    /\ \A t \in Threads : line[t] \in Locked => _pool_lock
    /\ \A s, t \in Threads : line[s] \in Locked /\ line[t] \in Locked => s = t

\* The variable tells what was built, and a thread that is about to build still
\* finds nothing there.
Remembered ==
    /\ built = IF _pool = None THEN 0 ELSE 1
    /\ \A t \in Threads : line[t] = "build" => _pool = None

PoolInv == PoolTypeOK /\ Exclusive /\ Remembered

\* The invariant holds before any thread has called.
LEMMA InitPoolInv == PoolInit => PoolInv
<1> SUFFICES ASSUME PoolInit PROVE PoolInv
  OBVIOUS
<1>1. \A t \in Threads : line[t] \notin Locked /\ line[t] # "build"
  BY DEF PoolInit, Locked
<1>2. PoolTypeOK
  <2>1. 0 \in 0..MAX_RAISES
    BY PoolAssumption
  <2> QED BY <2>1 DEF PoolInit, PoolTypeOK, Lines
<1>3. Exclusive /\ Remembered
  BY <1>1 DEF PoolInit, Exclusive, Remembered
<1> QED BY <1>2, <1>3 DEF PoolInv

\* A step outside of the lock leaves it, the pool and the threads inside alone:
\* the common part of five of the actions.
LEMMA OutsideStep ==
    ASSUME PoolInv, NEW t \in Threads, line[t] \notin Locked,
           NEW next \in Lines \ Locked, GoesTo(t, next),
           UNCHANGED <<_pool, built, _pool_lock, raised>>
    PROVE  PoolInv'
<1>1. /\ line' \in [Threads -> Lines]
      /\ \A s \in Threads : line'[s] \in Locked => line[s] \in Locked /\ line'[s] = line[s]
  BY DEF PoolInv, PoolTypeOK, GoesTo, Locked, Lines
<1>2. PoolTypeOK'
  BY <1>1 DEF PoolInv, PoolTypeOK
<1>3. Exclusive'
  BY <1>1 DEF PoolInv, Exclusive
<1>4. Remembered'
  BY <1>1 DEF PoolInv, Remembered, Locked
<1> QED BY <1>2, <1>3, <1>4 DEF PoolInv

\* No thread is inside when the lock is free, so the one that takes it is alone.
LEMMA AcquireStep == ASSUME PoolInv, NEW t \in Threads, Acquire(t) PROVE PoolInv'
<1>1. /\ line' \in [Threads -> Lines]
      /\ line'[t] = "retest"
      /\ \A s \in Threads \ {t} : line'[s] = line[s]
  BY DEF PoolInv, PoolTypeOK, Acquire, GoesTo, Lines
<1>2. \A s \in Threads : line[s] \notin Locked
  BY DEF PoolInv, Exclusive, Acquire
<1>3. PoolTypeOK'
  BY <1>1 DEF PoolInv, PoolTypeOK, Acquire
<1>4. Exclusive'
  BY <1>1, <1>2 DEF Exclusive, Acquire
<1>5. Remembered'
  BY <1>1 DEF PoolInv, Remembered, Acquire
<1> QED BY <1>3, <1>4, <1>5 DEF PoolInv

\* The second test: only a thread that finds no pool goes on to build one.
LEMMA RetestStep == ASSUME PoolInv, NEW t \in Threads, Retest(t) PROVE PoolInv'
<1>1. /\ line' \in [Threads -> Lines]
      /\ line'[t] = AfterRetest
      /\ \A s \in Threads \ {t} : line'[s] = line[s]
      /\ AfterRetest \in Locked
  BY DEF PoolInv, PoolTypeOK, Retest, GoesTo, AfterRetest, Lines, Locked
<1>2. line[t] \in Locked
  BY DEF Retest, Locked
<1>3. PoolTypeOK'
  BY <1>1 DEF PoolInv, PoolTypeOK, Retest
<1>4. Exclusive'
  BY <1>1, <1>2 DEF PoolInv, Exclusive, Retest
<1>5. Remembered'
  BY <1>1 DEF PoolInv, Remembered, Retest, AfterRetest
<1> QED BY <1>3, <1>4, <1>5 DEF PoolInv

\* The builder is alone inside, and it found no pool: this is the first one.
LEMMA BuildStep == ASSUME PoolInv, NEW t \in Threads, Build(t) PROVE PoolInv'
<1>1. /\ line' \in [Threads -> Lines]
      /\ line'[t] = "unlock"
      /\ \A s \in Threads \ {t} : line'[s] = line[s]
  BY DEF PoolInv, PoolTypeOK, Build, GoesTo, Lines
<1>2. line[t] \in Locked /\ line'[t] \in Locked
  BY <1>1 DEF Build, Locked
<1>3. \A s \in Threads \ {t} : line[s] \notin Locked
  BY <1>2 DEF PoolInv, Exclusive
<1>4. built = 0 /\ built' = 1
  BY DEF PoolInv, Remembered, Build
<1>5. PoolTypeOK'
  BY <1>1, <1>4 DEF PoolInv, PoolTypeOK, Build
<1>6. Exclusive'
  BY <1>1, <1>2, <1>3 DEF PoolInv, Exclusive, Build
<1>7. Remembered'
  BY <1>1, <1>3, <1>4 DEF Remembered, Build, Pool, None, Locked
<1> QED BY <1>5, <1>6, <1>7 DEF PoolInv

\* The one that leaves leaves nobody inside.
LEMMA UnlockStep == ASSUME PoolInv, NEW t \in Threads, Unlock(t) PROVE PoolInv'
<1>1. /\ line' \in [Threads -> Lines]
      /\ line'[t] = "borrow"
      /\ \A s \in Threads \ {t} : line'[s] = line[s]
  BY DEF PoolInv, PoolTypeOK, Unlock, GoesTo, Lines
<1>2. line[t] \in Locked
  BY DEF Unlock, Locked
<1>3. \A s \in Threads : line'[s] \notin Locked
  BY <1>1, <1>2 DEF PoolInv, Exclusive, Locked
<1>4. PoolTypeOK'
  BY <1>1 DEF PoolInv, PoolTypeOK, Unlock, Released
<1>5. Exclusive'
  BY <1>3 DEF Exclusive
<1>6. Remembered'
  BY <1>3 DEF PoolInv, Remembered, Unlock, Locked
<1> QED BY <1>4, <1>5, <1>6 DEF PoolInv

\* Neither does one whose constructor raises, and the next builder finds none.
LEMMA BuildFailsStep == ASSUME PoolInv, NEW t \in Threads, BuildFails(t) PROVE PoolInv'
<1>1. /\ line' \in [Threads -> Lines]
      /\ line'[t] = "idle"
      /\ \A s \in Threads \ {t} : line'[s] = line[s]
  BY DEF PoolInv, PoolTypeOK, BuildFails, GoesTo, Lines
<1>2. line[t] \in Locked
  BY DEF BuildFails, Locked
<1>3. \A s \in Threads : line'[s] \notin Locked
  BY <1>1, <1>2 DEF PoolInv, Exclusive, Locked
<1>4. raised' \in 0..MAX_RAISES
  BY PoolAssumption DEF PoolInv, PoolTypeOK, BuildFails
<1>5. PoolTypeOK'
  BY <1>1, <1>4 DEF PoolInv, PoolTypeOK, BuildFails, Released
<1>6. Exclusive'
  BY <1>3 DEF Exclusive
<1>7. Remembered'
  BY <1>3 DEF PoolInv, Remembered, BuildFails, Locked
<1> QED BY <1>5, <1>6, <1>7 DEF PoolInv

\* Every step of every thread keeps the invariant.
LEMMA NextPoolInv == PoolInv /\ [PoolNext]_poolvars => PoolInv'
<1> SUFFICES ASSUME PoolInv, [PoolNext]_poolvars PROVE PoolInv'
  OBVIOUS
<1>1. CASE UNCHANGED poolvars
  BY <1>1 DEF PoolInv, PoolTypeOK, Exclusive, Remembered, poolvars
<1>2. ASSUME NEW t \in Threads, Call(t) PROVE PoolInv'
  <2>1. line[t] \notin Locked /\ GoesTo(t, "test") /\ "test" \in Lines \ Locked
    BY <1>2 DEF Call, Locked, Lines
  <2> QED BY <1>2, <2>1, OutsideStep DEF Call
<1>3. ASSUME NEW t \in Threads, Test(t) PROVE PoolInv'
  <2> DEFINE next == IF _pool = None THEN "lock" ELSE "borrow"
  <2>1. line[t] \notin Locked /\ next \in Lines \ Locked
    BY <1>3 DEF Test, Locked, Lines
  <2>2. GoesTo(t, next) /\ UNCHANGED <<_pool, built, _pool_lock, raised>>
    BY <1>3 DEF Test
  <2> HIDE DEF next
  <2> QED BY <2>1, <2>2, OutsideStep
<1>4. ASSUME NEW t \in Threads, Borrow(t) PROVE PoolInv'
  <2>1. line[t] \notin Locked /\ GoesTo(t, "query") /\ "query" \in Lines \ Locked
    BY <1>4 DEF Borrow, Locked, Lines
  <2> QED BY <1>4, <2>1, OutsideStep DEF Borrow
<1>5. ASSUME NEW t \in Threads, BorrowTimesOut(t) \/ Query(t) PROVE PoolInv'
  <2>1. line[t] \notin Locked /\ GoesTo(t, "idle") /\ "idle" \in Lines \ Locked
    BY <1>5 DEF BorrowTimesOut, Query, Locked, Lines
  <2> QED BY <1>5, <2>1, OutsideStep DEF BorrowTimesOut, Query
<1>6. CASE \E t \in Threads : Call(t) \/ Step(t)
  BY <1>2, <1>3, <1>4, <1>5, <1>6, AcquireStep, RetestStep, BuildStep,
     BuildFailsStep, UnlockStep DEF Step
<1> QED BY <1>1, <1>6 DEF PoolNext

\* pool() is well typed for every set of threads.
THEOREM PoolTypeCorrect == PoolSpec => []PoolTypeOK
<1>1. PoolInv => PoolTypeOK
  BY DEF PoolInv
<1> QED BY InitPoolInv, NextPoolInv, <1>1, PTL DEF PoolSpec

\* The double-checked lock of db.pool() and cache.client(): however many
\* threads see None at once, one pool is built.
THEOREM OnePoolBuilt == PoolSpec => []OnePool
<1>1. PoolInv => OnePool
  BY DEF PoolInv, Remembered, OnePool
<1> QED BY InitPoolInv, NextPoolInv, <1>1, PTL DEF PoolSpec

\* The safety half of EveryCallEnds: the lock is held by a thread that can go
\* on, so nobody waits for one that was left locked.
Held == _pool_lock => \E t \in Threads : line[t] \in Locked

\* The thread inside stays there until it releases the lock.
LEMMA HeldStep == PoolInv /\ Held /\ [PoolNext]_poolvars => Held'
<1> SUFFICES ASSUME PoolInv, Held, PoolNext, _pool_lock' PROVE \E t \in Threads : line'[t] \in Locked
  BY DEF Held, poolvars
<1>1. PICK t \in Threads : Call(t) \/ Step(t)
  BY DEF PoolNext
<1>2. line \in [Threads -> Lines]
  BY DEF PoolInv, PoolTypeOK
<1>3. CASE Acquire(t) \/ Retest(t) \/ Build(t)
  BY <1>2, <1>3 DEF Acquire, Retest, Build, GoesTo, AfterRetest, Locked
<1>4. CASE Call(t) \/ Test(t) \/ Borrow(t) \/ BorrowTimesOut(t) \/ Query(t)
  <2>1. _pool_lock /\ line[t] \notin Locked
    BY <1>4 DEF Call, Test, Borrow, BorrowTimesOut, Query, Locked
  <2>2. PICK s \in Threads : line[s] \in Locked
    BY <2>1 DEF Held
  <2>3. line'[s] = line[s]
    BY <1>2, <1>4, <2>1, <2>2 DEF Call, Test, Borrow, BorrowTimesOut, Query, GoesTo
  <2> QED BY <2>2, <2>3
<1>5. ~Unlock(t) /\ ~BuildFails(t)
  BY DEF Unlock, BuildFails, Released
<1> QED BY <1>1, <1>3, <1>4, <1>5 DEF Step

\* The lock is never left behind, however many threads come for it.
THEOREM LockIsHeld == PoolSpec => []Held
<1>1. PoolInit => Held
  BY DEF PoolInit, Held
<1> QED BY <1>1, HeldStep, InitPoolInv, NextPoolInv, PTL DEF PoolSpec

-----------------------------------------------------------------------------
(* The alert feed. *)

\* The queue keeps its type over every operation of SQS.
LEMMA QueueTypes ==
    ASSUME NEW q \in [Units -> Message], NEW u \in Units
    PROVE  /\ Deleted(q, u) \in [Units -> Message]
           /\ TimedOut(q, u) \in [Units -> Message]
           /\ Redriven(q, u) \in [Units -> Message]
           /\ Resurfaced(q, u) \in [Units -> Message]
           /\ [q EXCEPT ![u] = [at |-> "visible", receives |-> 0]] \in [Units -> Message]
           /\ u \in Receivable(q) => Received(q, {u}) \in [Units -> Message]
<1>1. q[u] \in Message /\ MAX_RECEIVE \in Nat
  BY MaxReceiveAssumption
<1>2. \A p \in Places : [q EXCEPT ![u].at = p] \in [Units -> Message]
  BY <1>1 DEF Message
<1>3. /\ Deleted(q, u) \in [Units -> Message]
      /\ TimedOut(q, u) \in [Units -> Message]
      /\ Redriven(q, u) \in [Units -> Message]
      /\ Resurfaced(q, u) \in [Units -> Message]
  BY <1>2 DEF Deleted, TimedOut, Redriven, Resurfaced, Places
<1>4. [at |-> "visible", receives |-> 0] \in Message
  BY <1>1 DEF Message, Places
<1>5. ASSUME u \in Receivable(q) PROVE Received(q, {u}) \in [Units -> Message]
  <2>1. q[u].receives + 1 \in 0..MAX_RECEIVE
    BY <1>1, <1>5 DEF Receivable, Exhausted, Message
  <2>2. [at |-> "inflight", receives |-> q[u].receives + 1] \in Message
    BY <2>1 DEF Message, Places
  <2> QED BY <2>2 DEF Received
<1> QED BY <1>3, <1>4, <1>5

\* AlertFeed has the same queue.
LEMMA SameQueue ==
    /\ A!Message = Message /\ A!EmptyQueue = EmptyQueue
    /\ \A q : A!Receivable(q) = Receivable(q)
    /\ \A q, u : /\ A!Deleted(q, u) = Deleted(q, u) /\ A!TimedOut(q, u) = TimedOut(q, u)
                 /\ A!Redriven(q, u) = Redriven(q, u) /\ A!Received(q, u) = Received(q, u)
                 /\ A!Resurfaced(q, u) = Resurfaced(q, u)
  BY DEF Message, A!Message, Places, A!Places, EmptyQueue, A!EmptyQueue, Receivable,
     A!Receivable, In, A!In, Exhausted, A!Exhausted, Deleted, A!Deleted, TimedOut, A!TimedOut,
     Redriven, A!Redriven, Resurfaced, A!Resurfaced, Received, A!Received

\* The correlator handles a message of the queue.
FeedInv == A!TypeOK /\ (step # "receive" => holding \in Units)

\* The feed before the first alert.
LEMMA InitFeedInv == A!Init => FeedInv
<1> SUFFICES ASSUME A!Init PROVE FeedInv
  OBVIOUS
<1>1. ingest \in [Units -> Message]
  BY MaxReceiveAssumption, SameQueue DEF A!Init, EmptyQueue, Message, Places
<1>2. /\ ISSUES \in Nat \ {0} /\ LIFE \in Nat \ {0} /\ WINDOW \in Nat \ {0} /\ MAX_ERRORS \in Nat
  BY SystemAssumption DEF A!AlertFeedAssumption
<1>3. /\ listed \in A!Versions \cup {0, A!Delisted}
      /\ left \in [A!Versions -> 0..LIFE]
      /\ content \in [Units -> A!Versions]
  BY <1>2 DEF A!Init, A!Versions
<1>4. /\ todo \subseteq A!Versions /\ holding \in Units \cup {A!NoMessage}
      /\ step = "receive" /\ row \in A!Versions \cup {A!NoRow}
  BY DEF A!Init
<1>5. unseen \in 0..WINDOW /\ errors \in 0..MAX_ERRORS
  BY <1>2 DEF A!Init
<1> QED BY <1>1, <1>3, <1>4, <1>5, SameQueue DEF FeedInv, A!TypeOK

\* Every step of the feed, of its two workers and of the queue keeps it.
LEMMA NextFeedInv == FeedInv /\ [A!Next]_alertvars => FeedInv'
<1> SUFFICES ASSUME FeedInv, [A!Next]_alertvars PROVE FeedInv'
  OBVIOUS
<1>0. /\ ISSUES \in Nat \ {0} /\ LIFE \in Nat \ {0} /\ WINDOW \in Nat \ {0} /\ MAX_ERRORS \in Nat
  BY SystemAssumption DEF A!AlertFeedAssumption
<1>1. /\ listed \in A!Versions \cup {0, A!Delisted} /\ left \in [A!Versions -> 0..LIFE]
      /\ todo \subseteq A!Versions /\ ingest \in [Units -> Message]
      /\ content \in [Units -> A!Versions] /\ holding \in Units \cup {A!NoMessage}
      /\ step \in {"receive", "upsert", "delete"} /\ row \in A!Versions \cup {A!NoRow}
      /\ unseen \in 0..WINDOW /\ errors \in 0..MAX_ERRORS
      /\ step # "receive" => holding \in Units
  BY SameQueue DEF FeedInv, A!TypeOK
<1>2. ASSUME listed' \in A!Versions \cup {0, A!Delisted}, left' \in [A!Versions -> 0..LIFE],
             todo' \subseteq A!Versions, ingest' \in [Units -> Message],
             content' \in [Units -> A!Versions], holding' \in Units \cup {A!NoMessage},
             step' \in {"receive", "upsert", "delete"}, row' \in A!Versions \cup {A!NoRow},
             unseen' \in 0..WINDOW, errors' \in 0..MAX_ERRORS,
             step' # "receive" => holding' \in Units
      PROVE  FeedInv'
  BY <1>2, SameQueue DEF FeedInv, A!TypeOK
<1>3. CASE A!Issue
  <2>1. listed' \in A!Versions \cup {0, A!Delisted}
    BY <1>0, <1>1, <1>3 DEF A!Issue, A!Versions, A!Delisted
  <2> QED BY <1>1, <1>2, <1>3, <2>1 DEF A!Issue
<1>4. CASE A!Tick
  <2>1. left' \in [A!Versions -> 0..LIFE]
    BY <1>0, <1>1, <1>4 DEF A!Tick
  <2>2. unseen' \in 0..WINDOW
    BY <1>0, <1>1, <1>4 DEF A!Tick
  <2> QED BY <1>1, <1>2, <1>4, <2>1, <2>2 DEF A!Tick
<1>5. CASE A!Poll
  BY <1>1, <1>2, <1>5 DEF A!Poll, A!feed
<1>6. CASE A!PollFails
  <2>1. errors' \in 0..MAX_ERRORS
    BY <1>0, <1>1, <1>6 DEF A!PollFails
  <2> QED BY <1>1, <1>2, <1>6, <2>1 DEF A!PollFails, A!feed
<1>7. ASSUME NEW u \in Units, A!Publish(u) PROVE FeedInv'
  <2>1. ingest' \in [Units -> Message]
    BY <1>1, <1>7, QueueTypes DEF A!Publish
  <2>2. content' \in [Units -> A!Versions] /\ todo' \subseteq A!Versions
    BY <1>1, <1>7 DEF A!Publish
  <2> QED BY <1>1, <1>2, <1>7, <2>1, <2>2 DEF A!Publish, A!feed
<1>8. ASSUME NEW u \in Units, A!Receive(u) PROVE FeedInv'
  <2>1. ingest' \in [Units -> Message]
    BY <1>1, <1>8, QueueTypes, SameQueue DEF A!Receive
  <2> QED BY <1>1, <1>2, <1>8, <2>1 DEF A!Receive, A!feed
<1>9. CASE A!UpsertAlert
  <2>1. row' \in A!Versions \cup {A!NoRow} /\ unseen' \in 0..WINDOW
    BY <1>0, <1>1, <1>9 DEF A!UpsertAlert, A!Upserted, A!Touched
  <2> QED BY <1>1, <1>2, <1>9, <2>1 DEF A!UpsertAlert, A!feed
<1>10. CASE A!Delete
  <2>1. ingest' \in [Units -> Message]
    BY <1>1, <1>10, QueueTypes, SameQueue DEF A!Delete
  <2> QED BY <1>1, <1>2, <1>10, <2>1 DEF A!Delete, A!feed
<1>11. CASE A!HandlerFails
  <2>1. errors' \in 0..MAX_ERRORS
    BY <1>0, <1>1, <1>11 DEF A!HandlerFails
  <2> QED BY <1>1, <1>2, <1>11, <2>1 DEF A!HandlerFails, A!feed
<1>12. ASSUME NEW u \in Units, A!Expire(u) \/ A!DeadLetter(u) PROVE FeedInv'
  <2>1. ingest' = TimedOut(ingest, u) \/ ingest' = Redriven(ingest, u)
    BY <1>12, SameQueue DEF A!Expire, A!DeadLetter
  <2>2. TimedOut(ingest, u) \in [Units -> Message] /\ Redriven(ingest, u) \in [Units -> Message]
    BY <1>1, <1>12, QueueTypes
  <2> QED BY <1>1, <1>2, <1>12, <2>1, <2>2 DEF A!Expire, A!DeadLetter, A!feed
<1>13. ASSUME NEW u \in Units, A!DeliverAgain(u) PROVE FeedInv'
  <2>1. ingest' \in [Units -> Message]
    BY <1>1, <1>13, QueueTypes, SameQueue DEF A!DeliverAgain
  <2>2. errors' \in 0..MAX_ERRORS
    BY <1>0, <1>1, <1>13 DEF A!DeliverAgain
  <2> QED BY <1>1, <1>2, <1>13, <2>1, <2>2 DEF A!DeliverAgain, A!feed
<1>14. CASE UNCHANGED alertvars
  BY <1>1, <1>2, <1>14 DEF alertvars
<1> QED BY <1>3, <1>4, <1>5, <1>6, <1>7, <1>8, <1>9, <1>10, <1>11, <1>12, <1>13, <1>14
        DEF A!Next, A!Collector, A!Correlator, A!Sqs

\* What is on its way to the table was listed: the poll sends no version that is
\* not listed yet, and the correlator handles what was sent.
Listed ==
    /\ \A f \in todo : f <= listed
    /\ \A u \in Units : ingest[u].at # "unsent" => content[u] <= listed
    /\ step # "receive" => ingest[holding].at = "inflight"
    /\ row <= listed

\* A queue keeps the places of the other messages.
LEMMA OthersStay ==
    ASSUME NEW q \in [Units -> Message], NEW u \in Units
    PROVE  /\ \A v \in Units : v # u => /\ Deleted(q, u)[v] = q[v] /\ TimedOut(q, u)[v] = q[v]
                                        /\ Redriven(q, u)[v] = q[v] /\ Received(q, {u})[v] = q[v]
                                        /\ Resurfaced(q, u)[v] = q[v]
           /\ Received(q, {u})[u].at = "inflight"
  BY DEF Deleted, TimedOut, Redriven, Resurfaced, Received

\* Every step keeps it: a message once sent is never unsent again, and the
\* feed only goes on.
LEMMA ListedStep == FeedInv /\ Listed /\ [A!Next]_alertvars => Listed'
<1> SUFFICES ASSUME FeedInv, Listed, [A!Next]_alertvars PROVE Listed'
  OBVIOUS
<1>1. /\ ISSUES \in Nat \ {0} /\ listed \in 0..(ISSUES + 1) /\ row \in 0..ISSUES
      /\ todo \subseteq 1..ISSUES /\ ingest \in [Units -> Message]
      /\ content \in [Units -> 1..ISSUES]
      /\ step # "receive" => holding \in Units
  BY SameQueue, SystemAssumption
     DEF FeedInv, A!TypeOK, A!Versions, A!Delisted, A!NoRow, A!AlertFeedAssumption
<1>2. CASE A!Issue
  <2>1. listed' \in Nat /\ listed <= listed'
    BY <1>1, <1>2 DEF A!Issue, A!Delisted
  <2> QED BY <1>1, <1>2, <2>1 DEF A!Issue, Listed
<1>3. CASE A!Tick \/ A!PollFails \/ UNCHANGED alertvars
  BY <1>3 DEF A!Tick, A!PollFails, A!feed, alertvars, Listed
<1>4. CASE A!Poll
  BY <1>1, <1>4 DEF A!Poll, A!feed, Listed
<1>5. ASSUME NEW u \in Units, A!Publish(u) PROVE Listed'
  <2>1. PICK f \in todo : content' = [content EXCEPT ![u] = f] /\ todo' = todo \ {f}
    BY <1>5 DEF A!Publish
  <2>2. step # "receive" => holding # u
    BY <1>5 DEF A!Publish, A!Spare, Listed
  <2>3. UNCHANGED <<listed, holding, step, row>>
    BY <1>5 DEF A!Publish, A!feed
  <2>4. \A v \in Units \ {u} : ingest'[v] = ingest[v] /\ content'[v] = content[v]
    BY <1>1, <1>5, <2>1 DEF A!Publish
  <2>5. content'[u] = f
    BY <1>1, <2>1
  <2> QED BY <1>1, <2>1, <2>2, <2>3, <2>4, <2>5 DEF Listed
<1>6. ASSUME NEW u \in Units, A!Receive(u) PROVE Listed'
  <2>1. /\ ingest' = Received(ingest, {u}) /\ ingest[u].at = "visible"
        /\ holding' = u /\ UNCHANGED <<listed, todo, content, row>>
    BY <1>6, SameQueue DEF A!Receive, A!feed, Receivable, In
  <2>2. ingest'[u].at = "inflight" /\ \A v \in Units : v # u => ingest'[v] = ingest[v]
    BY <1>1, <2>1, OthersStay
  <2> QED BY <1>1, <2>1, <2>2 DEF Listed
<1>7. CASE A!UpsertAlert
  <2>1. step = "upsert" /\ row' = content[holding]
    BY <1>7 DEF A!UpsertAlert, A!Upserted
  <2>2. row' <= listed
    BY <1>1, <2>1 DEF Listed
  <2> QED BY <1>7, <2>1, <2>2 DEF A!UpsertAlert, A!feed, Listed
<1>8. CASE A!Delete
  <2>1. /\ ingest' = Deleted(ingest, holding) /\ holding \in Units
        /\ step = "delete" /\ step' = "receive" /\ UNCHANGED <<listed, todo, content, row>>
    BY <1>1, <1>8, SameQueue DEF A!Delete, A!feed
  <2>2. \A v \in Units : v # holding => ingest'[v] = ingest[v]
    BY <1>1, <2>1, OthersStay
  <2> QED BY <1>1, <2>1, <2>2 DEF Listed
<1>9. CASE A!HandlerFails
  BY <1>9 DEF A!HandlerFails, A!feed, Listed
<1>10. ASSUME NEW u \in Units, A!Expire(u) \/ A!DeadLetter(u) \/ A!DeliverAgain(u) PROVE Listed'
  <2>1. /\ \/ ingest' = TimedOut(ingest, u) \/ ingest' = Redriven(ingest, u)
           \/ ingest' = Resurfaced(ingest, u)
        /\ ingest[u].at # "unsent" /\ (step # "receive" => holding # u)
        /\ UNCHANGED <<listed, todo, content, row, holding, step>>
    BY <1>10, SameQueue DEF A!Expire, A!DeadLetter, A!DeliverAgain, A!feed, Listed
  <2>2. \A v \in Units : v # u => /\ TimedOut(ingest, u)[v] = ingest[v]
                                  /\ Redriven(ingest, u)[v] = ingest[v]
                                  /\ Resurfaced(ingest, u)[v] = ingest[v]
    BY <1>1, <1>10, OthersStay
  <2>3. \A v \in Units : v # u => ingest'[v] = ingest[v]
    BY <2>1, <2>2
  <2> QED BY <1>1, <2>1, <2>3 DEF Listed
<1> QED BY <1>2, <1>3, <1>4, <1>5, <1>6, <1>7, <1>8, <1>9, <1>10
        DEF A!Next, A!Collector, A!Correlator, A!Sqs

\* The alerts table never holds a version that the feed has not listed, however
\* often and in whatever order the messages are delivered (upsert_alert).
THEOREM StoredWasListed == A!Init /\ [][A!Next]_alertvars => [](row <= listed)
<1>1. A!Init => Listed
  BY SameQueue DEF A!Init, Listed, EmptyQueue, A!NoRow
<1>2. Listed => row <= listed
  BY DEF Listed
<1> QED BY <1>1, <1>2, InitFeedInv, NextFeedInv, ListedStep, PTL

-----------------------------------------------------------------------------
(* The pipeline. *)

\* What a message may say is a zone, a depth and an alert.
LEMMA ClustersAreZones ==
    ASSUME PipelineTypeOK, NEW clusters \in current_clusters[flooded]
    PROVE  {[zone |-> stable_zone_id(z), depth |-> max_depth_cm, alert |-> under_alert] :
               z \in clusters} \subseteq Detection
<1>1. flooded \in Floods /\ max_depth_cm \in FloodDepths /\ under_alert \in BOOLEAN
  BY DEF PipelineTypeOK
<1>2. \A z \in clusters : z \in Zones
  BY <1>1 DEF Zones
<1> QED BY <1>1, <1>2 DEF Detection, stable_zone_id

\* What the dispatcher makes of a detection.
LEMMA HandledTypes ==
    ASSUME PipelineTypeOK, NEW d \in Detection
    PROVE  Upserted(d) \in [Zones -> Row] /\ Issued(d) \in [Zones -> Levels \cup {NoLevel}]
<1>1. /\ zones \in [Zones -> Row] /\ level \in [Zones -> Levels \cup {NoLevel}]
      /\ d.zone \in Zones /\ d.depth \in FloodDepths /\ d.alert \in BOOLEAN
  BY DEF PipelineTypeOK, Detection
<1>2. Level(d) \in Levels
  BY DEF Level, decide_level, Levels
<1>3. next_state(open_zones(d.zone).state) \in OpenStates
  BY DEF next_state, OpenStates
<1>4. Upserted(d) \in [Zones -> Row]
  BY <1>1, <1>3 DEF Upserted, upsert_zone, Row
<1>5. Issued(d) \in [Zones -> Levels \cup {NoLevel}]
  BY <1>1, <1>2 DEF Issued
<1> QED BY <1>4, <1>5

\* The pipeline before the first cluster.
LEMMA QuietTypes ==
    ASSUME Quiet, changes \in 0..MAX_CHANGES, failures \in 0..MAX_FAILURES
    PROVE  PipelineTypeOK
<1>1. zonesqueue \in [Units -> Message]
  BY MaxReceiveAssumption DEF Quiet, EmptyQueue, Message, Places
<1>2. detection \in [Units -> Detection]
  <2>1. PICK z \in Zones : TRUE
    BY SomeCluster
  <2>2. [zone |-> z, depth |-> max_depth_cm, alert |-> under_alert] \in Detection
    BY DEF Quiet, Detection
  <2> QED BY <2>2 DEF Quiet
<1>3. zones \in [Zones -> Row] /\ level \in [Zones -> Levels \cup {NoLevel}]
  BY DEF Quiet, Row
<1> QED BY <1>1, <1>2, <1>3 DEF Quiet, PipelineTypeOK

\* Every step of the two workers, of the queue and of the weather is well typed.
LEMMA NextPipelineTypes == PipelineTypeOK /\ [PipelineNext]_pipevars => PipelineTypeOK'
<1> SUFFICES ASSUME PipelineTypeOK, [PipelineNext]_pipevars PROVE PipelineTypeOK'
  OBVIOUS
<1>1. /\ flooded \in Floods /\ max_depth_cm \in FloodDepths
      /\ under_alert \in BOOLEAN /\ rows \subseteq Detection
      /\ zonesqueue \in [Units -> Message] /\ detection \in [Units -> Detection]
      /\ zones \in [Zones -> Row] /\ level \in [Zones -> Levels \cup {NoLevel}]
      /\ changes \in 0..MAX_CHANGES /\ failures \in 0..MAX_FAILURES
      /\ MAX_CHANGES \in Nat /\ MAX_FAILURES \in Nat
  BY PipelineAssumption DEF PipelineTypeOK
<1>2. ASSUME flooded' \in Floods, max_depth_cm' \in FloodDepths, under_alert' \in BOOLEAN,
             rows' \subseteq Detection,
             zonesqueue' \in [Units -> Message], detection' \in [Units -> Detection],
             zones' \in [Zones -> Row], level' \in [Zones -> Levels \cup {NoLevel}],
             changes' \in 0..MAX_CHANGES, failures' \in 0..MAX_FAILURES
      PROVE  PipelineTypeOK'
  BY <1>2 DEF PipelineTypeOK
<1>3. Fails => failures' \in 0..MAX_FAILURES
  BY <1>1 DEF Fails
<1>4. CASE FloodChanges
  <2>1. changes' \in 0..MAX_CHANGES
    BY <1>1, <1>4 DEF FloodChanges
  <2> QED BY <1>1, <1>2, <1>4, <2>1 DEF FloodChanges
<1>5. CASE QueryClusters
  BY <1>1, <1>2, <1>5, ClustersAreZones DEF QueryClusters, flood
<1>6. CASE CorrelatorFails
  BY <1>1, <1>2, <1>3, <1>6 DEF CorrelatorFails, flood
<1>7. ASSUME NEW u \in Units, SendZone(u) PROVE PipelineTypeOK'
  <2>1. zonesqueue' \in [Units -> Message]
    BY <1>1, <1>7, QueueTypes DEF SendZone
  <2>2. detection' \in [Units -> Detection] /\ rows' \subseteq Detection
    BY <1>1, <1>7 DEF SendZone
  <2> QED BY <1>1, <1>2, <1>7, <2>1, <2>2 DEF SendZone, flood
<1>8. ASSUME NEW u \in Units, Handle(u) PROVE PipelineTypeOK'
  <2>1. Received(zonesqueue, {u}) \in [Units -> Message]
    BY <1>1, <1>8, QueueTypes DEF Handle
  <2>2. zonesqueue' \in [Units -> Message]
    BY <1>8, <2>1, QueueTypes DEF Handle
  <2>3. zones' \in [Zones -> Row] /\ level' \in [Zones -> Levels \cup {NoLevel}]
    BY <1>1, <1>8, HandledTypes DEF Handle
  <2> QED BY <1>1, <1>2, <1>8, <2>2, <2>3 DEF Handle, flood
<1>9. ASSUME NEW u \in Units, HandlerFails(u) PROVE PipelineTypeOK'
  <2>1. zonesqueue' \in [Units -> Message]
    BY <1>1, <1>9, QueueTypes DEF HandlerFails
  <2>2. zones' \in [Zones -> Row] /\ level' \in [Zones -> Levels \cup {NoLevel}]
    BY <1>1, <1>9, HandledTypes DEF HandlerFails
  <2> QED BY <1>1, <1>2, <1>3, <1>9, <2>1, <2>2 DEF HandlerFails, flood
<1>10. ASSUME NEW u \in Units, ExpireZone(u) \/ DeadLetter(u) \/ DeliverZoneAgain(u)
       PROVE  PipelineTypeOK'
  <2>1. /\ TimedOut(zonesqueue, u) \in [Units -> Message]
        /\ Redriven(zonesqueue, u) \in [Units -> Message]
        /\ Resurfaced(zonesqueue, u) \in [Units -> Message]
    BY <1>1, <1>10, QueueTypes
  <2>2. zonesqueue' \in [Units -> Message] /\ failures' \in 0..MAX_FAILURES
    BY <1>1, <1>3, <1>10, <2>1 DEF ExpireZone, DeadLetter, DeliverZoneAgain
  <2>3. /\ UNCHANGED <<flooded, max_depth_cm, under_alert, changes>>
        /\ UNCHANGED <<rows, detection, zones, level>>
    BY <1>10 DEF ExpireZone, DeadLetter, DeliverZoneAgain, flood
  <2> QED BY <1>1, <1>2, <2>2, <2>3
<1>11. ASSUME NEW z \in Zones, Age(z) PROVE PipelineTypeOK'
  <2> DEFINE stale == [zones[z] EXCEPT !.fresh = FALSE]
  <2>0. zones[z] \in Row => stale \in Row
    BY DEF Row
  <2>1. zones' \in [Zones -> Row]
    BY <1>1, <1>11, <2>0 DEF Age
  <2>2. failures' \in 0..MAX_FAILURES
    BY <1>1, <1>3, <1>11 DEF Age
  <2> QED BY <1>1, <1>2, <1>11, <2>1, <2>2 DEF Age, flood
<1>12. ASSUME NEW z \in Zones, Sweep(z) PROVE PipelineTypeOK'
  <2>1. sweep_state(zones[z].state) \in OpenStates \cup {NoState, "closed"}
    BY DEF sweep_state, OpenStates
  <2> DEFINE swept == [zones[z] EXCEPT !.state = sweep_state(@)]
  <2>2. zones[z] \in Row => swept \in Row
    BY <2>1 DEF Row
  <2>3. zones' \in [Zones -> Row]
    BY <1>1, <1>12, <2>2 DEF Sweep
  <2> QED BY <1>1, <1>2, <1>12, <2>3 DEF Sweep, flood
<1>13. CASE UNCHANGED pipevars
  BY <1>1, <1>2, <1>13 DEF pipevars
<1> QED BY <1>4, <1>5, <1>6, <1>7, <1>8, <1>9, <1>10, <1>11, <1>12, <1>13
        DEF PipelineNext, Correlator

\* The level of the last detection of a zone, as its row has it.
LastLevel(z) == Level([zone |-> z, depth |-> zones[z].depth, alert |-> zones[z].alert])

\* Is the advisory of an active zone at the level of its last detection?
ZoneGraded(z) ==
    zones[z].state = "active" => level[z] = LastLevel(z)

ActiveIsGraded == failures = 0 => \A z \in Zones : ZoneGraded(z)

\* handle() suppresses an advisory only where the last one says the same, so
\* that behind it its zone is graded, whatever was the case before.
LEMMA HandledIsGraded ==
    ASSUME PipelineTypeOK, NEW u \in Units, Handle(u)
    PROVE  /\ ZoneGraded(detection[u].zone)'
           /\ \A z \in Zones : z # detection[u].zone => ZoneGraded(z)' = ZoneGraded(z)
<1> DEFINE d == detection[u]
           was == open_zones(d.zone)
<1>1. /\ d \in Detection /\ d.zone \in Zones
      /\ d = [zone |-> d.zone, depth |-> d.depth, alert |-> d.alert]
      /\ zones \in [Zones -> Row] /\ level \in [Zones -> Levels \cup {NoLevel}]
  BY DEF PipelineTypeOK, Detection
<1>2. /\ zones' = [zones EXCEPT ![d.zone] = [state |-> next_state(was.state), depth |-> d.depth,
                                              alert |-> d.alert, fresh |-> TRUE]]
      /\ level' = IF Notifies(d) THEN [level EXCEPT ![d.zone] = Level(d)] ELSE level
  BY DEF Handle, Upserted, upsert_zone, Issued
<1>3. ASSUME zones'[d.zone].state = "active" PROVE level'[d.zone] = Level(d)
  <2>1. next_state(was.state) = "active"
    BY <1>1, <1>2, <1>3
  <2>2. was.state \in OpenStates
    BY <2>1 DEF next_state, open_zones, OpenStates, NoState
  <2>3. was.last_level = level[d.zone]
    BY <2>2 DEF open_zones, OpenStates, NoState
  <2>4. Notifies(d) \/ level[d.zone] = Level(d)
    BY <2>1, <2>3 DEF Notifies, should_notify
  <2> QED BY <1>1, <1>2, <2>4
<1>4. /\ zones'[d.zone].alert = d.alert /\ zones'[d.zone].depth = d.depth
      /\ detection' = detection
  BY <1>1, <1>2 DEF Handle
<1>5. ZoneGraded(detection[u].zone)'
  BY <1>1, <1>3, <1>4 DEF ZoneGraded, LastLevel, Level
<1>6. \A z \in Zones : z # d.zone => zones'[z] = zones[z] /\ level'[z] = level[z]
  BY <1>1, <1>2
<1>7. \A z \in Zones : z # d.zone => ZoneGraded(z)' = ZoneGraded(z)
  BY <1>6 DEF ZoneGraded, LastLevel, Level
<1> QED BY <1>5, <1>7

\* No step but a failing handler's leaves an active zone at another level.
LEMMA GradedStaysGraded ==
    ASSUME PipelineTypeOK, [PipelineNext]_pipevars, \A u \in Units : ~HandlerFails(u),
           NEW z \in Zones, ZoneGraded(z)
    PROVE  ZoneGraded(z)'
<1>1. /\ zones \in [Zones -> Row]
      /\ \A u \in Units : detection[u].zone \in Zones
  BY DEF PipelineTypeOK, Detection
<1>2. CASE \/ FloodChanges \/ Correlator \/ UNCHANGED pipevars
           \/ \E u \in Units : ExpireZone(u) \/ DeadLetter(u) \/ DeliverZoneAgain(u)
  <2>1. UNCHANGED <<zones, level>>
    BY <1>2 DEF FloodChanges, Correlator, QueryClusters, CorrelatorFails, SendZone,
           ExpireZone, DeadLetter, DeliverZoneAgain, pipevars
  <2> QED BY <2>1 DEF ZoneGraded, LastLevel, Level
<1>3. ASSUME NEW u \in Units, Handle(u) PROVE ZoneGraded(z)'
  <2>1. detection' = detection
    BY <1>3 DEF Handle
  <2>2. /\ ZoneGraded(detection[u].zone)'
        /\ z # detection[u].zone => ZoneGraded(z)' = ZoneGraded(z)
    BY <1>3, HandledIsGraded
  <2>3. CASE z = detection[u].zone
    BY <2>1, <2>2, <2>3 DEF ZoneGraded, LastLevel, Level
  <2> QED BY <2>1, <2>2, <2>3
<1>4. ASSUME NEW y \in Zones, Age(y) \/ Sweep(y) PROVE ZoneGraded(z)'
  <2>1. /\ zones'[z].state = "active" => zones[z].state = "active"
        /\ zones'[z].alert = zones[z].alert /\ zones'[z].depth = zones[z].depth
        /\ level' = level
    BY <1>1, <1>4 DEF Age, Sweep, sweep_state, Row, NoState
  <2> QED BY <2>1 DEF ZoneGraded, LastLevel, Level
<1> QED BY <1>2, <1>3, <1>4 DEF PipelineNext

\* As long as nothing has failed, they all stay where they were.
LEMMA UnfailedStaysGraded ==
    PipelineTypeOK /\ ActiveIsGraded /\ [PipelineNext]_pipevars => ActiveIsGraded'
<1> SUFFICES ASSUME PipelineTypeOK, ActiveIsGraded, [PipelineNext]_pipevars, failures' = 0
             PROVE  \A z \in Zones : ZoneGraded(z)'
  BY DEF ActiveIsGraded
<1>1. failures = 0
  <2>1. failures \in Nat /\ ~Fails
    BY DEF PipelineTypeOK, Fails
  <2>2. CASE FloodChanges \/ UNCHANGED pipevars
    BY <2>2 DEF FloodChanges, pipevars
  <2>3. CASE Correlator
    BY <2>1, <2>3 DEF Correlator, QueryClusters, CorrelatorFails, SendZone
  <2>4. ASSUME NEW u \in Units, \/ Handle(u) \/ HandlerFails(u) \/ ExpireZone(u)
                                \/ DeadLetter(u) \/ DeliverZoneAgain(u)
        PROVE  failures = 0
    BY <2>1, <2>4 DEF Handle, HandlerFails, ExpireZone, DeadLetter, DeliverZoneAgain
  <2>5. ASSUME NEW z \in Zones, Age(z) \/ Sweep(z) PROVE failures = 0
    BY <2>1, <2>5 DEF Age, Sweep
  <2> QED BY <2>2, <2>3, <2>4, <2>5 DEF PipelineNext
<1>2. \A z \in Zones : ZoneGraded(z)
  BY <1>1 DEF ActiveIsGraded
<1>3. \A u \in Units : ~HandlerFails(u)
  BY <1>1 DEF HandlerFails, Fails
<1> QED BY <1>2, <1>3, GradedStaysGraded

\* The pipeline is well typed.
LEMMA PipelineTyped == PipelineSpec => []PipelineTypeOK
<1>1. PipelineInit => PipelineTypeOK
  BY QuietTypes, PipelineAssumption DEF PipelineInit
<1> QED BY <1>1, NextPipelineTypes, PTL DEF PipelineSpec

\* Across both workers: as long as nothing has failed, an active zone's advisory
\* is at the level of the last detection, of whatever depth and alert, whatever
\* arrives late or is swept in between (E-021).
THEOREM GradeHolds == PipelineSpec => []ActiveIsGraded
<1>1. PipelineInit => ActiveIsGraded
  BY DEF PipelineInit, Quiet, ActiveIsGraded, ZoneGraded, NoState
<1> QED BY <1>1, PipelineTyped, UnfailedStaysGraded, PTL DEF PipelineSpec

\* Only a handler that fails halfway takes a zone from that level, not a message
\* that is delivered twice, and the next detection of the zone that is handled
\* makes up for it.
THEOREM GradeIsRestored ==
    PipelineSpec =>
        [][/\ \A z \in Zones : ZoneGraded(z) => ZoneGraded(z)' \/ \E u \in Units : HandlerFails(u)
           /\ \A u \in Units : Handle(u) => ZoneGraded(detection[u].zone)']_pipevars
<1> DEFINE Restored ==
        /\ \A z \in Zones : ZoneGraded(z) => ZoneGraded(z)' \/ \E u \in Units : HandlerFails(u)
        /\ \A u \in Units : Handle(u) => ZoneGraded(detection[u].zone)'
<1>1. PipelineTypeOK /\ [PipelineNext]_pipevars => [Restored]_pipevars
  <2> SUFFICES ASSUME PipelineTypeOK, [PipelineNext]_pipevars PROVE Restored
    OBVIOUS
  <2>1. ASSUME NEW z \in Zones, ZoneGraded(z), \A u \in Units : ~HandlerFails(u)
        PROVE  ZoneGraded(z)'
    BY <2>1, GradedStaysGraded
  <2> QED BY <2>1, HandledIsGraded
<1> HIDE DEF Restored
<1>2. PipelineSpec => [][Restored]_pipevars
  BY <1>1, PipelineTyped, PTL DEF PipelineSpec
<1> QED BY <1>2 DEF Restored

-----------------------------------------------------------------------------
(* The composition. *)

\* A step of one part is none of the others.
LEMMA OnePartMoves ==
    ASSUME [MCNext]_vars
    PROVE  /\ [Next]_loopvars /\ [A!Next]_alertvars /\ [PoolNext]_poolvars
           /\ [PipelineNext]_pipevars /\ [MockNext]_mockvars
<1>1. CASE Worker(Next)
  BY <1>1 DEF Worker
<1>2. CASE Alerts(A!Next)
  BY <1>2 DEF Alerts
<1>3. CASE Pooled(PoolNext)
  BY <1>3 DEF Pooled
<1>4. CASE Pipe(PipelineNext)
  BY <1>4 DEF Pipe
<1>5. CASE Mock(MockNext)
  BY <1>5 DEF Mock
<1>6. CASE UNCHANGED vars
  BY <1>6 DEF vars
<1> QED BY <1>1, <1>2, <1>3, <1>4, <1>5, <1>6 DEF MCNext

\* What the worker meets is a queue without messages in flight, and no bound
\* is used up beyond its limit.
LEMMA WorkerStarts == MCInit => IInv /\ Bounded
<1> SUFFICES ASSUME MCInit PROVE IInv /\ Bounded
  OBVIOUS
<1>1. PICK m \in WorkerMeets : work = m.work /\ spent = m.spent
  BY DEF MCInit, Rest, WorkerMeets
<1>2. EmptyQueue \in [Units -> Message] /\ \A u \in Units : EmptyQueue[u].at = "unsent"
  BY MaxReceiveAssumption DEF EmptyQueue, Message, Places
<1>3. work = EmptyQueue \/ work = [EmptyQueue EXCEPT ![u2].at = "dead"]
  BY <1>1 DEF WorkerMeets, OneUnit
<1>4. work \in [Units -> Message] /\ \A u \in Units : work[u].at # "inflight"
  BY <1>2, <1>3 DEF Message, Places
<1>5. WorkerLoopAssumption /\ Idle
  BY SystemAssumption DEF MCInit
<1>6. spent \in Budget /\ MAX_READS \in Nat
  BY <1>1, <1>5 DEF WorkerMeets, WorkerLoopAssumption, Budget
<1>7. Typed
  BY <1>4, <1>5 DEF WorkerLoopAssumption, Idle, Typed, Zero, Name
<1>8. Staged /\ Custody /\ Beaten
  BY <1>4, <1>5 DEF WorkerLoopAssumption, Idle, Staged, Custody, Beaten
<1>9. Bounded
  <2>1. \A n \in Name : STATS[n] = 0 /\ published[n] = 0 /\ past.reads[n] = 0
    BY <1>5 DEF Idle, Zero
  <2>2. \A n \in Name : Total(n) = 0 /\ Cuts(n) = spent.lost + spent.outages
    BY <1>5, <2>1 DEF Idle, Total, Cuts
  <2>3. /\ spent.reads \in Nat /\ spent.lost + spent.outages \in Nat
        /\ MAX_READS * (spent.lost + spent.outages) \in Nat
    BY <1>5, <1>6 DEF WorkerLoopAssumption, Budget
  <2>4. \A n \in Name : /\ 0 <= STATS[n] /\ STATS[n] <= past.reads[n]
                        /\ past.reads[n] <= spent.reads
                        /\ Total(n) <= spent.reads + MAX_READS * Cuts(n)
    BY <2>1, <2>2, <2>3
  <2>5. published \in [Name -> Nat] /\ requested \in BOOLEAN /\ server \in {"up", "down"}
    BY <1>5 DEF Idle, Zero
  <2>6. grace \in 0..GRACE
    BY <1>5 DEF WorkerLoopAssumption, Idle
  <2> QED BY <1>6, <2>4, <2>5, <2>6 DEF Bounded
<1> QED BY <1>7, <1>8, <1>9 DEF IInv

\* ... and no name of a counter was read, sent or cut.
LEMMA CountersStart == MCInit => Reported /\ Summed
  BY DEF MCInit, Idle, Reported, Summed, StatsAddUp, Zero, Name

\* The pipeline starts within its bounds, whatever it has still to meet.
LEMMA PipelineStarts == MCInit => PipelineTypeOK
<1> SUFFICES ASSUME MCInit PROVE PipelineTypeOK
  OBVIOUS
<1>1. PICK m \in PipelineMeets : changes = m.changes /\ failures = m.failures
  BY DEF MCInit, Rest, PipelineMeets
<1>2. MAX_CHANGES \in Nat /\ MAX_FAILURES \in Nat \ {0}
  BY PipelineAssumption, SystemAssumption
<1>3. changes \in 0..MAX_CHANGES /\ failures \in 0..MAX_FAILURES
  BY <1>1, <1>2 DEF PipelineMeets
<1> QED BY <1>3, QuietTypes DEF MCInit

\* Whichever part moves, all of them are well typed: no handler, retry,
\* outage or death takes a queue, a row or a counter out of its range.
THEOREM SystemTypesHold == MCSpec => []AllTypesOK
<1> DEFINE SystemInv == IInv /\ Bounded /\ FeedInv /\ PoolInv /\ PipelineTypeOK /\ MockInv
<1>1. MCInit => SystemInv
  BY WorkerStarts, PipelineStarts, InitFeedInv, InitPoolInv, InitMockInv DEF MCInit
<1>2. SystemInv /\ [MCNext]_vars => SystemInv'
  <2> SUFFICES ASSUME SystemInv, [MCNext]_vars PROVE SystemInv'
    OBVIOUS
  <2>1. /\ [Next]_loopvars /\ [A!Next]_alertvars /\ [PoolNext]_poolvars
        /\ [PipelineNext]_pipevars /\ [MockNext]_mockvars
    BY OnePartMoves
  <2>2. IInv' /\ Bounded'
    BY <2>1, SystemAssumption, NextIInv, BoundedStep
  <2> QED BY <2>1, <2>2, NextFeedInv, NextPoolInv, NextPipelineTypes, NextMockInv
<1>3. SystemInv => AllTypesOK
  BY SystemAssumption, BoundedTypes DEF AllTypesOK, FeedInv, PoolInv, MockInv
<1> HIDE DEF SystemInv
<1> QED BY <1>1, <1>2, <1>3, PTL DEF MCSpec
\* The system runs its worker, its pool and its mock: health is green only over
\* a worker that loops, an idle one reads as alive, the counters add up, a stop
\* abandons nothing, one pool is built and the mock's clusters are DBSCAN's.
THEOREM SystemSafetyHolds ==
    MCSpec => [](/\ GreenMeansLooping /\ IdleReportsAlive
                 /\ StatsAddUp /\ CleanStopAbandonsNothing
                 /\ OnePool /\ ClusterWetIsDBSCAN)
<1> DEFINE SafetyInv == IInv /\ Reported /\ Summed /\ PoolInv /\ MockInv
           Safety == /\ GreenMeansLooping /\ IdleReportsAlive
                     /\ StatsAddUp /\ CleanStopAbandonsNothing
                     /\ OnePool /\ ClusterWetIsDBSCAN
<1>1. MCInit => SafetyInv
  BY WorkerStarts, CountersStart, InitPoolInv, InitMockInv DEF MCInit
<1>2. SafetyInv /\ [MCNext]_vars => SafetyInv'
  <2> SUFFICES ASSUME SafetyInv, [MCNext]_vars PROVE SafetyInv'
    OBVIOUS
  <2>1. [Next]_loopvars /\ [PoolNext]_poolvars /\ [MockNext]_mockvars
    BY OnePartMoves
  <2>2. IInv' /\ Reported' /\ Summed'
    BY <2>1, SystemAssumption, NextIInv, ReportedStep, SummedStep
  <2> QED BY <2>1, <2>2, NextPoolInv, NextMockInv
<1>3. SafetyInv => Safety
  <2> SUFFICES ASSUME SafetyInv PROVE Safety
    OBVIOUS
  <2>1. GreenMeansLooping /\ IdleReportsAlive /\ CleanStopAbandonsNothing
    BY SystemAssumption, BeatenIsGreen, ReportedIsAlive, CustodyAtExit
  <2>2. StatsAddUp /\ OnePool
    BY DEF Summed, PoolInv, Remembered, OnePool
  <2> QED BY <2>1, <2>2, FoundIsDBSCAN
<1> HIDE DEF SafetyInv, Safety
<1>4. MCSpec => []Safety
  BY <1>1, <1>2, <1>3, PTL DEF MCSpec
<1> QED BY <1>4 DEF Safety
=============================================================================

--------------------------- MODULE ConnectionPool ---------------------------
(***************************************************************************)
(* pool() and cursor() of curbline/db.py: the threads of a process build   *)
(* the connection pool when the first of them needs it, behind a lock that *)
(* is tested on both sides, and borrow one connection at a time from it.   *)
(* In the API the threads are those of asyncio.to_thread().  client() of   *)
(* curbline/cache.py builds the Redis client in the same way.              *)
(***************************************************************************)
EXTENDS Integers, FiniteSets

CONSTANTS
    Threads,
    SIZE,       \* max_size of the pool (4 in the code)
    MAX_RAISES  \* bound: constructors that raise

ASSUME PoolAssumption == MAX_RAISES \in Nat

VARIABLES
    _pool,      \* the module's variable: a pool, or None
    built,      \* how many pools were constructed
    _pool_lock, \* whether the lock is held: it does not know by whom
    line,       \* the statement each thread is about to run
    raised      \* how many constructors raised

poolvars == <<_pool, built, _pool_lock, line, raised>>

None == "None"
Pool == "pool"

Lines == {"idle", "test", "lock", "retest", "build", "unlock", "borrow", "query"}
Locked == {"retest", "build", "unlock"}

\* The threads that hold a connection.
Borrowers == {t \in Threads : line[t] = "query"}

PoolTypeOK ==
    /\ _pool \in {None, Pool}
    /\ built \in Nat
    /\ _pool_lock \in BOOLEAN
    /\ line \in [Threads -> Lines]
    /\ raised \in 0..MAX_RAISES

PoolInit ==
    /\ _pool = None
    /\ built = 0
    /\ _pool_lock = FALSE
    /\ line = [t \in Threads |-> "idle"]
    /\ raised = 0

-----------------------------------------------------------------------------
GoesTo(t, next) == line' = [line EXCEPT ![t] = next]

Call(t) ==
    /\ line[t] = "idle"
    /\ GoesTo(t, "test")
    /\ UNCHANGED <<_pool, built, _pool_lock, raised>>

\* if _pool is None, without the lock.
Test(t) ==
    /\ line[t] = "test"
    /\ GoesTo(t, IF _pool = None THEN "lock" ELSE "borrow")
    /\ UNCHANGED <<_pool, built, _pool_lock, raised>>

Acquire(t) ==
    /\ line[t] = "lock"
    /\ ~_pool_lock
    /\ _pool_lock' = TRUE
    /\ GoesTo(t, "retest")
    /\ UNCHANGED <<_pool, built, raised>>

\* if _pool is None, with the lock.  The mutant does not ask again.
AfterRetest_trusting == "build"
AfterRetest == IF _pool = None THEN "build" ELSE "unlock"

Retest(t) ==
    /\ line[t] = "retest"
    /\ GoesTo(t, AfterRetest)
    /\ UNCHANGED <<_pool, built, _pool_lock, raised>>

Build(t) ==
    /\ line[t] = "build"
    /\ _pool' = Pool
    /\ built' = built + 1
    /\ GoesTo(t, "unlock")
    /\ UNCHANGED <<_pool_lock, raised>>

\* The mutant forgets the lock, as code without a with statement may.
Released_never == _pool_lock
Released == FALSE

Unlock(t) ==
    /\ line[t] = "unlock"
    /\ _pool_lock' = Released
    /\ GoesTo(t, "borrow")
    /\ UNCHANGED <<_pool, built, raised>>

\* The constructor raises: the with statement gives the lock back on the way
\* out, and the next caller tries to build a pool.
BuildFails(t) ==
    /\ line[t] = "build"
    /\ raised < MAX_RAISES
    /\ raised' = raised + 1
    /\ _pool_lock' = Released
    /\ GoesTo(t, "idle")
    /\ UNCHANGED <<_pool, built>>

\* pool().connection(): waits while every connection is lent.
Borrow(t) ==
    /\ line[t] = "borrow"
    /\ Cardinality(Borrowers) < SIZE
    /\ GoesTo(t, "query")
    /\ UNCHANGED <<_pool, built, _pool_lock, raised>>

\* PoolTimeout, after 30 s of it.
BorrowTimesOut(t) ==
    /\ line[t] = "borrow"
    /\ Cardinality(Borrowers) >= SIZE
    /\ GoesTo(t, "idle")
    /\ UNCHANGED <<_pool, built, _pool_lock, raised>>

\* The statement ends, well or not, and the connection goes back: no function
\* of db.py asks for a second one before that.
Query(t) ==
    /\ line[t] = "query"
    /\ GoesTo(t, "idle")
    /\ UNCHANGED <<_pool, built, _pool_lock, raised>>

-----------------------------------------------------------------------------
Step(t) ==
    \/ Test(t) \/ Acquire(t) \/ Retest(t) \/ Build(t) \/ BuildFails(t) \/ Unlock(t)
    \/ Borrow(t) \/ BorrowTimesOut(t) \/ Query(t)

PoolNext == \E t \in Threads : Call(t) \/ Step(t)

PoolSpec == PoolInit /\ [][PoolNext]_poolvars

(* Fairness.  Every thread that can go on does; a connection is lent in the *)
(* order of asking, or the wait times out.                                  *)
PoolFairness == \A t \in Threads : WF_poolvars(Step(t))

FairPoolSpec == PoolSpec /\ PoolFairness

-----------------------------------------------------------------------------
(* Properties *)

\* "Two threads can both see None and each build a pool" (db.py): the second
\* test lets one through, and no pool is left behind with its connections.
OnePool == built <= 1

\* Nobody waits for ever, neither for the lock nor for a connection: no thread
\* holds one while it waits for the other, and a constructor that raises leaves
\* the lock free.
EveryCallEnds == \A t \in Threads : line[t] = "test" ~> line[t] = "idle"
=============================================================================

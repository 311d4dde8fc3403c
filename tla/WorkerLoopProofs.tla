-------------------------- MODULE WorkerLoopProofs --------------------------
(***************************************************************************)
(* For any queue, batch size, TTL and number of stops, deaths, outages,    *)
(* lost replies and second deliveries: what the worker holds is accounted  *)
(* for, a message that was handled is handled again only after a death or  *)
(* a second delivery, a worker that stops by itself abandons nothing, a    *)
(* green health check means that it loops, and the counters add up.        *)
(***************************************************************************)
EXTENDS WorkerLoop, TLAPS

Typed ==
    /\ work \in [Units -> Message]
    /\ at \in Down \cup {"top", "receive", "handle", "delete", "flush"}
    /\ batch \subseteq Units
    /\ hand \in Units \cup {Empty}
    /\ since \in 0..TTL
    /\ beatage \in 0..TTL
    /\ STATS \in [Name -> Int]
    /\ added \subseteq Name
    /\ past \in [refused : BOOLEAN, reads : [Name -> Int], cut : SUBSET Name,
                 finished : SUBSET Units, left : SUBSET Units]

\* Which messages the worker may hold at each statement.
Staged ==
    /\ at \in Down \cup {"top", "receive", "flush"} => batch = {} /\ hand = Empty
    /\ at = "handle" => hand = Empty
    /\ at = "delete" => hand \in Units
    /\ hand \notin batch

\* What waits in the batch was not deleted, what was handled is deleted or in
\* hand, and what is in flight is held or was left by a failed attempt.
Custody ==
    /\ \A u \in batch : work[u].at \in {"inflight", "visible"}
    /\ \A u \in past.finished : work[u].at = "deleted" \/ u = hand
    /\ \A u \in Units : work[u].at = "inflight" => u \in past.left \cup batch \cup {hand}

\* The heartbeat is written at the top of the loop or not at all.
Beaten == since <= beatage

IInv == Typed /\ Staged /\ Custody /\ Beaten

\* The invariant holds of a worker that has just been started.
LEMMA InitIInv == ASSUME WorkerLoopAssumption PROVE Init => IInv
<1> SUFFICES ASSUME Init PROVE IInv
  OBVIOUS
<1>1. EmptyQueue \in [Units -> Message]
  BY MaxReceiveAssumption DEF EmptyQueue, Message, Places
<1>2. Typed
  BY <1>1 DEF WorkerLoopAssumption, Init, Idle, Typed, Zero, Name
<1>3. Staged /\ Custody /\ Beaten
  BY DEF WorkerLoopAssumption, Init, Idle, Staged, Custody, Beaten, EmptyQueue
<1> QED BY <1>2, <1>3 DEF IInv

\* What is received was visible, so neither deleted nor handled.
LEMMA ReceiveStep == ASSUME WorkerLoopAssumption, IInv, Receive PROVE IInv'
<1> USE DEF IInv
<1> PICK some \in SUBSET Receivable(work) :
          /\ work' = [u \in Units |->
                         IF u \in In(work, "visible") /\ Exhausted(work, u)
                         THEN Redriven(work, u)[u] ELSE Received(work, some)[u]]
          /\ batch' = some
          /\ at' = IF some = {} THEN "flush" ELSE "handle"
          /\ past' = [past EXCEPT !.left = @ \ some]
  BY DEF Receive
<1>1. \A u \in some : u \in Units /\ work[u].at = "visible" /\ work[u].receives < MAX_RECEIVE
  BY MaxReceiveAssumption DEF Receivable, In, Exhausted, Typed, Message
<1>2. ASSUME NEW u \in Units
      PROVE  /\ work'[u] \in Message
             /\ u \in some => work'[u].at = "inflight"
             /\ u \notin some => work'[u].at \in {work[u].at, "dead"}
             /\ work[u].at = "deleted" => work'[u].at = "deleted"
  <2>1. work[u] \in Message
    BY DEF Typed
  <2>2. CASE u \in some
    <3>1. work'[u] = [at |-> "inflight", receives |-> work[u].receives + 1]
      BY <1>1, <2>1, <2>2, MaxReceiveAssumption DEF Exhausted, Received, In, Message
    <3> QED BY <1>1, <2>1, <2>2, <3>1, MaxReceiveAssumption DEF Message, Places
  <2>3. CASE u \notin some /\ work[u].at = "visible" /\ Exhausted(work, u)
    <3>1. work'[u] = [work[u] EXCEPT !.at = "dead"]
      BY <2>3 DEF Redriven, In, Typed
    <3> QED BY <2>1, <2>3, <3>1 DEF Message, Places
  <2>4. CASE u \notin some /\ ~(work[u].at = "visible" /\ Exhausted(work, u))
    <3>1. work'[u] = work[u]
      BY <2>4 DEF Received, In
    <3> QED BY <2>1, <2>4, <3>1
  <2> QED BY <2>2, <2>3, <2>4
<1>3. work' \in [Units -> Message]
  BY <1>2
<1>4. Typed'
  BY <1>1, <1>3 DEF Receive, Typed, counters
<1>5. Staged'
  BY <1>1 DEF Receive, Staged, Typed, WorkerLoopAssumption, Down
<1>6. Custody'
  BY <1>1, <1>2 DEF Receive, Custody, Staged, Typed
<1>7. Beaten'
  BY DEF Receive, Beaten
<1> QED BY <1>4, <1>5, <1>6, <1>7

\* The top of the loop takes no message.
LEMMA TopStep ==
    ASSUME WorkerLoopAssumption, IInv, Top
    PROVE  IInv'
<1>1. Typed'
  <2>1. (server = "down") \in BOOLEAN
    OBVIOUS
  <2>2. past' \in [refused : BOOLEAN, reads : [Name -> Int], cut : SUBSET Name,
                   finished : SUBSET Units, left : SUBSET Units]
    BY <2>1 DEF Top, IInv, Typed
  <2> QED BY <2>2 DEF Top, Beat, IInv, Typed, counters, WorkerLoopAssumption
<1>2. Staged'
  BY DEF Top, Beat, counters, IInv, Typed, Staged, WorkerLoopAssumption, Down
<1>3. Custody'
  BY DEF Top, Beat, counters, IInv, Typed, Staged, Custody
<1>4. Beaten'
  BY DEF Top, Beat, counters, IInv, Typed, Beaten, WorkerLoopAssumption
<1> QED BY <1>1, <1>2, <1>3, <1>4 DEF IInv

\* A worker leaves with nothing in its hands.
LEMMA ExitStep ==
    ASSUME WorkerLoopAssumption, IInv, Exit
    PROVE  IInv'
<1>1. Typed'
  <2>1. past' \in [refused : BOOLEAN, reads : [Name -> Int], cut : SUBSET Name,
                   finished : SUBSET Units, left : SUBSET Units]
    BY DEF Exit, IInv, Typed
  <2> QED BY <2>1 DEF Exit, IInv, Typed, Down, Zero
<1>2. Staged'
  BY DEF Exit, IInv, Typed, Staged, WorkerLoopAssumption, Down
<1>3. Custody'
  BY DEF Exit, IInv, Typed, Staged, Custody
<1>4. Beaten'
  BY DEF Exit, IInv, Typed, Beaten, WorkerLoopAssumption
<1> QED BY <1>1, <1>2, <1>3, <1>4 DEF IInv

\* The counters hold no message.
LEMMA CacheReadStep ==
    ASSUME WorkerLoopAssumption, IInv, CacheRead
    PROVE  IInv'
<1>1. Typed'
  <2>1. PICK n \in Name : /\ STATS' = [STATS EXCEPT ![n] = @ + 1]
                          /\ past' = [past EXCEPT !.reads[n] = @ + 1]
    BY DEF CacheRead, Name
  <2>2. past.reads \in [Name -> Int] /\ past.reads[n] + 1 \in Int
    BY DEF IInv, Typed
  <2> QED BY <2>1, <2>2 DEF CacheRead, IInv, Typed, process
<1>2. Staged'
  BY DEF CacheRead, process, IInv, Typed, Staged, WorkerLoopAssumption, Down
<1>3. Custody'
  <2>1. past'.finished = past.finished /\ past'.left = past.left
    BY DEF CacheRead, IInv, Typed
  <2> QED BY <2>1 DEF CacheRead, IInv, Custody, process
<1>4. Beaten'
  BY DEF CacheRead, process, IInv, Typed, Beaten, WorkerLoopAssumption
<1> QED BY <1>1, <1>2, <1>3, <1>4 DEF IInv

\* A message goes from the batch to the hand.
LEMMA HandlerReturnsStep ==
    ASSUME WorkerLoopAssumption, IInv, NEW u \in Units, HandlerReturns(u)
    PROVE  IInv'
<1>1. Typed'
  BY DEF HandlerReturns, counters, IInv, Typed, Staged, WorkerLoopAssumption, Down
<1>2. Staged'
  BY DEF HandlerReturns, counters, IInv, Typed, Staged, WorkerLoopAssumption, Down
<1>3. Custody'
  BY DEF HandlerReturns, counters, IInv, Typed, Staged, Custody, WorkerLoopAssumption
<1>4. Beaten'
  BY DEF HandlerReturns, counters, IInv, Typed, Beaten, WorkerLoopAssumption
<1> QED BY <1>1, <1>2, <1>3, <1>4 DEF IInv

\* A message goes from the batch to those a failed attempt left.
LEMMA HandlerRaisesStep ==
    ASSUME WorkerLoopAssumption, IInv, NEW u \in Units, HandlerRaises(u)
    PROVE  IInv'
<1>1. Typed'
  BY DEF HandlerRaises, NextMessage, counters, IInv, Typed, Staged, WorkerLoopAssumption, Down
<1>2. Staged'
  BY DEF HandlerRaises, NextMessage, counters, IInv, Typed, Staged, WorkerLoopAssumption, Down
<1>3. Custody'
  BY DEF HandlerRaises, NextMessage, counters, IInv, Typed, Staged, Custody
<1>4. Beaten'
  BY DEF HandlerRaises, NextMessage, counters, IInv, Typed, Beaten, WorkerLoopAssumption
<1> QED BY <1>1, <1>2, <1>3, <1>4 DEF IInv

\* The message in hand is deleted, in flight or not.
LEMMA DeleteStep ==
    ASSUME WorkerLoopAssumption, IInv, Delete
    PROVE  IInv'
<1>1. Typed'
  <2>1. hand \in Units /\ work' = [work EXCEPT ![hand].at = "deleted"]
    BY DEF Delete, Acknowledged, Deleted, IInv, Staged
  <2>2. work' \in [Units -> Message]
    BY <2>1 DEF IInv, Typed, Message, Places
  <2> QED BY <2>2 DEF Delete, NextMessage, IInv, Typed, counters
<1>2. Staged'
  BY DEF Delete, NextMessage, counters, IInv, Typed, Staged, WorkerLoopAssumption, Down
<1>3. Custody'
  <2>1. hand \in Units /\ work' = [work EXCEPT ![hand].at = "deleted"]
    BY DEF Delete, Acknowledged, Deleted, IInv, Staged
  <2>2. /\ work'[hand].at = "deleted"
        /\ \A u \in Units \ {hand} : work'[u] = work[u]
    BY <2>1 DEF IInv, Typed, Message
  <2>3. batch' = batch
    BY DEF Delete, NextMessage
  <2> QED BY <2>1, <2>2, <2>3 DEF Delete, IInv, Typed, Staged, Custody
<1>4. Beaten'
  BY DEF Delete, NextMessage, counters, IInv, Typed, Beaten, WorkerLoopAssumption
<1> QED BY <1>1, <1>2, <1>3, <1>4 DEF IInv

-----------------------------------------------------------------------------

\* INCRBY is sent for one of the pending names.
LEMMA PendingName ==
    pending # {} => nextname \in pending
<1> SUFFICES ASSUME pending # {} PROVE \E i \in DOMAIN Names :
                                          /\ Names[i] \in pending
                                          /\ \A j \in 1..(i - 1) : Names[j] \notin pending
  BY DEF pending, nextname
<1>1. DOMAIN Names = 1..3 /\ Names[1] = "hits" /\ Names[2] = "misses" /\ Names[3] = "errors"
  BY DEF Names
<1>2. \E n \in Name : n \in pending
  BY DEF pending
<1>3. \E i \in 1..3 : Names[i] \in pending
  BY <1>1, <1>2 DEF Name
<1>4. CASE "hits" \in pending
  BY <1>1, <1>4
<1>5. CASE "hits" \notin pending /\ "misses" \in pending
  <2>1. \A j \in 1..(2 - 1) : Names[j] \notin pending
    BY <1>1, <1>5
  <2> QED BY <1>1, <1>5, <2>1
<1>6. CASE "hits" \notin pending /\ "misses" \notin pending
  <2>1. \A j \in 1..(3 - 1) : Names[j] \notin pending
    BY <1>1, <1>6
  <2> QED BY <1>1, <1>2, <1>6, <2>1 DEF Name
<1> QED BY <1>4, <1>5, <1>6

\* The flush holds no message.
LEMMA PublishStep ==
    ASSUME WorkerLoopAssumption, IInv, Publish
    PROVE  IInv'
<1>1. Typed'
  <2>1. added' \subseteq Name
    <3>1. PICK n \in Name : added' = added \cup {n}
      BY PendingName DEF Publish, pending
    <3> QED BY <3>1 DEF IInv, Typed
  <2> QED BY <2>1 DEF Publish, process, IInv, Typed
<1>2. Staged'
  BY DEF Publish, process, IInv, Typed, Staged, WorkerLoopAssumption, Down
<1>3. Custody'
  BY DEF Publish, process, IInv, Typed, Staged, Custody
<1>4. Beaten'
  BY DEF Publish, process, IInv, Typed, Beaten, WorkerLoopAssumption
<1> QED BY <1>1, <1>2, <1>3, <1>4 DEF IInv

\* ... and an INCRBY whose reply is lost is one that Redis applied.
LEMMA ReplyLostStep ==
    ASSUME WorkerLoopAssumption, IInv, ReplyLost
    PROVE  IInv'
<1>1. nextname \in Name
  BY PendingName DEF ReplyLost, pending
<1>2. /\ added' \in {{}, added}
      /\ past' \in [refused : BOOLEAN, reads : [Name -> Int], cut : SUBSET Name,
                    finished : SUBSET Units, left : SUBSET Units]
      /\ past'.finished = past.finished /\ past'.left = past.left
  BY <1>1 DEF ReplyLost, IInv, Typed
<1>3. /\ UNCHANGED <<work, batch, hand, since, beatage, STATS>>
      /\ at = "flush" /\ at' \in {"top", "flush"}
  BY DEF ReplyLost
<1>4. Typed'
  BY <1>2, <1>3 DEF IInv, Typed
<1>5. Staged'
  BY <1>3 DEF IInv, Staged
<1> QED BY <1>2, <1>3, <1>4, <1>5 DEF IInv, Custody, Beaten

\* ... nor does its end.
LEMMA FlushedStep ==
    ASSUME WorkerLoopAssumption, IInv, Flushed
    PROVE  IInv'
<1>1. Typed'
  <2>1. Drained \in [Name -> Int]
    BY DEF Drained, IInv, Typed
  <2> QED BY <2>1 DEF Flushed, IInv, Typed
<1>2. Staged'
  BY DEF Flushed, counters, IInv, Typed, Staged, WorkerLoopAssumption, Down
<1>3. Custody'
  BY DEF Flushed, counters, IInv, Typed, Staged, Custody
<1>4. Beaten'
  BY DEF Flushed, counters, IInv, Typed, Beaten, WorkerLoopAssumption
<1> QED BY <1>1, <1>2, <1>3, <1>4 DEF IInv

\* ... nor does its failure.
LEMMA FlushFailsStep ==
    ASSUME WorkerLoopAssumption, IInv, FlushFails
    PROVE  IInv'
<1>1. Typed'
  BY DEF FlushFails, IInv, Typed, Staged, WorkerLoopAssumption, Down
<1>2. Staged'
  BY DEF FlushFails, IInv, Typed, Staged, WorkerLoopAssumption, Down
<1>3. Custody'
  BY DEF FlushFails, IInv, Typed, Staged, Custody
<1>4. Beaten'
  BY DEF FlushFails, IInv, Typed, Beaten, WorkerLoopAssumption
<1> QED BY <1>1, <1>2, <1>3, <1>4 DEF IInv

-----------------------------------------------------------------------------
\* A message comes or comes back: what the worker holds may be visible again,
\* and what was deleted is handled no longer.
LEMMA QueueStep ==
    ASSUME WorkerLoopAssumption, IInv, NEW u \in Units, Send(u) \/ Expire(u) \/ DeliverAgain(u)
    PROVE  IInv'
<1>1. /\ work[u].at \in {"unsent", "inflight", "deleted"}
      /\ work' = [work EXCEPT ![u].at = "visible"]
  BY DEF Send, Sent, Expire, TimedOut, DeliverAgain, Resurfaced
<1>2. /\ work' \in [Units -> Message]
      /\ work'[u].at = "visible"
      /\ \A v \in Units \ {u} : work'[v] = work[v]
  BY <1>1 DEF IInv, Typed, Message, Places
<1>3. UNCHANGED <<at, batch, hand, since, beatage, STATS, added>>
  BY DEF Send, Expire, DeliverAgain, process, counters
<1>4. /\ past' \in [refused : BOOLEAN, reads : [Name -> Int], cut : SUBSET Name,
                    finished : SUBSET Units, left : SUBSET Units]
      /\ past'.left = past.left
      /\ past'.finished = IF work[u].at = "deleted" THEN past.finished \ {u} ELSE past.finished
  BY DEF Send, Expire, DeliverAgain, IInv, Typed
<1>5. Custody'
  BY <1>1, <1>2, <1>3, <1>4 DEF IInv, Typed, Custody
<1>6. Typed'
  BY <1>2, <1>3, <1>4 DEF IInv, Typed
<1> QED BY <1>3, <1>5, <1>6 DEF IInv, Staged, Beaten

\* What a process that dies held is left by a failed attempt, and what it had
\* handled but not deleted is no longer handled.
LEMMA DeathStep ==
    ASSUME WorkerLoopAssumption, IInv, Sigkill \/ Dying
    PROVE  IInv'
<1>1. Dies
  BY DEF Sigkill, Dying
<1>2. [n \in Name |-> IF n \in added THEN past.reads[n] ELSE past.reads[n] - STATS[n]]
          \in [Name -> Int]
  BY DEF IInv, Typed
<1>3. past' \in [refused : BOOLEAN, reads : [Name -> Int], cut : SUBSET Name,
                 finished : SUBSET Units, left : SUBSET Units]
  BY <1>1, <1>2 DEF Dies, IInv, Typed
<1>4. /\ past'.finished = past.finished \ {hand}
      /\ past'.left = past.left \cup batch \cup ({hand} \cap Units)
  BY <1>1 DEF Dies, IInv, Typed
<1>5. Typed'
  <2>1. Zero \in [Name -> Int]
    BY DEF Zero
  <2>2. at' \in Down /\ hand' = Empty /\ batch' = {} /\ added' = {} /\ STATS' = Zero
    BY <1>1 DEF Dies, Down
  <2>3. UNCHANGED <<work, since, beatage>>
    BY <1>1 DEF Dies
  <2> QED BY <1>3, <2>1, <2>2, <2>3 DEF IInv, Typed
<1>6. Staged'
  BY <1>1 DEF Dies, Staged
<1>7. Custody'
  BY <1>1, <1>4 DEF Dies, IInv, Custody
<1>8. Beaten'
  BY <1>1 DEF Dies, IInv, Beaten
<1> QED BY <1>5, <1>6, <1>7, <1>8 DEF IInv

\* The signal, the outages of Redis and a new process touch no message.
LEMMA QuietStep ==
    ASSUME WorkerLoopAssumption, IInv, Sigterm \/ ServerFails \/ ServerReturns \/ Start
    PROVE  IInv'
<1>1. UNCHANGED <<work, batch, hand, since, beatage, STATS, added, past>>
  BY DEF Sigterm, ServerFails, ServerReturns, Start, process, counters
<1>2. at' = at \/ (at \in Down /\ at' = "top")
  BY DEF Sigterm, ServerFails, ServerReturns, Start, process
<1>3. Typed'
  BY <1>1, <1>2 DEF IInv, Typed
<1>4. Staged'
  BY <1>1, <1>2 DEF IInv, Staged, Down
<1>5. Custody' /\ Beaten'
  BY <1>1 DEF IInv, Custody, Beaten
<1> QED BY <1>3, <1>4, <1>5 DEF IInv

\* Both ages grow, to the same limit.
LEMMA TickStep ==
    ASSUME WorkerLoopAssumption, IInv, Tick
    PROVE  IInv'
<1>1. UNCHANGED <<work, at, batch, hand, STATS, added, past>>
  BY DEF Tick, counters
<1>2. /\ since' = IF since < TTL THEN since + 1 ELSE TTL
      /\ beatage' = IF beatage < TTL THEN beatage + 1 ELSE TTL
  BY DEF Tick, Aged
<1>3. since' \in 0..TTL /\ beatage' \in 0..TTL /\ Beaten'
  BY <1>2 DEF WorkerLoopAssumption, IInv, Typed, Beaten
<1> QED BY <1>1, <1>3 DEF IInv, Typed, Staged, Custody

-----------------------------------------------------------------------------
\* Every step keeps the invariant.
LEMMA NextIInv ==
    ASSUME WorkerLoopAssumption, IInv, [Next]_loopvars
    PROVE  IInv'
<1>1. CASE UNCHANGED loopvars
  BY <1>1 DEF IInv, Typed, Staged, Custody, Beaten, loopvars, process, counters
<1>2. CASE Loop
  BY <1>2, TopStep, ExitStep, ReceiveStep, CacheReadStep, DeleteStep, PublishStep,
     ReplyLostStep, FlushedStep, FlushFailsStep, HandlerReturnsStep, HandlerRaisesStep DEF Loop
<1>3. CASE Surroundings
  BY <1>3, QuietStep, DeathStep, TickStep, QueueStep DEF Surroundings
<1> QED BY <1>1, <1>2, <1>3 DEF Next

\* Every reachable state of a worker is well typed and its messages are
\* accounted for, whatever the constants.
THEOREM LoopInvariant == ASSUME WorkerLoopAssumption PROVE Spec => []IInv
<1>1. Init => IInv
  BY InitIInv
<1>2. IInv /\ [Next]_loopvars => IInv'
  BY NextIInv
<1> QED BY <1>1, <1>2, PTL DEF Spec

\* A heartbeat that is still there bounds the age of the loop.
LEMMA BeatenIsGreen == ASSUME WorkerLoopAssumption, IInv PROVE GreenMeansLooping
<1> SUFFICES ASSUME health_status(TRUE, server = "up", worker_liveness) = "ok"
             PROVE  since < TTL
  BY DEF GreenMeansLooping
<1>1. server = "up" /\ worker_liveness # "stopped"
  BY DEF health_status
<1>2. beatage < TTL
  BY <1>1 DEF worker_liveness
<1> QED BY <1>2 DEF WorkerLoopAssumption, IInv, Typed, Beaten

\* /api/health is green only over a worker that came past the top of its loop
\* within the TTL of its heartbeat (E-023).
THEOREM GreenHolds == ASSUME WorkerLoopAssumption PROVE Spec => []GreenMeansLooping
<1>1. IInv => GreenMeansLooping
  BY BeatenIsGreen
<1> QED BY <1>1, LoopInvariant, PTL

\* A worker that has left holds nothing.
LEMMA CustodyAtExit == ASSUME WorkerLoopAssumption, IInv PROVE CleanStopAbandonsNothing
<1> SUFFICES ASSUME at = "exited", NEW u \in Units, work[u].at = "inflight"
             PROVE  u \in past.left
  BY DEF CleanStopAbandonsNothing, In
<1>1. batch = {} /\ hand = Empty
  BY DEF IInv, Staged, Down
<1> QED BY <1>1 DEF IInv, Custody, WorkerLoopAssumption

\* A worker that stops by itself leaves in flight only what a failed attempt
\* had left there (aws.Shutdown).
THEOREM CleanStopHolds == ASSUME WorkerLoopAssumption PROVE Spec => []CleanStopAbandonsNothing
<1>1. IInv => CleanStopAbandonsNothing
  BY CustodyAtExit
<1> QED BY <1>1, LoopInvariant, PTL

\* A message that was handled comes to a handler again only after a death or a
\* delivery after its delete, however many visibility timeouts its batch
\* outlasts.
THEOREM TimeoutRepeatsNothingHolds ==
    ASSUME WorkerLoopAssumption PROVE Spec => TimeoutRepeatsNothing
<1> DEFINE Once == \A u \in Units :
                      at = "handle" /\ hand' = u /\ hand # u => u \notin past.finished
<1>1. IInv /\ [Next]_loopvars => [Once]_loopvars
  <2> SUFFICES ASSUME IInv, Next, NEW u \in Units, at = "handle", hand' = u, hand # u
               PROVE  u \notin past.finished
    OBVIOUS
  <2>1. PICK v \in Units : HandlerReturns(v)
    BY DEF Next, Loop, Surroundings, Top, Exit, Receive, CacheRead, HandlerRaises, Delete,
           Publish, ReplyLost, Flushed, FlushFails, Send, Expire, DeliverAgain, Sigterm, Sigkill, Dying, Dies, Start,
           ServerFails, ServerReturns, Tick, process, WorkerLoopAssumption
  <2>2. u \in batch /\ work[u].at # "deleted"
    BY <2>1 DEF HandlerReturns, IInv, Custody
  <2> QED BY <2>2 DEF IInv, Custody
<1> QED BY <1>1, LoopInvariant, PTL DEF Spec, TimeoutRepeatsNothing

-----------------------------------------------------------------------------
(* The heartbeat of a worker that loops *)

\* In an iteration whose beat Redis took, the heartbeat is as old as it.
Reported ==
    /\ server \in {"up", "down"}
    /\ at \notin Down \cup {"top"} => past.refused \/ beatage <= since

\* Beat and loop age together, and only the top of the loop beats.
LEMMA ReportedStep ==
    ASSUME WorkerLoopAssumption, IInv, Reported, [Next]_loopvars
    PROVE  Reported'
<1>1. CASE Top
  <2>1. /\ server' = server /\ past'.refused = (server = "down")
        /\ since' = 0 /\ beatage' = IF server = "up" THEN 0 ELSE beatage
    BY <1>1 DEF Top, Beat, IInv, Typed
  <2>2. CASE server = "up"
    BY <2>1, <2>2 DEF Reported
  <2>3. CASE server = "down"
    BY <2>1, <2>3 DEF Reported
  <2> QED BY <2>2, <2>3 DEF Reported
<1>2. CASE Tick
  <2>1. /\ UNCHANGED <<at, server, past>>
        /\ since' = IF since < TTL THEN since + 1 ELSE TTL
        /\ beatage' = IF beatage < TTL THEN beatage + 1 ELSE TTL
    BY <1>2 DEF Tick, Aged
  <2>2. beatage <= since => beatage' <= since'
    BY <2>1 DEF WorkerLoopAssumption, IInv, Typed
  <2> QED BY <2>1, <2>2 DEF Reported
<1>3. CASE Exit \/ Flushed \/ FlushFails \/ Sigkill \/ Dying \/ Start
  <2>1. at' \in Down \cup {"top"} /\ server' = server
    BY <1>3 DEF Exit, Flushed, FlushFails, Sigkill, Dying, Dies, Start, Down
  <2> QED BY <2>1 DEF Reported
<1>4. CASE \/ Receive \/ CacheRead \/ Delete \/ Publish \/ ReplyLost \/ Sigterm
           \/ ServerFails \/ ServerReturns
           \/ \E u \in Units : \/ HandlerReturns(u) \/ HandlerRaises(u)
                                \/ Send(u) \/ Expire(u) \/ DeliverAgain(u)
           \/ UNCHANGED loopvars
  <2>1. UNCHANGED <<since, beatage>> /\ past'.refused = past.refused
    BY <1>4 DEF Receive, CacheRead, Delete, Publish, ReplyLost, Sigterm, ServerFails, ServerReturns,
           HandlerReturns, HandlerRaises, Send, Expire, DeliverAgain, loopvars, process, IInv, Typed
  <2>2. server' \in {server, "up", "down"}
    BY <1>4 DEF Receive, CacheRead, Delete, Publish, ReplyLost, Sigterm, ServerFails, ServerReturns,
           HandlerReturns, HandlerRaises, Send, Expire, DeliverAgain, loopvars
  <2>3. at' \notin Down \cup {"top"} => at \notin Down \cup {"top"}
    BY <1>4 DEF Receive, CacheRead, Delete, Publish, ReplyLost, Sigterm, ServerFails, ServerReturns,
           HandlerReturns, HandlerRaises, Send, Expire, DeliverAgain, loopvars, process, Down
  <2> QED BY <2>1, <2>2, <2>3 DEF Reported
<1> QED BY <1>1, <1>2, <1>3, <1>4 DEF Next, Loop, Surroundings

\* Without a heartbeat, the iteration is as old as the TTL or had no beat.
LEMMA ReportedIsAlive == ASSUME WorkerLoopAssumption, IInv, Reported PROVE IdleReportsAlive
<1> SUFFICES ASSUME worker_liveness = "stopped"
             PROVE  at \in Down \cup {"top"} \/ since = TTL \/ past.refused
  BY DEF IdleReportsAlive
<1>1. ~(beatage < TTL)
  BY DEF worker_liveness, Reported
<1> QED BY <1>1 DEF WorkerLoopAssumption, IInv, Typed, Reported

\* A worker that loops is taken for stopped only over a batch that outlasts
\* the TTL, or after Redis refused its last beat, for any TTL.
THEOREM IdleHolds == ASSUME WorkerLoopAssumption PROVE Spec => []IdleReportsAlive
<1>1. Init => Reported
  BY DEF Init, Idle, Reported
<1>2. IInv /\ Reported /\ [Next]_loopvars => Reported'
  BY ReportedStep
<1>3. IInv /\ Reported => IdleReportsAlive
  BY ReportedIsAlive
<1> QED BY <1>1, <1>2, <1>3, LoopInvariant, PTL DEF Spec

-----------------------------------------------------------------------------
(* The sums of the counters *)

\* Only a flush has names it has sent an INCRBY for.
Summed ==
    /\ STATS \in [Name -> Nat] /\ published \in [Name -> Int]
    /\ at # "flush" => added = {}
    /\ StatsAddUp

\* What the counters and the deltas say of a name together.
Total(n) == published[n] + (IF n \in added THEN 0 ELSE STATS[n])

\* A read, an INCRBY, the end of a flush and a death each move both sides alike.
LEMMA SummedStep ==
    ASSUME WorkerLoopAssumption, IInv, Summed, [Next]_loopvars
    PROVE  Summed'
<1>1. /\ past.reads \in [Name -> Int] /\ added \subseteq Name
      /\ \A n \in Name : /\ STATS[n] \in Nat /\ published[n] \in Int /\ past.reads[n] \in Int
                         /\ Total(n) >= past.reads[n]
                         /\ Total(n) > past.reads[n] => n \in past.cut
  BY DEF IInv, Typed, Summed, StatsAddUp, Total
<1>2. ASSUME STATS' \in [Name -> Nat], published' \in [Name -> Int], at' # "flush" => added' = {},
             \A n \in Name : /\ Total(n)' >= past'.reads[n]
                             /\ Total(n)' > past'.reads[n] => n \in past'.cut
      PROVE  Summed'
  BY <1>2 DEF Summed, StatsAddUp, Total
<1>3. CASE Exit
  <2>1. /\ added = {} /\ added' = {} /\ published' = published /\ STATS' = Zero
        /\ past'.cut = past.cut
        /\ past'.reads = [n \in Name |-> past.reads[n] - STATS[n]]
    BY <1>3 DEF Exit, Summed, IInv, Typed
  <2>2. \A n \in Name : Total(n)' = published[n] /\ Total(n) = published[n] + STATS[n]
    BY <1>1, <2>1 DEF Total, Zero
  <2>3. STATS' \in [Name -> Nat]
    BY <2>1 DEF Zero
  <2> QED BY <1>1, <1>2, <2>1, <2>2, <2>3 DEF Summed
<1>4. CASE CacheRead
  <2>1. PICK n \in Name : /\ STATS' = [STATS EXCEPT ![n] = @ + 1]
                          /\ past' = [past EXCEPT !.reads[n] = @ + 1]
    BY <1>4 DEF CacheRead, Name
  <2>2. /\ added = {} /\ added' = {} /\ published' = published /\ past'.cut = past.cut
        /\ past'.reads = [past.reads EXCEPT ![n] = @ + 1] /\ at' # "flush"
    BY <1>4, <2>1 DEF CacheRead, Summed, process, IInv, Typed
  <2>3. \A m \in Name : /\ STATS'[m] = IF m = n THEN STATS[m] + 1 ELSE STATS[m]
                        /\ past'.reads[m] = IF m = n THEN past.reads[m] + 1 ELSE past.reads[m]
    BY <1>1, <2>1, <2>2 DEF Summed
  <2>4. \A m \in Name : Total(m)' = (IF m = n THEN Total(m) + 1 ELSE Total(m)) /\ Total(m) \in Int
    BY <1>1, <2>2, <2>3 DEF Total
  <2>5. STATS' \in [Name -> Nat]
    BY <2>1, <1>1 DEF Summed
  <2> QED BY <1>1, <1>2, <2>2, <2>3, <2>4, <2>5 DEF Summed
<1>5. CASE Publish
  <2>1. PICK n \in Name : /\ n \in pending
                          /\ published' = [published EXCEPT ![n] = @ + STATS[n]]
                          /\ added' = added \cup {n}
    BY <1>5, PendingName DEF Publish, Incremented, pending
  <2>2. STATS' = STATS /\ past' = past /\ at' = "flush" /\ n \notin added
    BY <1>5, <2>1 DEF Publish, process, pending
  <2>3. \A m \in Name : published'[m] = IF m = n THEN published[m] + STATS[m] ELSE published[m]
    BY <2>1 DEF Summed
  <2>4. \A m \in Name : Total(m)' = Total(m)
    BY <1>1, <2>1, <2>2, <2>3 DEF Total
  <2>5. published' \in [Name -> Int]
    BY <1>1, <2>1 DEF Summed
  <2> QED BY <1>1, <1>2, <2>2, <2>4, <2>5 DEF Summed
<1>6. CASE Flushed
  <2>1. /\ published' = published /\ past' = past /\ STATS' = Drained /\ added' = {}
        /\ \A n \in Name : STATS[n] > 0 => n \in added
    BY <1>6 DEF Flushed, pending
  <2>2. \A n \in Name : STATS'[n] = IF n \in added THEN 0 ELSE STATS[n]
    BY <2>1 DEF Drained
  <2>3. \A n \in Name : Total(n)' = Total(n)
    BY <1>1, <2>1, <2>2 DEF Total
  <2>4. STATS' \in [Name -> Nat]
    BY <1>1, <2>1 DEF Drained
  <2> QED BY <1>1, <1>2, <2>1, <2>3, <2>4 DEF Summed
<1>7. CASE FlushFails
  <2>1. /\ published' = published /\ STATS' = STATS /\ added' = {} /\ past'.reads = past.reads
        /\ past'.cut = past.cut \cup added
    BY <1>7 DEF FlushFails, IInv, Typed
  <2>2. \A n \in Name : /\ Total(n) \in Int /\ Total(n)' >= Total(n)
                        /\ n \notin added => Total(n)' = Total(n)
    BY <1>1, <2>1 DEF Total
  <2>3. \A n \in Name : Total(n)' \in Int
    BY <1>1, <2>1 DEF Total
  <2> QED BY <1>1, <1>2, <2>1, <2>2, <2>3 DEF Summed
<1>10. CASE ReplyLost
  <2>1. PICK n \in Name :
            /\ n \in pending
            /\ published' = [published EXCEPT ![n] = @ + STATS[n]]
            /\ \/ added' = {} /\ at' = "top" /\ past'.cut = past.cut \cup added \cup {n}
               \/ added' = added /\ at' = at /\ past'.cut = past.cut \cup {n}
    BY <1>10, PendingName DEF ReplyLost, Incremented, pending, IInv, Typed
  <2>2. /\ STATS' = STATS /\ past'.reads = past.reads /\ n \notin added
        /\ past.cut \cup {n} \subseteq past'.cut /\ added \ added' \subseteq past'.cut
    BY <1>10, <2>1 DEF ReplyLost, pending, IInv, Typed
  <2>3. \A m \in Name : published'[m] = IF m = n THEN published[m] + STATS[m] ELSE published[m]
    BY <2>1 DEF Summed
  <2>4. \A m \in Name : /\ Total(m) \in Int /\ Total(m)' \in Int /\ Total(m)' >= Total(m)
                        /\ m # n /\ m \notin added \ added' => Total(m)' = Total(m)
    BY <1>1, <2>1, <2>2, <2>3 DEF Total
  <2>5. published' \in [Name -> Int] /\ (at' # "flush" => added' = {})
    BY <1>1, <2>1 DEF Summed
  <2> QED BY <1>1, <1>2, <2>2, <2>4, <2>5 DEF Summed
<1>8. CASE Sigkill \/ Dying
  <2>1. /\ added' = {} /\ published' = published /\ STATS' = Zero /\ past'.cut = past.cut
        /\ past'.reads = [n \in Name |-> IF n \in added THEN past.reads[n]
                                         ELSE past.reads[n] - STATS[n]]
    BY <1>8 DEF Sigkill, Dying, Dies, IInv, Typed
  <2>2. \A n \in Name :
            /\ Total(n)' = published[n]
            /\ Total(n) = IF n \in added THEN published[n] ELSE published[n] + STATS[n]
    BY <1>1, <2>1 DEF Total, Zero
  <2>3. STATS' \in [Name -> Nat]
    BY <2>1 DEF Zero
  <2> QED BY <1>1, <1>2, <2>1, <2>2, <2>3 DEF Summed
<1>9. CASE \/ Top \/ Receive \/ Delete \/ Sigterm \/ Start \/ ServerFails \/ ServerReturns \/ Tick
           \/ \E u \in Units : \/ HandlerReturns(u) \/ HandlerRaises(u)
                                \/ Send(u) \/ Expire(u) \/ DeliverAgain(u)
           \/ UNCHANGED loopvars
  <2>1. UNCHANGED counters /\ past'.reads = past.reads /\ past'.cut = past.cut
    BY <1>9 DEF Top, Receive, Delete, Sigterm, Start, ServerFails, ServerReturns, Tick,
           HandlerReturns, HandlerRaises, Send, Expire, DeliverAgain, loopvars, IInv, Typed
  <2>2. at' # "flush" => at # "flush" \/ added = {}
    BY <1>9 DEF Top, Receive, Delete, Sigterm, Start, ServerFails, ServerReturns, Tick,
           HandlerReturns, HandlerRaises, Send, Expire, DeliverAgain, loopvars, process, Down
  <2>3. \A n \in Name : Total(n)' = Total(n)
    BY <2>1 DEF Total, counters
  <2> QED BY <1>1, <1>2, <2>1, <2>2, <2>3 DEF Summed, counters
<1> QED BY <1>3, <1>4, <1>5, <1>6, <1>7, <1>8, <1>9, <1>10 DEF Next, Loop, Surroundings

\* flush_stats() loses no read, and counts one twice only by an INCRBY that was
\* not the last of its name: its flush failed or its reply was lost.  So for any
\* number of reads, outages, lost replies and deaths.
THEOREM SumsHold == ASSUME WorkerLoopAssumption PROVE Spec => []StatsAddUp
<1>1. Init => Summed
  BY DEF Init, Idle, Summed, StatsAddUp, Zero, Name
<1>2. IInv /\ Summed /\ [Next]_loopvars => Summed'
  BY SummedStep
<1>3. Summed => StatsAddUp
  BY DEF Summed
<1> QED BY <1>1, <1>2, <1>3, LoopInvariant, PTL DEF Spec
-----------------------------------------------------------------------------
(* The bounds of the counters *)

\* How often an INCRBY of n may have been applied that was not the last: each
\* time an outage or a lost reply of its own.
Cuts(n) ==
    spent.lost + (IF n \in added /\ server = "down" THEN spent.outages - 1 ELSE spent.outages)

\* No delta counts more than was read, and no counter more than the reads and
\* what the flushes counted again.
Bounded ==
    /\ requested \in BOOLEAN
    /\ grace \in 0..GRACE
    /\ server \in {"up", "down"}
    /\ spent \in Budget
    /\ published \in [Name -> Nat]
    /\ \A n \in Name : /\ 0 <= STATS[n] /\ STATS[n] <= past.reads[n]
                       /\ past.reads[n] <= spent.reads
                       /\ Total(n) <= spent.reads + MAX_READS * Cuts(n)

\* A product grows with its factor.
LEMMA ProductGrows ==
    ASSUME NEW a \in Nat, NEW x \in Int, NEW y \in Int, x <= y PROVE a * x <= a * y
<1>1. y - x \in Nat /\ a * (y - x) = a * y - a * x
  OBVIOUS
<1>2. a * (y - x) >= 0
  BY <1>1
<1>3. a * x \in Int /\ a * y \in Int
  OBVIOUS
<1> QED BY <1>1, <1>2, <1>3

\* With these bounds a worker that keeps the invariant is well typed.
LEMMA BoundedTypes == ASSUME WorkerLoopAssumption, IInv, Bounded PROVE TypeOK
<1>1. ASSUME NEW n \in Name
      PROVE  /\ STATS[n] \in 0..MAX_READS /\ past.reads[n] \in 0..MAX_READS
             /\ published[n] \in 0..(MAX_READS * (MAX_OUTAGES + MAX_LOST + 1))
  <2>1. /\ STATS[n] \in Int /\ past.reads[n] \in Int /\ published[n] \in Nat
        /\ spent.reads \in 0..MAX_READS /\ spent.outages \in 0..MAX_OUTAGES
        /\ spent.lost \in 0..MAX_LOST
        /\ MAX_READS \in Nat /\ MAX_OUTAGES \in Nat /\ MAX_LOST \in Nat
    BY DEF WorkerLoopAssumption, IInv, Typed, Bounded, Budget
  <2>2. Cuts(n) \in Int /\ Cuts(n) <= MAX_OUTAGES + MAX_LOST
    BY <2>1 DEF Cuts
  <2>3. MAX_READS * Cuts(n) <= MAX_READS * (MAX_OUTAGES + MAX_LOST)
    BY <2>1, <2>2, ProductGrows
  <2>4. MAX_READS * Cuts(n) \in Int /\ MAX_READS * (MAX_OUTAGES + MAX_LOST) \in Int
    BY <2>1, <2>2
  <2>5. published[n] <= Total(n) /\ Total(n) \in Int
    BY <2>1 DEF Total, Bounded
  <2>6. published[n] <= MAX_READS + MAX_READS * (MAX_OUTAGES + MAX_LOST)
    BY <2>1, <2>3, <2>4, <2>5 DEF Bounded
  <2>7. MAX_READS * (MAX_OUTAGES + MAX_LOST + 1) = MAX_READS + MAX_READS * (MAX_OUTAGES + MAX_LOST)
    BY <2>1
  <2> QED BY <2>1, <2>4, <2>6, <2>7 DEF Bounded
<1>2. /\ STATS \in [Name -> 0..MAX_READS] /\ past.reads \in [Name -> 0..MAX_READS]
      /\ published \in [Name -> 0..(MAX_READS * (MAX_OUTAGES + MAX_LOST + 1))]
  BY <1>1 DEF IInv, Typed, Bounded
<1> QED BY <1>2 DEF IInv, Typed, Bounded, TypeOK

\* A read counts one, an outage or a lost reply makes room for one more count of
\* what is being flushed, and no other step adds to a total.
LEMMA BoundedStep ==
    ASSUME WorkerLoopAssumption, IInv, Bounded, [Next]_loopvars
    PROVE  Bounded'
<1>1. /\ past.reads \in [Name -> Int] /\ added \subseteq Name /\ STATS \in [Name -> Int]
      /\ MAX_READS \in Nat /\ MAX_OUTAGES \in Nat /\ MAX_STOPS \in Nat /\ MAX_DEATHS \in Nat
      /\ MAX_LOST \in Nat /\ MAX_DUPLICATES \in Nat /\ GRACE \in Nat /\ spent \in Budget
      /\ spent.reads \in 0..MAX_READS /\ spent.outages \in 0..MAX_OUTAGES
      /\ spent.lost \in 0..MAX_LOST
      /\ \A n \in Name : /\ STATS[n] \in Nat /\ published[n] \in Nat /\ past.reads[n] \in Nat
                         /\ Total(n) \in Nat /\ Cuts(n) \in Int /\ MAX_READS * Cuts(n) \in Int
  BY DEF WorkerLoopAssumption, IInv, Typed, Bounded, Budget, Total, Cuts
<1>2. ASSUME requested' \in BOOLEAN, grace' \in 0..GRACE, server' \in {"up", "down"},
             spent' \in Budget, published' \in [Name -> Nat], spent'.reads >= spent.reads,
             \A n \in Name : /\ 0 <= STATS'[n] /\ STATS'[n] <= past'.reads[n]
                             /\ past'.reads[n] <= spent'.reads
                             /\ Total(n)' \in Int
                             /\ Total(n)' <= Total(n) + (spent'.reads - spent.reads)
                             /\ Cuts(n)' \in Int /\ Cuts(n)' >= Cuts(n)
      PROVE  Bounded'
  <2>1. ASSUME NEW n \in Name PROVE Total(n)' <= spent'.reads + MAX_READS * Cuts(n)'
    <3>1. MAX_READS * Cuts(n) <= MAX_READS * Cuts(n)' /\ MAX_READS * Cuts(n)' \in Int
      BY <1>1, <1>2, ProductGrows
    <3>2. Total(n) <= spent.reads + MAX_READS * Cuts(n)
      BY DEF Bounded
    <3>3. spent'.reads \in Int
      BY <1>2 DEF Budget
    <3> QED BY <1>1, <1>2, <3>1, <3>2, <3>3
  <2> QED BY <1>2, <2>1 DEF Bounded
<1>3. CASE \/ Top \/ Receive \/ Delete \/ Start \/ Tick \/ Sigterm
           \/ \E u \in Units : \/ HandlerReturns(u) \/ HandlerRaises(u)
                                \/ Send(u) \/ Expire(u) \/ DeliverAgain(u)
           \/ UNCHANGED loopvars
  <2>1. UNCHANGED <<STATS, published, added, server>> /\ past'.reads = past.reads
    BY <1>3 DEF Top, Receive, Delete, Start, Tick, Sigterm, HandlerReturns, HandlerRaises,
           Send, Expire, DeliverAgain, loopvars, counters, IInv, Typed
  <2>2. /\ spent'.reads = spent.reads /\ spent'.outages = spent.outages
        /\ spent'.lost = spent.lost /\ spent' \in Budget
    BY <1>1, <1>3 DEF Top, Receive, Delete, Start, Tick, Sigterm, HandlerReturns, HandlerRaises,
           Send, Expire, DeliverAgain, loopvars, Budget
  <2>3. requested' \in BOOLEAN /\ grace' \in 0..GRACE
    <3>1. grace \in 0..GRACE /\ 0 \in 0..GRACE /\ requested \in BOOLEAN
      BY <1>1 DEF Bounded
    <3>2. CASE Tick
      BY <1>1, <3>1, <3>2 DEF Tick
    <3>3. CASE ~Tick
      BY <1>3, <3>1, <3>3 DEF Top, Receive, Delete, Start, Sigterm, HandlerReturns,
             HandlerRaises, Send, Expire, DeliverAgain, loopvars, process
    <3> QED BY <3>2, <3>3
  <2>4. \A n \in Name : Total(n)' = Total(n) /\ Cuts(n)' = Cuts(n)
    BY <2>1, <2>2 DEF Total, Cuts
  <2> QED BY <1>1, <1>2, <2>1, <2>2, <2>3, <2>4 DEF Bounded
<1>4. CASE ServerFails \/ ServerReturns
  <2>1. UNCHANGED <<STATS, published, added, requested, grace, past>>
    BY <1>4 DEF ServerFails, ServerReturns, counters, process
  <2>2. /\ spent'.reads = spent.reads /\ spent'.outages \in Int
        /\ spent'.lost = spent.lost /\ spent' \in Budget
        /\ \/ server = "up" /\ server' = "down" /\ spent'.outages = spent.outages + 1
           \/ server' = "up" /\ spent'.outages = spent.outages
    BY <1>1, <1>4 DEF ServerFails, ServerReturns, Budget, Bounded
  <2>3. \A n \in Name : Total(n)' = Total(n) /\ Cuts(n)' \in Int /\ Cuts(n)' >= Cuts(n)
    BY <1>1, <2>1, <2>2 DEF Total, Cuts
  <2> QED BY <1>1, <1>2, <2>1, <2>2, <2>3 DEF Bounded
<1>5. CASE Exit
  <2>1. /\ UNCHANGED <<published, added, requested, grace, server, spent>> /\ STATS' = Zero
        /\ past'.reads = [n \in Name |-> past.reads[n] - STATS[n]]
    BY <1>5 DEF Exit, IInv, Typed
  <2>2. \A n \in Name : /\ STATS'[n] = 0 /\ past'.reads[n] = past.reads[n] - STATS[n]
                        /\ Total(n)' = published[n] /\ published[n] <= Total(n)
                        /\ Cuts(n)' = Cuts(n)
    BY <1>1, <2>1 DEF Total, Cuts, Zero
  <2> QED BY <1>1, <1>2, <2>1, <2>2 DEF Bounded
<1>6. CASE CacheRead
  <2>1. PICK n \in Name : /\ STATS' = [STATS EXCEPT ![n] = @ + 1]
                          /\ past' = [past EXCEPT !.reads[n] = @ + 1]
    BY <1>6 DEF CacheRead, Name
  <2>2. /\ UNCHANGED <<published, added, requested, grace, server>>
        /\ past'.reads = [past.reads EXCEPT ![n] = @ + 1]
        /\ spent'.reads = spent.reads + 1 /\ spent'.outages = spent.outages
        /\ spent'.lost = spent.lost /\ spent' \in Budget
    BY <1>1, <1>6, <2>1 DEF CacheRead, process, IInv, Typed, Budget
  <2>3. \A m \in Name : /\ STATS'[m] = IF m = n THEN STATS[m] + 1 ELSE STATS[m]
                        /\ past'.reads[m] = IF m = n THEN past.reads[m] + 1 ELSE past.reads[m]
    BY <1>1, <2>1, <2>2
  <2>4. \A m \in Name : /\ Total(m)' \in Int /\ Total(m)' <= Total(m) + 1
                        /\ Cuts(m)' = Cuts(m)
    BY <1>1, <2>2, <2>3 DEF Total, Cuts
  <2>5. \A m \in Name : /\ 0 <= STATS'[m] /\ STATS'[m] <= past'.reads[m]
                        /\ past'.reads[m] <= spent'.reads
    BY <1>1, <2>2, <2>3 DEF Bounded
  <2> QED BY <1>1, <1>2, <2>2, <2>4, <2>5 DEF Bounded
<1>7. CASE Publish
  <2>1. PICK n \in Name : /\ n \in pending
                          /\ published' = [published EXCEPT ![n] = @ + STATS[n]]
                          /\ added' = added \cup {n}
    BY <1>7, PendingName DEF Publish, Incremented, pending
  <2>2. /\ UNCHANGED <<STATS, past, spent, requested, grace, server>>
        /\ server = "up" /\ n \notin added
    BY <1>7, <2>1 DEF Publish, process, pending
  <2>3. \A m \in Name : published'[m] = IF m = n THEN published[m] + STATS[m] ELSE published[m]
    BY <2>1 DEF Bounded
  <2>4. \A m \in Name : Total(m)' = Total(m) /\ Cuts(m)' = Cuts(m)
    BY <1>1, <2>1, <2>2, <2>3 DEF Total, Cuts
  <2>5. published' \in [Name -> Nat]
    BY <1>1, <2>1 DEF Bounded
  <2> QED BY <1>1, <1>2, <2>2, <2>4, <2>5 DEF Bounded
<1>8. CASE Flushed
  <2>1. /\ UNCHANGED <<published, past, spent, requested, grace, server>>
        /\ STATS' = Drained /\ added' = {}
        /\ \A n \in Name : STATS[n] > 0 => n \in added
    BY <1>8 DEF Flushed, pending
  <2>2. \A n \in Name : STATS'[n] = IF n \in added THEN 0 ELSE STATS[n]
    BY <2>1 DEF Drained
  <2>3. \A n \in Name : Total(n)' = Total(n) /\ Cuts(n)' \in Int /\ Cuts(n)' >= Cuts(n)
    BY <1>1, <2>1, <2>2 DEF Total, Cuts
  <2>4. \A n \in Name : 0 <= STATS'[n] /\ STATS'[n] <= past'.reads[n]
    BY <1>1, <2>1, <2>2 DEF Bounded
  <2> QED BY <1>1, <1>2, <2>1, <2>3, <2>4 DEF Bounded
<1>9. CASE FlushFails
  <2>1. /\ UNCHANGED <<STATS, published, spent, requested, grace, server>>
        /\ server = "down" /\ added' = {} /\ past'.reads = past.reads
    BY <1>9 DEF FlushFails, IInv, Typed
  <2>2. ASSUME NEW n \in Name PROVE Total(n)' <= spent.reads + MAX_READS * Cuts(n)'
    <3>1. Total(n) <= spent.reads + MAX_READS * Cuts(n)
      BY DEF Bounded
    <3>2. CASE n \notin added
      BY <2>1, <3>1, <3>2 DEF Total, Cuts
    <3>3. CASE n \in added
      <4>1. Total(n)' = Total(n) + STATS[n] /\ STATS[n] <= MAX_READS
        BY <1>1, <2>1, <3>3 DEF Total, Bounded
      <4>2. Cuts(n)' = Cuts(n) + 1
        BY <1>1, <2>1, <3>3 DEF Cuts
      <4>3. MAX_READS * (Cuts(n) + 1) = MAX_READS * Cuts(n) + MAX_READS
        BY <1>1
      <4> QED BY <1>1, <3>1, <4>1, <4>2, <4>3
    <3> QED BY <3>2, <3>3
  <2> QED BY <2>1, <2>2 DEF Bounded
<1>10. CASE Sigkill \/ Dying
  <2>1. /\ UNCHANGED <<published, requested, grace, server>> /\ added' = {} /\ STATS' = Zero
        /\ past'.reads = [n \in Name |-> IF n \in added THEN past.reads[n]
                                         ELSE past.reads[n] - STATS[n]]
    BY <1>10 DEF Sigkill, Dying, Dies, IInv, Typed
  <2>2. /\ spent'.reads = spent.reads /\ spent'.outages = spent.outages
        /\ spent'.lost = spent.lost /\ spent' \in Budget
    BY <1>1, <1>10 DEF Sigkill, Dying, Budget
  <2>3. \A n \in Name : /\ STATS'[n] = 0 /\ Total(n)' \in Int /\ Total(n)' <= Total(n)
                        /\ Cuts(n)' \in Int /\ Cuts(n)' >= Cuts(n)
                        /\ past'.reads[n] = IF n \in added THEN past.reads[n]
                                            ELSE past.reads[n] - STATS[n]
    BY <1>1, <2>1, <2>2 DEF Total, Cuts, Zero
  <2> QED BY <1>1, <1>2, <2>1, <2>2, <2>3 DEF Bounded
<1>11. CASE ReplyLost
  <2>1. PICK n \in Name : /\ n \in pending
                          /\ published' = [published EXCEPT ![n] = @ + STATS[n]]
                          /\ added' \in {{}, added}
    BY <1>11, PendingName DEF ReplyLost, Incremented, pending
  <2>2. /\ UNCHANGED <<STATS, requested, grace, server>> /\ past'.reads = past.reads
        /\ server = "up" /\ n \notin added
        /\ spent'.reads = spent.reads /\ spent'.outages = spent.outages
        /\ spent'.lost = spent.lost + 1 /\ spent' \in Budget
    BY <1>1, <1>11, <2>1 DEF ReplyLost, pending, IInv, Typed, Budget
  <2>3. /\ \A m \in Name : published'[m] = IF m = n THEN published[m] + STATS[m] ELSE published[m]
        /\ published' \in [Name -> Nat]
    BY <1>1, <2>1 DEF Bounded
  <2>4. ASSUME NEW m \in Name PROVE Total(m)' <= spent.reads + MAX_READS * Cuts(m)'
    <3>1. Total(m) <= spent.reads + MAX_READS * Cuts(m) /\ STATS[m] <= MAX_READS
      BY <1>1 DEF Bounded
    <3>2. Total(m)' \in Int /\ Total(m)' <= Total(m) + STATS[m]
      BY <1>1, <2>1, <2>2, <2>3 DEF Total
    <3>3. Cuts(m)' = Cuts(m) + 1
      BY <1>1, <2>2 DEF Cuts
    <3>4. MAX_READS * (Cuts(m) + 1) = MAX_READS * Cuts(m) + MAX_READS
      BY <1>1
    <3> QED BY <1>1, <3>1, <3>2, <3>3, <3>4
  <2> QED BY <2>2, <2>3, <2>4 DEF Bounded
<1> QED BY <1>3, <1>4, <1>5, <1>6, <1>7, <1>8, <1>9, <1>10, <1>11 DEF Next, Loop, Surroundings

\* The worker is well typed: no counter in Redis exceeds the reads of every
\* process and one count more of them for each outage and each lost reply,
\* whenever it is interrupted.
THEOREM LoopTypeCorrect == ASSUME WorkerLoopAssumption PROVE Spec => []TypeOK
<1>1. Init => Bounded
  <2> SUFFICES ASSUME Init PROVE Bounded
    OBVIOUS
  <2>1. \A n \in Name : STATS[n] = 0 /\ published[n] = 0 /\ past.reads[n] = 0
    BY DEF Init, Idle, Zero
  <2>2. \A n \in Name : Total(n) = 0 /\ Cuts(n) = 0
    BY <2>1 DEF Init, Idle, Total, Cuts
  <2>3. spent.reads = 0 /\ MAX_READS * 0 = 0
    BY DEF Init, WorkerLoopAssumption
  <2>4. spent \in Budget
    BY DEF WorkerLoopAssumption, Init, Budget
  <2>5. published \in [Name -> Nat] /\ requested \in BOOLEAN /\ server \in {"up", "down"}
    BY DEF Init, Idle, Zero
  <2>6. grace \in 0..GRACE
    BY DEF WorkerLoopAssumption, Init, Idle
  <2>7. \A n \in Name : /\ 0 <= STATS[n] /\ STATS[n] <= past.reads[n]
                        /\ past.reads[n] <= spent.reads
                        /\ Total(n) <= spent.reads + MAX_READS * Cuts(n)
    BY <2>1, <2>2, <2>3
  <2> QED BY <2>4, <2>5, <2>6, <2>7 DEF Bounded
<1>2. IInv /\ Bounded /\ [Next]_loopvars => Bounded'
  BY BoundedStep
<1>3. IInv /\ Bounded => TypeOK
  BY BoundedTypes
<1> QED BY <1>1, <1>2, <1>3, LoopInvariant, PTL DEF Spec
=============================================================================

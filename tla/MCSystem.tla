------------------------------ MODULE MCSystem ------------------------------
(* Instances of WorkerLoop, AlertFeed, ConnectionPool, Pipeline and         *)
(* MockServer for TLC.  They share no state: in a behaviour one of them     *)
(* moves, chosen at the start, and the others rest.                         *)
EXTENDS WorkerLoop, Pipeline, ConnectionPool, MockServer

CONSTANTS
    u1, u2, t1, t2, t3, a, b, c, p1, p2, p3, p4, p5,
    ISSUES, Open, LIFE, WINDOW, MAX_ERRORS

VARIABLES
    listed, left, todo, ingest, content, holding, step, row, unseen, errors,
    focus       \* the module that moves

A == INSTANCE AlertFeed

\* The pipeline may spend all of its failures but one before it starts.
ASSUME SystemAssumption ==
    WorkerLoopAssumption /\ A!AlertFeedAssumption /\ MAX_FAILURES # 0

\* The values of the constants a .cfg cannot write.
MCNear == {{a, b}, {b, c}}
MCFloods == {{a}, {a, b}, {a, b, c}}
MCAdjacent == {{p1, p2}, {p2, p3}, {p1, p3}, {p3, p4}, {p4, p5}}
Depths(some, d) == [s \in SENSORS |-> IF s \in some THEN d ELSE 0]
MCStormFrames == {Depths(some, d) : some \in {{p1}, {p1, p2}, QUEENS, SENSORS},
                                    d \in {5, 8, 10, 12, 20}}
MCReplayFrames == {Depths(some, 20) : some \in SUBSET SENSORS}

alertvars == <<listed, left, todo, ingest, content, holding, step, row, unseen, errors>>
vars == <<loopvars, alertvars, poolvars, pipevars, mockvars, focus>>

Worker(Act) ==
    focus = "worker" /\ Act /\ UNCHANGED <<alertvars, poolvars, pipevars, mockvars, focus>>
Alerts(Act) ==
    focus = "alerts" /\ Act /\ UNCHANGED <<loopvars, poolvars, pipevars, mockvars, focus>>
Pooled(Act) ==
    focus = "pool" /\ Act /\ UNCHANGED <<loopvars, alertvars, pipevars, mockvars, focus>>
Pipe(Act) ==
    focus = "pipe" /\ Act /\ UNCHANGED <<loopvars, alertvars, poolvars, mockvars, focus>>
Mock(Act) ==
    focus = "mock" /\ Act /\ UNCHANGED <<loopvars, alertvars, poolvars, pipevars, focus>>

-----------------------------------------------------------------------------
\* What the worker meets: one unit and the outages and deaths, one unit, a lost
\* reply and a death, or two units, a redelivery, a stop and a death.
OneUnit == [EmptyQueue EXCEPT ![u2].at = "dead"]

WorkerMeets ==
    {[work |-> OneUnit,
      spent |-> [reads |-> 0, outages |-> 0, stops |-> MAX_STOPS, deaths |-> 0,
                 lost |-> MAX_LOST, duplicates |-> MAX_DUPLICATES]],
     [work |-> OneUnit,
      spent |-> [reads |-> 0, outages |-> MAX_OUTAGES, stops |-> MAX_STOPS, deaths |-> 0,
                 lost |-> 0, duplicates |-> MAX_DUPLICATES]],
     [work |-> EmptyQueue,
      spent |-> [reads |-> MAX_READS, outages |-> MAX_OUTAGES, stops |-> 0, deaths |-> 0,
                 lost |-> MAX_LOST, duplicates |-> 0]]}

\* What the pipeline meets: a change of the flood, its depth or its alert and a
\* failure, or two failures.
PipelineMeets ==
    {[changes |-> 0, failures |-> MAX_FAILURES - 1, depth |-> d, alert |-> FALSE] :
        d \in FloodDepths}
    \cup {[changes |-> MAX_CHANGES, failures |-> 0, depth |-> CHOOSE d \in FloodDepths : TRUE,
           alert |-> TRUE]}

Rest == [worker |-> CHOOSE m \in WorkerMeets : TRUE,
         pipe   |-> CHOOSE m \in PipelineMeets : TRUE]

MCInit ==
    /\ focus \in {"worker", "alerts", "pool", "pipe", "mock"}
    /\ Idle
    /\ \E m \in IF focus = "worker" THEN WorkerMeets ELSE {Rest.worker} :
          work = m.work /\ spent = m.spent
    /\ A!Init
    /\ PoolInit
    /\ Quiet
    /\ focus # "pipe" => flooded = (CHOOSE f \in Floods : TRUE)
    /\ \E m \in IF focus = "pipe" THEN PipelineMeets ELSE {Rest.pipe} :
          /\ changes = m.changes /\ failures = m.failures
          /\ max_depth_cm = m.depth /\ under_alert = m.alert
    /\ MockInit
    /\ focus # "mock" => _replay_frames = <<>>

MCNext ==
    Worker(Next) \/ Alerts(A!Next) \/ Pooled(PoolNext) \/ Pipe(PipelineNext) \/ Mock(MockNext)

MCFairness ==
    /\ WF_vars(Alerts(A!Tick))
    /\ WF_vars(Alerts(A!Collector))
    /\ WF_vars(Alerts(A!Correlator))
    /\ \A u \in Units : WF_vars(Alerts(A!Expire(u) \/ A!DeadLetter(u)))
    /\ \A t \in Threads : WF_vars(Pooled(Step(t)))
    /\ WF_vars(Pipe(Correlator))
    /\ \A u \in Units :
          WF_vars(Pipe(Handle(u) \/ HandlerFails(u) \/ ExpireZone(u) \/ DeadLetter(u)))
    /\ \A z \in Zones : WF_vars(Pipe(Age(z) \/ Sweep(z)))

MCSpec == MCInit /\ [][MCNext]_vars /\ MCFairness

-----------------------------------------------------------------------------
\* The modules are well typed.
AllTypesOK == TypeOK /\ A!TypeOK /\ PoolTypeOK /\ PipelineTypeOK /\ MockTypeOK

\* The stored alert ends up at the version the feed lists.
RowFollowsFeed == A!RowFollowsFeed

\* An alert without expiry applies again and again while it is listed.
ListedApplies == A!ListedApplies

\* An alert the feed has dropped ceases to apply.
DelistedLapses == A!DelistedLapses
=============================================================================

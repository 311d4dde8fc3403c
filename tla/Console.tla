------------------------------ MODULE Console ------------------------------
(***************************************************************************)
(* The console: api/server.py reads the tables and fans the state out over *)
(* WebSockets, web/app.js shows the last state it received.                *)
(*                                                                         *)
(* One task (broadcaster) reads the state every interval and sends it to   *)
(* every registered socket in turn; every connection has a handler (ws)    *)
(* that registers the socket, reads the state for itself, sends it and     *)
(* then waits for the browser to leave.  A state is read table by table,   *)
(* in transactions of their own.  Two tables stand for all: the zones, and *)
(* the advisories the dispatcher adds after it wrote the zone.             *)
(***************************************************************************)
EXTENDS Integers, Sequences

CONSTANTS
    Browsers,
    BUFFER,         \* messages a socket takes before send_text() waits
    MAX_WRITES,     \* bound: writes of the dispatcher
    MAX_FAULTS      \* bound: failing reads and lost connections

ASSUME ConsoleAssumption ==
    /\ BUFFER \in Nat \ {0}
    /\ MAX_WRITES \in Nat /\ MAX_FAULTS \in Nat

VARIABLES
    database,   \* how many zone writes and advisories the tables hold
    task,       \* the statement the broadcaster is about to run
    state,      \* the broadcaster's local: what it read so far
    targets,    \* the sockets broadcast() has not sent to yet
    dead,       \* the sockets broadcast() could not send to
    active,     \* clients.active
    handler,    \* the statement each connection's handler is about to run
    first,      \* each handler's local: what it read so far
    open,       \* the browsers whose connection is up
    wire,       \* what each socket has sent and the browser not received
    shown,      \* what each browser shows, or Blank
    faults,
    history     \* times the display went back on this connection, Nothing before
                \* its first message

broadcast == <<task, state, targets, dead>>
connection == <<handler, first, open>>
vars == <<database, broadcast, active, connection, wire, shown, faults, history>>

Blank == [zones |-> 0, advisories |-> 0]
Tables == [zones : 0..MAX_WRITES, advisories : 0..MAX_WRITES]

Nothing == -1

Older(x, y) == x # y /\ x.zones <= y.zones /\ x.advisories <= y.advisories

TypeOK ==
    /\ database \in Tables
    /\ task \in {"sleep", "zones", "advisories", "targets", "send"}
    /\ state \in Tables
    /\ targets \subseteq Browsers
    /\ dead \subseteq Browsers
    /\ active \subseteq Browsers
    /\ handler \in [Browsers -> {"none", "add", "zones", "advisories", "send", "receive"}]
    /\ first \in [Browsers -> Tables]
    /\ open \subseteq Browsers
    /\ wire \in [Browsers -> Seq(Tables)]
    /\ \A b \in Browsers : Len(wire[b]) <= BUFFER
    /\ shown \in [Browsers -> Tables]
    /\ faults \in 0..MAX_FAULTS
    /\ history \in [Browsers -> Nothing..2]

Init ==
    /\ database = Blank
    /\ task = "zones"
    /\ state = Blank
    /\ targets = {}
    /\ dead = {}
    /\ active = {}
    /\ handler = [b \in Browsers |-> "none"]
    /\ first = [b \in Browsers |-> Blank]
    /\ open = {}
    /\ wire = [b \in Browsers |-> <<>>]
    /\ shown = [b \in Browsers |-> Blank]
    /\ faults = 0
    /\ history = [b \in Browsers |-> Nothing]

-----------------------------------------------------------------------------
\* The dispatcher: upsert_zone(), later record_advisory().
Write ==
    /\ \/ /\ database.zones < MAX_WRITES
          /\ database.zones = database.advisories
          /\ database' = [database EXCEPT !.zones = @ + 1]
       \/ /\ database.advisories < database.zones
          /\ database' = [database EXCEPT !.advisories = @ + 1]
    /\ UNCHANGED <<broadcast, active, connection, wire, shown, faults, history>>

-----------------------------------------------------------------------------
(* broadcaster() *)

Wake ==
    /\ task = "sleep"
    /\ task' = "zones"
    /\ UNCHANGED <<database, state, targets, dead, active, connection, wire, shown, faults, history>>

ReadZones ==
    /\ task = "zones"
    /\ state' = [state EXCEPT !.zones = database.zones]
    /\ task' = "advisories"
    /\ UNCHANGED <<database, targets, dead, active, connection, wire, shown, faults, history>>

ReadAdvisories ==
    /\ task = "advisories"
    /\ state' = [state EXCEPT !.advisories = database.advisories]
    /\ task' = "targets"
    /\ UNCHANGED <<database, targets, dead, active, connection, wire, shown, faults, history>>

\* build_state() raised: logged, and the loop goes on.
BuildFails ==
    /\ task \in {"zones", "advisories"}
    /\ faults < MAX_FAULTS
    /\ faults' = faults + 1
    /\ task' = "sleep"
    /\ UNCHANGED <<database, state, targets, dead, active, connection, wire, shown, history>>

TakeTargets ==
    /\ task = "targets"
    /\ targets' = active
    /\ dead' = {}
    /\ task' = "send"
    /\ UNCHANGED <<database, state, active, connection, wire, shown, faults, history>>

\* The mutant sends without awaiting.
Room_any(b) == TRUE
Room(b) == Len(wire[b]) < BUFFER

\* await ws.send_text(): it waits while the socket's buffer is full, and with
\* it every socket after this one.
SendTo(b) ==
    /\ task = "send"
    /\ b \in targets
    /\ IF b \in open
       THEN /\ Room(b)
            /\ wire' = [wire EXCEPT ![b] = Append(@, state)]
            /\ dead' = dead
       ELSE wire' = wire /\ dead' = dead \cup {b}
    /\ targets' = targets \ {b}
    /\ UNCHANGED <<database, task, state, active, connection, shown, faults, history>>

\* The dead sockets leave the set, one by one.  The mutant clears the set.
Survivors_none == IF dead = {} THEN active ELSE {}
Survivors == active \ dead

DropDead ==
    /\ task = "send"
    /\ targets = {}
    /\ active' = Survivors
    /\ dead' = {}
    /\ state' = Blank
    /\ task' = "sleep"
    /\ UNCHANGED <<database, targets, connection, wire, shown, faults, history>>

-----------------------------------------------------------------------------
(* ws(), one handler per connection *)

\* accept(): the browser's socket opens.  It is another socket than the one the
\* browser lost: what broadcast() still does with that one touches it no more.
Connect(b) ==
    /\ b \notin open
    /\ handler[b] = "none"
    /\ open' = open \cup {b}
    /\ handler' = [handler EXCEPT ![b] = "add"]
    /\ history' = [history EXCEPT ![b] = Nothing]
    /\ targets' = targets \ {b}
    /\ dead' = dead \ {b}
    /\ UNCHANGED <<database, task, state, active, first, wire, shown, faults>>

Add(b) ==
    /\ handler[b] = "add"
    /\ active' = active \cup {b}
    /\ handler' = [handler EXCEPT ![b] = "zones"]
    /\ UNCHANGED <<database, broadcast, first, open, wire, shown, faults, history>>

HandlerReadsZones(b) ==
    /\ handler[b] = "zones"
    /\ first' = [first EXCEPT ![b].zones = database.zones]
    /\ handler' = [handler EXCEPT ![b] = "advisories"]
    /\ UNCHANGED <<database, broadcast, active, open, wire, shown, faults, history>>

HandlerReadsAdvisories(b) ==
    /\ handler[b] = "advisories"
    /\ first' = [first EXCEPT ![b].advisories = database.advisories]
    /\ handler' = [handler EXCEPT ![b] = "send"]
    /\ UNCHANGED <<database, broadcast, active, open, wire, shown, faults, history>>

\* The first state is read and sent once, before the loop.  The mutant has both
\* in the loop.
AfterFirst_again == "zones"
AfterFirst == "receive"

SendFirst(b) ==
    /\ handler[b] = "send"
    /\ b \in open
    /\ Room(b)
    /\ wire' = [wire EXCEPT ![b] = Append(@, first[b])]
    /\ handler' = [handler EXCEPT ![b] = AfterFirst]
    /\ first' = [first EXCEPT ![b] = Blank]
    /\ UNCHANGED <<database, broadcast, active, open, shown, faults, history>>

\* WebSocketDisconnect, or a send to a closed socket.
HandlerDrops(b) ==
    /\ handler[b] \in {"send", "receive"}
    /\ b \notin open
    /\ active' = active \ {b}
    /\ handler' = [handler EXCEPT ![b] = "none"]
    /\ first' = [first EXCEPT ![b] = Blank]
    /\ UNCHANGED <<database, broadcast, open, wire, shown, faults, history>>

\* build_state() raised: the handler returns, which closes the socket.
HandlerFails(b) ==
    /\ handler[b] \in {"zones", "advisories"}
    /\ faults < MAX_FAULTS
    /\ faults' = faults + 1
    /\ active' = active \ {b}
    /\ handler' = [handler EXCEPT ![b] = "none"]
    /\ open' = open \ {b}
    /\ first' = [first EXCEPT ![b] = Blank]
    /\ wire' = [wire EXCEPT ![b] = <<>>]
    /\ UNCHANGED <<database, broadcast, shown, history>>

-----------------------------------------------------------------------------
(* The browser *)

\* apply(): the state replaces what was shown.
Receive(b) ==
    /\ wire[b] # <<>>
    /\ shown' = [shown EXCEPT ![b] = Head(wire[b])]
    /\ wire' = [wire EXCEPT ![b] = Tail(@)]
    /\ history' = [history EXCEPT ![b] =
                      CASE @ = Nothing -> 0
                        [] @ < 2 /\ @ # Nothing /\ Older(Head(wire[b]), shown[b]) -> @ + 1
                        [] OTHER -> @]
    /\ UNCHANGED <<database, broadcast, active, connection, faults>>

\* The connection is lost with what was on it; connect() tries again.
Disconnect(b) ==
    /\ b \in open
    /\ faults < MAX_FAULTS
    /\ faults' = faults + 1
    /\ open' = open \ {b}
    /\ wire' = [wire EXCEPT ![b] = <<>>]
    /\ UNCHANGED <<database, broadcast, active, handler, first, shown, history>>

-----------------------------------------------------------------------------
Broadcaster ==
    \/ Wake \/ ReadZones \/ ReadAdvisories \/ BuildFails \/ TakeTargets \/ DropDead
    \/ \E b \in Browsers : SendTo(b)

Handler(b) ==
    \/ Connect(b) \/ Add(b) \/ HandlerReadsZones(b) \/ HandlerReadsAdvisories(b)
    \/ SendFirst(b) \/ HandlerDrops(b) \/ HandlerFails(b)

Next ==
    \/ Write \/ Broadcaster
    \/ \E b \in Browsers : Handler(b) \/ Receive(b) \/ Disconnect(b)

Spec == Init /\ [][Next]_vars

(* Fairness.  The event loop runs every task that can go on, and a browser  *)
(* takes what has arrived and reconnects.                                   *)
Fairness ==
    /\ WF_vars(Broadcaster)
    /\ \A b \in Browsers : WF_vars(Handler(b)) /\ WF_vars(Receive(b))

FairSpec == Spec /\ Fairness

-----------------------------------------------------------------------------
(* Properties *)

\* The display goes back at most once in a connection: broadcasts reach a
\* browser in the order they were read, only the handler's own first state
\* can arrive behind a newer one.
GoesBackAtMostOnce == \A b \in Browsers : history[b] <= 1

\* Every browser ends up showing the tables as they are, over torn reads, late
\* first states, lost connections and failing reads of the broadcaster.
EveryBrowserCatchesUp == <>[](\A b \in Browsers : shown[b] = database)
=============================================================================

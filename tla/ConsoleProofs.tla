---------------------------- MODULE ConsoleProofs ----------------------------
(***************************************************************************)
(* Proofs about Console: in one connection the display goes back at most   *)
(* once.                                                                   *)
(*                                                                         *)
(* What a browser shows and what its socket still holds is one sequence    *)
(* (Item).  The broadcasts in it are in the order they were read, and no   *)
(* later broadcast is behind them (Floor); at one position, spare, may     *)
(* stand the state the handler read for itself.  The display goes back     *)
(* there or right after it, and not at both.                               *)
(***************************************************************************)
EXTENDS Console, TLAPS

\* x was read from tables no newer than y.
Le(x, y) == x.zones <= y.zones /\ x.advisories <= y.advisories

\* What b shows, unless it is of an earlier connection, and what it will.
Items(b) == (IF history[b] = Nothing THEN 1 ELSE 0)..Len(wire[b])
Item(b, i) == IF i = 0 THEN shown[b] ELSE wire[b][i]

\* No broadcast that b still gets is behind x.
Floor(b, x) ==
    CASE task = "advisories" -> x.zones <= state.zones /\ x.advisories <= database.advisories
      [] task = "targets" -> Le(x, state)
      [] task = "send" /\ b \in targets -> Le(x, state)
      [] OTHER -> Le(x, database)

None == -1

\* But for the item at spare, the items go up and none is ahead of the floor.
Ordered(b, spare) ==
    \A i, j \in Items(b) \ {spare} : i < j => Le(Item(b, i), Item(b, j))

Fits(b, spare) == \A i \in Items(b) \ {spare} : Floor(b, Item(b, i))

\* The handler has not sent its state; it has, and the state is at the spare
\* position or out of sight; or the display went back for it.
InOrder(b) ==
    /\ history[b] <= 1
    /\ history[b] = 1 => handler[b] = "receive"
    /\ \E spare \in Int :
          /\ Ordered(b, spare) /\ Fits(b, spare)
          /\ spare # None => handler[b] = "receive" /\ history[b] <= 0

IInv ==
    /\ TypeOK
    /\ Le(state, database)
    /\ \A b \in Browsers \ open : wire[b] = <<>>
    /\ \A b \in open : handler[b] # "none" /\ InOrder(b)
    /\ GoesBackAtMostOnce

-----------------------------------------------------------------------------
\* The invariant holds before the first browser connects.
LEMMA InitIInv == Init => IInv
<1> SUFFICES ASSUME Init PROVE IInv
  OBVIOUS
<1>1. TypeOK
  BY ConsoleAssumption DEF Init, TypeOK, Blank, Tables, Nothing
<1> QED
  BY <1>1 DEF Init, IInv, Le, Blank, GoesBackAtMostOnce, Nothing

\* An item is a state of the tables.
LEMMA ItemType ==
    ASSUME TypeOK, NEW b \in Browsers, NEW i \in Items(b) PROVE Item(b, i) \in Tables
<1>1. Len(wire[b]) \in Nat /\ \A k \in 1..Len(wire[b]) : wire[b][k] \in Tables
  BY DEF TypeOK
<1> QED
  BY <1>1 DEF TypeOK, Items, Item, Nothing

\* Where the sequence stays and the floor does not rise, all stays in order.
LEMMA StaysInOrder ==
    ASSUME TypeOK, NEW b \in Browsers, InOrder(b),
           wire'[b] = wire[b], shown'[b] = shown[b], history'[b] = history[b],
           handler[b] = "receive" => handler'[b] = "receive",
           \A x \in Tables : Floor(b, x) => Floor(b, x)'
    PROVE  InOrder(b)'
<1>1. Items(b)' = Items(b) /\ \A i \in Items(b) : Item(b, i)' = Item(b, i)
  BY DEF Items, Item
<1>2. PICK spare \in Int :
          /\ Ordered(b, spare) /\ Fits(b, spare)
          /\ spare # None => handler[b] = "receive" /\ history[b] <= 0
  BY DEF InOrder
<1>3. Ordered(b, spare)'
  BY <1>1, <1>2 DEF Ordered
<1>4. Fits(b, spare)'
  BY <1>1, <1>2, ItemType DEF Fits
<1> QED
  BY <1>2, <1>3, <1>4 DEF InOrder

\* The floor is closed downwards.
LEMMA FloorBelow ==
    ASSUME TypeOK, NEW b \in Browsers, NEW x \in Tables, NEW y \in Tables,
           Le(x, y), Floor(b, y)
    PROVE  Floor(b, x)
<1>1. \A z : z.zones \in Int /\ z.advisories \in Int =>
          /\ Le(y, z) => Le(x, z)
          /\ y.zones <= z.zones => x.zones <= z.zones
          /\ y.advisories <= z.advisories => x.advisories <= z.advisories
  BY DEF Tables, Le
<1>2. /\ state.zones \in Int /\ state.advisories \in Int
      /\ database.zones \in Int /\ database.advisories \in Int
  BY DEF TypeOK, Tables
<1> QED
  BY <1>1, <1>2 DEF Floor

\* A state at the end of what a socket holds.
LEMMA AppendItem ==
    ASSUME TypeOK, NEW b \in Browsers, NEW x \in Tables, NEW n \in Nat, n = Len(wire[b]) + 1,
           wire'[b] = Append(wire[b], x), shown'[b] = shown[b], history'[b] = history[b]
    PROVE  /\ Items(b)' = Items(b) \cup {n} /\ Items(b) \subseteq Int
           /\ Item(b, n)' = x
           /\ \A i \in Items(b) : Item(b, i)' = Item(b, i) /\ i < n
<1>1. wire[b] \in Seq(Tables) /\ Len(wire[b]) \in Nat
  BY DEF TypeOK
<1>2. /\ Len(wire'[b]) = n
      /\ wire'[b][n] = x
      /\ \A i \in 1..Len(wire[b]) : wire'[b][i] = wire[b][i]
  BY <1>1
<1>3. Items(b)' = Items(b) \cup {n} /\ Items(b) \subseteq Int
  BY <1>1, <1>2 DEF Items
<1>4. Item(b, n)' = x
  BY <1>1, <1>2 DEF Item
<1>5. ASSUME NEW i \in Items(b) PROVE Item(b, i)' = Item(b, i) /\ i < n
  <2>1. i = 0 \/ i \in 1..Len(wire[b])
    BY <1>1 DEF Items
  <2>2. i < n
    BY <1>1, <2>1
  <2> QED
    BY <1>1, <1>2, <2>1, <2>2 DEF Item
<1> QED
  BY <1>3, <1>4, <1>5

-----------------------------------------------------------------------------
(* broadcaster() *)

\* The statements that send nothing.
LEMMA QuietStep ==
    ASSUME IInv, Wake \/ ReadZones \/ ReadAdvisories \/ BuildFails \/ TakeTargets \/ DropDead
    PROVE  IInv'
<1>1. /\ UNCHANGED <<wire, shown, history, handler, open, first, database>>
      /\ state' \in {state, Blank, [state EXCEPT !.zones = database.zones],
                     [state EXCEPT !.advisories = database.advisories]}
  BY DEF Wake, ReadZones, ReadAdvisories, BuildFails, TakeTargets, DropDead, connection
<1>2. state' \in Tables /\ Le(state, database)'
  <2>1. /\ state \in Tables /\ database \in Tables /\ Blank \in Tables
        /\ Le(state, database) /\ Le(Blank, database)
    BY ConsoleAssumption DEF IInv, TypeOK, Tables, Le, Blank
  <2>2. /\ state'.zones \in {state.zones, Blank.zones, database.zones}
        /\ state'.advisories \in {state.advisories, Blank.advisories, database.advisories}
        /\ state' \in Tables
    BY <1>1, <2>1 DEF Tables
  <2> QED
    BY <1>1, <2>1, <2>2 DEF Tables, Le
<1>3. /\ task' \in {"sleep", "zones", "advisories", "targets", "send"}
      /\ targets' \subseteq Browsers /\ dead' \subseteq Browsers /\ active' \subseteq Browsers
      /\ faults' \in 0..MAX_FAULTS
  BY ConsoleAssumption
     DEF IInv, TypeOK, Wake, ReadZones, ReadAdvisories, BuildFails, TakeTargets, DropDead,
         Survivors
<1>4. TypeOK'
  BY <1>1, <1>2, <1>3 DEF IInv, TypeOK
<1>5. ASSUME NEW b \in Browsers, NEW x \in Tables, Floor(b, x) PROVE Floor(b, x)'
  <2>1. /\ state \in Tables /\ database \in Tables /\ Le(state, database)
        /\ x.zones \in Int /\ x.advisories \in Int
    BY <1>5 DEF IInv, TypeOK, Tables
  <2>2. Le(x, state) => Le(x, database)
    BY <2>1 DEF Tables, Le
  <2>3. CASE Wake
    BY <1>1, <1>5, <2>3 DEF Wake, Floor, Le
  <2>4. CASE ReadZones
    <3>1. state'.zones = database.zones /\ task' = "advisories" /\ database' = database
      BY <2>1, <2>4 DEF ReadZones, Tables
    <3> QED
      BY <1>5, <2>4, <3>1 DEF ReadZones, Floor, Le
  <2>5. CASE ReadAdvisories
    <3>1. /\ state'.zones = state.zones /\ state'.advisories = database.advisories
          /\ task = "advisories" /\ task' = "targets"
      BY <2>1, <2>5 DEF ReadAdvisories, Tables
    <3> QED
      BY <1>5, <3>1 DEF Floor, Le
  <2>6. CASE BuildFails \/ TakeTargets
    <3>1. /\ UNCHANGED <<state, database>> /\ task \in {"zones", "advisories", "targets"}
          /\ task = "targets" => task' = "send"
          /\ task # "targets" => task' = "sleep"
      BY <2>6 DEF BuildFails, TakeTargets
    <3>2. task = "advisories" => Le(x, database)
      BY <1>5, <2>1 DEF Floor, Le, Tables
    <3> QED
      BY <1>5, <2>2, <3>1, <3>2 DEF Floor, Le
  <2>7. CASE DropDead
    BY <1>5, <2>7 DEF DropDead, Floor, Le
  <2> QED
    BY <2>3, <2>4, <2>5, <2>6, <2>7
<1>6. \A b \in open : InOrder(b)'
  BY <1>1, <1>5, StaysInOrder DEF IInv, TypeOK
<1> QED
  BY <1>1, <1>2, <1>4, <1>6 DEF IInv, GoesBackAtMostOnce

\* A broadcast is not behind what the socket holds.
LEMMA SendToStep == ASSUME IInv, NEW b \in Browsers, SendTo(b) PROVE IInv'
<1>1. TypeOK'
  <2>1. wire' \in [Browsers -> Seq(Tables)] /\ \A c \in Browsers : Len(wire'[c]) <= BUFFER
    <3>1. CASE b \in open
      <4>1. /\ wire \in [Browsers -> Seq(Tables)] /\ state \in Tables
            /\ wire' = [wire EXCEPT ![b] = Append(wire[b], state)]
            /\ Len(wire[b]) < BUFFER /\ BUFFER \in Nat
            /\ \A c \in Browsers : Len(wire[c]) <= BUFFER
        BY <3>1, ConsoleAssumption DEF IInv, TypeOK, SendTo, Room
      <4>2. Append(wire[b], state) \in Seq(Tables) /\ Len(Append(wire[b], state)) <= BUFFER
        BY <4>1
      <4> QED
        BY <4>1, <4>2
    <3>2. CASE b \notin open
      BY <3>2 DEF IInv, TypeOK, SendTo
    <3> QED
      BY <3>1, <3>2
  <2>2. targets' \subseteq Browsers /\ dead' \subseteq Browsers
    BY DEF IInv, TypeOK, SendTo
  <2> QED
    BY <2>1, <2>2 DEF IInv, TypeOK, SendTo, connection
<1>2. UNCHANGED <<database, state, shown, history, handler, open, task>>
  BY DEF SendTo, connection
<1>3. ASSUME NEW c \in Browsers, NEW x \in Tables, Floor(c, x) PROVE Floor(c, x)'
  <2>1. task = "send" /\ task' = "send" /\ targets' = targets \ {b}
    BY <1>2 DEF SendTo
  <2>2. Le(x, state) => Le(x, database)
    <3>1. state \in Tables /\ database \in Tables /\ Le(state, database)
      BY DEF IInv, TypeOK
    <3> QED
      BY <3>1 DEF Tables, Le
  <2> QED
    BY <1>2, <1>3, <2>1, <2>2 DEF Floor, Le
<1>4. ASSUME NEW c \in open, b \notin open \/ c # b PROVE InOrder(c)'
  <2>1. wire'[c] = wire[c]
    BY <1>4 DEF IInv, TypeOK, SendTo
  <2> QED
    BY <1>2, <1>3, <2>1, StaysInOrder DEF IInv, TypeOK
<1>5. ASSUME b \in open PROVE InOrder(b)'
  <2>1. wire'[b] = Append(wire[b], state) /\ state \in Tables
    BY <1>5 DEF IInv, TypeOK, SendTo
  <2>n. PICK n \in Nat : n = Len(wire[b]) + 1
    BY DEF IInv, TypeOK
  <2>2. /\ Items(b)' = Items(b) \cup {n} /\ Items(b) \subseteq Int
        /\ Item(b, n)' = state
        /\ \A i \in Items(b) : Item(b, i)' = Item(b, i) /\ i < n
    BY <1>2, <2>1, <2>n, AppendItem DEF IInv
  <2>3. PICK spare \in Int :
            /\ Ordered(b, spare) /\ Fits(b, spare)
            /\ spare # None => handler[b] = "receive" /\ history[b] <= 0
    BY <1>5 DEF IInv, InOrder
  <2>4. \A i \in Items(b) \ {spare} : Le(Item(b, i), state)
    BY <2>3 DEF Fits, Floor, SendTo
  <2>5. Floor(b, state)'
    BY <1>2 DEF IInv, Floor, SendTo, Le
  <2>6. Ordered(b, spare)'
    BY <2>2, <2>3, <2>4 DEF Ordered
  <2>7. Fits(b, spare)'
    <3>1. ASSUME NEW i \in Items(b)' \ {spare} PROVE Floor(b, Item(b, i))'
      <4>1. CASE i = n
        BY <1>2, <2>2, <2>5, <4>1
      <4>2. CASE i \in Items(b)
        <5>1. Item(b, i) \in Tables /\ Floor(b, Item(b, i))
          BY <2>3, <4>2, ItemType DEF Fits, IInv
        <5> QED
          BY <1>3, <2>2, <4>2, <5>1
      <4> QED
        BY <2>2, <4>1, <4>2
    <3> QED
      BY <3>1 DEF Fits
  <2> QED
    BY <1>2, <1>5, <2>3, <2>6, <2>7 DEF IInv, InOrder
<1>6. \A c \in Browsers \ open : wire'[c] = <<>>
  BY DEF IInv, TypeOK, SendTo
<1> QED
  BY <1>1, <1>2, <1>4, <1>5, <1>6 DEF IInv, GoesBackAtMostOnce

-----------------------------------------------------------------------------
(* ws() *)

\* A connection that opens: nothing is on it, and nothing of the one before is
\* sent to it.
LEMMA ConnectStep == ASSUME IInv, NEW b \in Browsers, Connect(b) PROVE IInv'
<1>1. TypeOK'
  BY DEF IInv, TypeOK, Connect, Nothing
<1>2. UNCHANGED <<database, task, state, wire, shown>> /\ open' = open \cup {b}
  BY DEF Connect
<1>3. ASSUME NEW c \in open PROVE InOrder(c)' /\ handler'[c] # "none"
  <2>1. c # b /\ c \in Browsers
    BY DEF Connect, IInv, TypeOK
  <2>2. \A x \in Tables : Floor(c, x) => Floor(c, x)'
    BY <1>2, <2>1 DEF Floor, Connect
  <2>3. handler'[c] = handler[c] /\ history'[c] = history[c]
    BY <2>1 DEF IInv, TypeOK, Connect
  <2> QED
    BY <1>2, <2>1, <2>2, <2>3, StaysInOrder DEF IInv
<1>4. InOrder(b)' /\ handler'[b] # "none"
  <2>1. history'[b] = Nothing /\ wire'[b] = <<>> /\ handler'[b] = "add"
    BY <1>2 DEF IInv, TypeOK, Connect
  <2>2. Items(b)' = {}
    BY <2>1 DEF Items
  <2> QED
    BY <2>1, <2>2 DEF InOrder, Ordered, Fits, None, Nothing
<1>5. GoesBackAtMostOnce'
  BY DEF IInv, TypeOK, GoesBackAtMostOnce, Connect, Nothing
<1> QED
  BY <1>1, <1>2, <1>3, <1>4, <1>5 DEF IInv

\* The statements of the handler that send nothing.
LEMMA HandlerQuietStep ==
    ASSUME IInv, NEW b \in Browsers,
           Add(b) \/ HandlerReadsZones(b) \/ HandlerReadsAdvisories(b) \/ HandlerDrops(b)
    PROVE  IInv'
<1>1. TypeOK'
  <2>1. active' \subseteq Browsers
    BY DEF IInv, TypeOK, Add, HandlerReadsZones, HandlerReadsAdvisories, HandlerDrops
  <2>2. handler' \in [Browsers -> {"none", "add", "zones", "advisories", "send", "receive"}]
    BY DEF IInv, TypeOK, Add, HandlerReadsZones, HandlerReadsAdvisories, HandlerDrops
  <2>3. first' \in [Browsers -> Tables]
    <3>1. first[b] \in Tables /\ database \in Tables /\ Blank \in Tables
      BY ConsoleAssumption DEF IInv, TypeOK, Blank, Tables
    <3>2. /\ [first[b] EXCEPT !.zones = database.zones] \in Tables
          /\ [first[b] EXCEPT !.advisories = database.advisories] \in Tables
      BY <3>1 DEF Tables
    <3>3. \/ first' = first
          \/ first' = [first EXCEPT ![b] = [first[b] EXCEPT !.zones = database.zones]]
          \/ first' = [first EXCEPT ![b] = [first[b] EXCEPT !.advisories = database.advisories]]
          \/ first' = [first EXCEPT ![b] = Blank]
      BY DEF Add, HandlerReadsZones, HandlerReadsAdvisories, HandlerDrops
    <3> QED
      BY <3>1, <3>2, <3>3 DEF IInv, TypeOK
  <2> QED
    BY <2>1, <2>2, <2>3
       DEF IInv, TypeOK, Add, HandlerReadsZones, HandlerReadsAdvisories, HandlerDrops, broadcast
<1>2. UNCHANGED <<database, task, state, targets, wire, shown, history, open>>
  BY DEF Add, HandlerReadsZones, HandlerReadsAdvisories, HandlerDrops, broadcast
<1>3. \A c \in open : /\ handler'[c] # "none"
                      /\ handler[c] = "receive" => handler'[c] = "receive"
  BY DEF IInv, TypeOK, Add, HandlerReadsZones, HandlerReadsAdvisories, HandlerDrops
<1>4. \A c \in Browsers, x \in Tables : Floor(c, x) => Floor(c, x)'
  BY <1>2 DEF Floor
<1>5. \A c \in open : InOrder(c)'
  BY <1>2, <1>3, <1>4, StaysInOrder DEF IInv, TypeOK
<1> QED
  BY <1>1, <1>2, <1>3, <1>5 DEF IInv, GoesBackAtMostOnce

\* The handler's state takes the spare position.
LEMMA SendFirstStep == ASSUME IInv, NEW b \in Browsers, SendFirst(b) PROVE IInv'
<1>1. TypeOK'
  <2>1. wire' \in [Browsers -> Seq(Tables)] /\ \A c \in Browsers : Len(wire'[c]) <= BUFFER
    BY ConsoleAssumption DEF IInv, TypeOK, SendFirst, Room
  <2>2. Blank \in Tables
    BY ConsoleAssumption DEF Blank, Tables
  <2> QED
    BY <2>1, <2>2 DEF IInv, TypeOK, SendFirst, AfterFirst, broadcast
<1>2. UNCHANGED <<database, task, state, targets, shown, history, open>>
  BY DEF SendFirst, broadcast
<1>3. \A c \in Browsers, x \in Tables : Floor(c, x) => Floor(c, x)'
  BY <1>2 DEF Floor
<1>4. ASSUME NEW c \in open, c # b PROVE InOrder(c)' /\ handler'[c] # "none"
  <2>1. wire'[c] = wire[c] /\ handler'[c] = handler[c]
    BY <1>4 DEF IInv, TypeOK, SendFirst
  <2> QED
    BY <1>2, <1>3, <2>1, StaysInOrder DEF IInv, TypeOK
<1>5. InOrder(b)' /\ handler'[b] # "none" /\ b \in open
  <2>1. wire'[b] = Append(wire[b], first[b]) /\ first[b] \in Tables /\ b \in open
        /\ handler[b] = "send" /\ handler'[b] = "receive"
    BY DEF IInv, TypeOK, SendFirst, AfterFirst
  <2>n. PICK n \in Nat : n = Len(wire[b]) + 1
    BY DEF IInv, TypeOK
  <2>2. /\ Items(b)' = Items(b) \cup {n} /\ Items(b) \subseteq Int
        /\ \A i \in Items(b) : Item(b, i)' = Item(b, i) /\ i < n
    BY <1>2, <2>1, <2>n, AppendItem DEF IInv
  <2>3. Ordered(b, None) /\ Fits(b, None) /\ history[b] <= 0
    <3>1. PICK spare \in Int :
              /\ Ordered(b, spare) /\ Fits(b, spare)
              /\ spare # None => handler[b] = "receive" /\ history[b] <= 0
      BY <2>1 DEF IInv, InOrder
    <3>2. spare = None
      BY <2>1, <3>1
    <3>3. history[b] \in -1..2 /\ history[b] <= 1 /\ history[b] # 1
      BY <2>1 DEF IInv, InOrder, TypeOK, Nothing
    <3> QED
      BY <3>1, <3>2, <3>3
  <2>4. Ordered(b, n)'
    <3>1. None \notin Items(b)
      BY DEF Items, None
    <3> QED
      BY <2>2, <2>3, <3>1 DEF Ordered
  <2>5. Fits(b, n)'
    <3>1. None \notin Items(b)
      BY DEF Items, None
    <3> QED
      BY <1>3, <2>2, <2>3, <3>1, ItemType DEF Fits, IInv
  <2> QED
    <3>1. handler'[b] = "receive" /\ history'[b] <= 0 /\ history'[b] <= 1 /\ n \in Int
      <4>1. history[b] \in -1..2
        BY DEF IInv, TypeOK, Nothing
      <4> QED
        BY <1>2, <2>1, <2>3, <4>1
    <3> QED
      BY <2>1, <2>4, <2>5, <3>1 DEF InOrder
<1>6. \A c \in Browsers \ open : wire'[c] = <<>>
  BY <1>5 DEF IInv, TypeOK, SendFirst
<1> QED
  BY <1>1, <1>2, <1>4, <1>5, <1>6 DEF IInv, GoesBackAtMostOnce

\* A connection that ends takes with it what was on it.
LEMMA ClosedStep ==
    ASSUME IInv, NEW b \in Browsers, HandlerFails(b) \/ Disconnect(b) PROVE IInv'
<1>1. TypeOK'
  <2>1. Blank \in Tables /\ <<>> \in Seq(Tables) /\ Len(<<>>) = 0
    BY ConsoleAssumption DEF Blank, Tables
  <2>2. /\ first' \in [Browsers -> Tables] /\ wire' \in [Browsers -> Seq(Tables)]
        /\ \A c \in Browsers : Len(wire'[c]) <= BUFFER
    <3>1. wire' = [wire EXCEPT ![b] = <<>>]
          /\ (first' = first \/ first' = [first EXCEPT ![b] = Blank])
      BY DEF HandlerFails, Disconnect
    <3>2. BUFFER >= 0 /\ \A c \in Browsers : Len(wire[c]) <= BUFFER
      BY ConsoleAssumption DEF IInv, TypeOK
    <3> QED
      BY <2>1, <3>1, <3>2 DEF IInv, TypeOK
  <2>3. faults' \in 0..MAX_FAULTS
    BY ConsoleAssumption DEF IInv, TypeOK, HandlerFails, Disconnect
  <2> QED
    BY <2>2, <2>3 DEF IInv, TypeOK, HandlerFails, Disconnect, broadcast
<1>2. UNCHANGED <<database, task, state, targets, shown, history>> /\ open' = open \ {b}
  BY DEF HandlerFails, Disconnect, broadcast
<1>3. \A c \in Browsers, x \in Tables : Floor(c, x) => Floor(c, x)'
  BY <1>2 DEF Floor
<1>4. ASSUME NEW c \in open \ {b} PROVE InOrder(c)' /\ handler'[c] # "none"
  <2>1. wire'[c] = wire[c] /\ handler'[c] = handler[c]
    BY DEF IInv, TypeOK, HandlerFails, Disconnect
  <2> QED
    BY <1>2, <1>3, <2>1, StaysInOrder DEF IInv, TypeOK
<1>5. \A c \in Browsers \ open' : wire'[c] = <<>>
  BY <1>2 DEF IInv, TypeOK, HandlerFails, Disconnect
<1> QED
  BY <1>1, <1>2, <1>4, <1>5 DEF IInv, GoesBackAtMostOnce

-----------------------------------------------------------------------------
(* The browser *)

\* What is received takes the place of what was shown.
LEMMA TailItem ==
    ASSUME TypeOK, NEW b \in Browsers, Receive(b)
    PROVE  /\ 1 \in Items(b) /\ Item(b, 1) = Head(wire[b])
           /\ Items(b)' = 0..(Len(wire[b]) - 1)
           /\ \A i \in Items(b)' : i + 1 \in Items(b) /\ Item(b, i)' = Item(b, i + 1)
<1>1. wire[b] \in Seq(Tables) /\ wire[b] # <<>> /\ Len(wire[b]) \in Nat \ {0}
  BY DEF TypeOK, Receive
<1>2. wire'[b] = Tail(wire[b]) /\ shown'[b] = Head(wire[b])
  BY DEF TypeOK, Receive
<1>3. history'[b] # Nothing
  <2>1. history[b] \in -1..2
    BY DEF TypeOK, Nothing
  <2>2. history'[b] = CASE history[b] = Nothing -> 0
                        [] /\ history[b] < 2 /\ history[b] # Nothing
                           /\ Older(Head(wire[b]), shown[b]) -> history[b] + 1
                        [] OTHER -> history[b]
    BY DEF TypeOK, Receive
  <2> QED
    BY <2>1, <2>2 DEF Nothing
<1>4. /\ Head(wire[b]) = wire[b][1]
      /\ Len(Tail(wire[b])) = Len(wire[b]) - 1
      /\ \A i \in 1..(Len(wire[b]) - 1) : Tail(wire[b])[i] = wire[b][i + 1]
  BY <1>1
<1>5. Items(b)' = 0..(Len(wire[b]) - 1)
  BY <1>1, <1>2, <1>3, <1>4 DEF Items
<1>6. ASSUME NEW i \in Items(b)' PROVE i + 1 \in Items(b) /\ Item(b, i)' = Item(b, i + 1)
  BY <1>1, <1>2, <1>4, <1>5, <1>6 DEF Items, Item, Nothing
<1> QED
  BY <1>1, <1>4, <1>5, <1>6 DEF Items, Item, Nothing

\* A browser shows what was first in its socket: the sequence of the two stays.
LEMMA ReceiveStep == ASSUME IInv, NEW b \in Browsers, Receive(b) PROVE IInv'
<1>1. TypeOK'
  <2>1. /\ wire[b] \in Seq(Tables) /\ wire[b] # <<>>
        /\ wire' = [wire EXCEPT ![b] = Tail(wire[b])]
        /\ shown' = [shown EXCEPT ![b] = Head(wire[b])]
    BY DEF IInv, TypeOK, Receive
  <2>2. /\ Head(wire[b]) \in Tables /\ Tail(wire[b]) \in Seq(Tables)
        /\ Len(Tail(wire[b])) = Len(wire[b]) - 1 /\ Len(wire[b]) \in Nat
    BY <2>1
  <2>3. /\ wire' \in [Browsers -> Seq(Tables)] /\ shown' \in [Browsers -> Tables]
        /\ \A c \in Browsers : Len(wire'[c]) <= BUFFER
    BY <2>1, <2>2, ConsoleAssumption DEF IInv, TypeOK
  <2>4. history' \in [Browsers -> Nothing..2]
    BY DEF IInv, TypeOK, Receive, Nothing
  <2> QED
    BY <2>3, <2>4 DEF IInv, TypeOK, Receive, broadcast, connection
<1>2. UNCHANGED <<database, task, state, targets, handler, open>>
  BY DEF Receive, broadcast, connection
<1>3. \A c \in Browsers, x \in Tables : Floor(c, x) => Floor(c, x)'
  BY <1>2 DEF Floor
<1>4. \A c \in Browsers \ {b} :
          wire'[c] = wire[c] /\ shown'[c] = shown[c] /\ history'[c] = history[c]
  BY DEF IInv, TypeOK, Receive
<1>5. \A c \in open \ {b} : InOrder(c)'
  BY <1>2, <1>3, <1>4, StaysInOrder DEF IInv, TypeOK
<1>6. b \in open
  BY DEF IInv, Receive
<1>7. PICK spare \in Int :
          /\ Ordered(b, spare) /\ Fits(b, spare)
          /\ spare # None => handler[b] = "receive" /\ history[b] <= 0
  BY <1>6 DEF IInv, InOrder
<1>8. /\ 1 \in Items(b) /\ Item(b, 1) = Head(wire[b])
      /\ Items(b)' = 0..(Len(wire[b]) - 1)
      /\ \A i \in Items(b)' : i + 1 \in Items(b) /\ Item(b, i)' = Item(b, i + 1)
  BY TailItem DEF IInv
<1> DEFINE Back == history[b] # Nothing /\ Older(Item(b, 1), Item(b, 0))
<1>9. history[b] \in -1..1 /\ (history[b] = 1 => handler[b] = "receive")
  BY <1>6 DEF IInv, TypeOK, InOrder, Nothing
<1>10. /\ Back => history'[b] = history[b] + 1
       /\ ~Back => history'[b] = IF history[b] = Nothing THEN 0 ELSE history[b]
  <2>1. history'[b] = CASE history[b] = Nothing -> 0
                        [] /\ history[b] < 2 /\ history[b] # Nothing
                           /\ Older(Head(wire[b]), shown[b]) -> history[b] + 1
                        [] OTHER -> history[b]
    BY DEF IInv, TypeOK, Receive
  <2> QED
    BY <1>8, <1>9, <2>1 DEF Item, Nothing
<1>11. ASSUME ~Back PROVE InOrder(b)'
  <2>m. PICK moved \in Int : moved = IF spare <= 0 THEN None ELSE spare - 1
    BY DEF None
  <2>1. moved \in Int /\ (moved # None => spare # None)
        /\ \A i \in Items(b)' \ {moved} : i + 1 \in Items(b) \ {spare}
    BY <1>8, <2>m DEF None
  <2>2. Ordered(b, moved)'
    BY <1>8, <2>1, <1>7 DEF Ordered
  <2>3. Fits(b, moved)'
    BY <1>3, <1>7, <1>8, <2>1, ItemType DEF Fits, IInv
  <2>4. /\ history'[b] <= 1
        /\ history'[b] = 1 => handler'[b] = "receive"
        /\ moved # None => handler'[b] = "receive" /\ history'[b] <= 0
    BY <1>2, <1>7, <1>9, <1>10, <1>11, <2>1 DEF Nothing
  <2> QED
    BY <2>1, <2>2, <2>3, <2>4 DEF InOrder
<1>12. ASSUME Back PROVE InOrder(b)'
  <2>1. 0 \in Items(b)
    BY <1>8, <1>12 DEF Items, TypeOK, IInv
  <2>2. Item(b, 0) \in Tables /\ Item(b, 1) \in Tables
    BY <1>8, <2>1, ItemType DEF IInv
  <2>3. Le(Item(b, 1), Item(b, 0)) /\ ~Le(Item(b, 0), Item(b, 1))
    BY <1>12, <2>2 DEF Older, Le, Tables
  <2>4. spare \in {0, 1}
    BY <1>7, <1>8, <2>1, <2>3 DEF Ordered
  <2>5. handler[b] = "receive" /\ history[b] = 0
    BY <1>7, <1>9, <1>12, <2>4 DEF None, Nothing
  <2>6. ASSUME NEW i \in Items(b)', NEW j \in Items(b)', i < j
        PROVE  Le(Item(b, i + 1), Item(b, j + 1))
    <3>1. CASE i + 1 # spare
      <4>1. j + 1 # spare /\ i + 1 < j + 1
        BY <1>8, <2>4, <2>6
      <4> QED
        BY <1>7, <1>8, <3>1, <4>1 DEF Ordered
    <3>2. CASE i + 1 = spare
      <4>1. i + 1 = 1 /\ spare = 1 /\ j + 1 # spare /\ 0 < j + 1
        BY <1>8, <2>4, <2>6, <3>2
      <4>2. Le(Item(b, 0), Item(b, j + 1))
        BY <1>7, <1>8, <2>1, <4>1 DEF Ordered
      <4>3. Item(b, j + 1) \in Tables
        BY <1>8, ItemType DEF IInv
      <4> QED
        BY <2>2, <2>3, <4>1, <4>2, <4>3 DEF Le, Tables
    <3> QED
      BY <3>1, <3>2
  <2>7. Ordered(b, None)'
    BY <1>8, <2>6 DEF Ordered
  <2>8. ASSUME NEW i \in Items(b)' PROVE Floor(b, Item(b, i + 1))
    <3>1. CASE i + 1 # spare
      BY <1>7, <1>8, <3>1 DEF Fits
    <3>2. CASE i + 1 = spare
      <4>1. i + 1 = 1 /\ spare = 1
        BY <1>8, <2>4, <3>2
      <4>2. Floor(b, Item(b, 0))
        BY <1>7, <2>1, <4>1 DEF Fits
      <4> QED
        BY <2>2, <2>3, <4>1, <4>2, FloorBelow DEF IInv
    <3> QED
      BY <3>1, <3>2
  <2>9. Fits(b, None)'
    BY <1>3, <1>8, <2>8, ItemType DEF Fits, IInv
  <2>10. history'[b] <= 1 /\ handler'[b] = "receive" /\ None \in Int
    BY <1>2, <1>10, <1>12, <2>5 DEF None
  <2> QED
    BY <2>7, <2>9, <2>10 DEF InOrder
<1>13. InOrder(b)'
  BY <1>11, <1>12
<1>14. /\ Le(state, database)'
       /\ \A c \in Browsers \ open' : wire'[c] = <<>>
       /\ \A c \in open' : handler'[c] # "none" /\ InOrder(c)'
  BY <1>2, <1>4, <1>5, <1>6, <1>13 DEF IInv
<1>15. GoesBackAtMostOnce'
  BY <1>4, <1>13 DEF IInv, GoesBackAtMostOnce, InOrder
<1> QED
  BY <1>1, <1>14, <1>15 DEF IInv

\* The dispatcher writes: no floor rises.
LEMMA WriteStep == ASSUME IInv, Write PROVE IInv'
<1>1. UNCHANGED <<task, state, targets, wire, shown, history, handler, open>>
  BY DEF Write, broadcast, connection
<1>2. /\ database \in Tables /\ database' \in Tables /\ state \in Tables
      /\ Le(database, database')
  BY ConsoleAssumption DEF IInv, TypeOK, Tables, Le, Write
<1>3. TypeOK'
  BY <1>2 DEF IInv, TypeOK, Write, broadcast, connection
<1>4. Le(state, database)'
  BY <1>1, <1>2 DEF IInv, Le, Tables
<1>5. \A c \in Browsers, x \in Tables : Floor(c, x) => Floor(c, x)'
  BY <1>1, <1>2 DEF Floor, Le, Tables
<1>6. \A c \in open : InOrder(c)'
  BY <1>1, <1>5, StaysInOrder DEF IInv, TypeOK
<1> QED
  BY <1>1, <1>3, <1>4, <1>6 DEF IInv, GoesBackAtMostOnce

\* Every step keeps the invariant.
LEMMA NextIInv == IInv /\ [Next]_vars => IInv'
<1> SUFFICES ASSUME IInv, [Next]_vars PROVE IInv'
  OBVIOUS
<1>1. CASE Write
  BY <1>1, WriteStep
<1>2. CASE Broadcaster
  BY <1>2, QuietStep, SendToStep DEF Broadcaster
<1>3. CASE \E b \in Browsers : Handler(b)
  BY <1>3, ConnectStep, HandlerQuietStep, SendFirstStep, ClosedStep DEF Handler
<1>4. CASE \E b \in Browsers : Receive(b) \/ Disconnect(b)
  BY <1>4, ReceiveStep, ClosedStep
<1>5. CASE UNCHANGED vars
  <2>1. UNCHANGED <<database, task, state, targets, wire, shown, history, handler, open>>
    BY <1>5 DEF vars, broadcast, connection
  <2>2. \A c \in Browsers, x \in Tables : Floor(c, x) => Floor(c, x)'
    BY <2>1 DEF Floor
  <2>3. \A c \in open : InOrder(c)'
    BY <2>1, <2>2, StaysInOrder DEF IInv, TypeOK
  <2>4. TypeOK'
    BY <1>5 DEF IInv, TypeOK, vars, broadcast, connection
  <2> QED
    BY <2>1, <2>3, <2>4 DEF IInv, GoesBackAtMostOnce, Le
<1> QED
  BY <1>1, <1>2, <1>3, <1>4, <1>5 DEF Next

-----------------------------------------------------------------------------
(* Theorems *)

\* Every reachable state of the tables, the broadcaster, the handlers and the
\* browsers is well typed.
THEOREM TypeCorrect == Spec => []TypeOK
<1>1. IInv => TypeOK
  BY DEF IInv
<1> QED
  BY <1>1, InitIInv, NextIInv, PTL DEF Spec

\* In a connection the display goes back at most once, for any number of
\* browsers, writes, lost connections and failing reads and any buffer.
THEOREM OnceHolds == Spec => []GoesBackAtMostOnce
<1>1. IInv => GoesBackAtMostOnce
  BY DEF IInv
<1> QED
  BY <1>1, InitIInv, NextIInv, PTL DEF Spec
=============================================================================

-------------------------- MODULE MockServerProofs --------------------------
(***************************************************************************)
(* For any set of sensors, any map and any readings: what ST_ClusterDBSCAN *)
(* returns parts the sensors, the loops of _cluster_wet() find the         *)
(* clusters that it finds with minpoints = 2, and the mock grades them as  *)
(* the dispatcher does.  Both searches rest on the same argument: the      *)
(* points that a step leads out of are none, so what a sensor reaches is   *)
(* the same from each sensor of a cluster, and a walk may start at any.    *)
(***************************************************************************)
EXTENDS MockServer, FiniteSetTheorems, SequenceTheorems, TLAPS

-----------------------------------------------------------------------------
(* The results of ST_ClusterDBSCAN on any map, for any minpoints. *)

\* Whoever is within eps of a point has it within eps.
LEMMA EpsIsMutual ==
    ASSUME NEW points, NEW near, NEW p \in points, NEW q \in Neighbourhood(points, near, p)
    PROVE  q \in points /\ p \in Neighbourhood(points, near, q)
<1>1. {p, q} = {q, p}
  OBVIOUS
<1> QED BY <1>1 DEF Neighbourhood

\* A core point reaches itself and what is within eps of it.
LEMMA CoreReaches ==
    ASSUME NEW points, NEW near, NEW minpoints, NEW p \in CorePoints(points, near, minpoints)
    PROVE  /\ p \in Reachable(points, near, minpoints, p)
           /\ Neighbourhood(points, near, p) \subseteq Reachable(points, near, minpoints, p)
<1>1. p \in points
  BY DEF CorePoints
<1>2. Neighbourhood(points, near, p) \subseteq points
  BY DEF Neighbourhood
<1> QED BY <1>1, <1>2 DEF Reachable

\* It reaches core points and border points only: no step leads out of them.
LEMMA ReachedIsCoreOrBorder ==
    ASSUME NEW points, NEW near, NEW minpoints, NEW p \in CorePoints(points, near, minpoints)
    PROVE  Reachable(points, near, minpoints, p) \subseteq
               CorePoints(points, near, minpoints) \cup BorderPoints(points, near, minpoints)
<1> DEFINE core == CorePoints(points, near, minpoints)
           s == core \cup BorderPoints(points, near, minpoints)
<1>1. s \in SUBSET points /\ p \in s
  BY DEF CorePoints, BorderPoints
<1>2. ASSUME NEW q \in s \cap core, NEW r \in Neighbourhood(points, near, q) PROVE r \in s
  <2>1. q \in points
    BY <1>1
  <2>2. r \in points /\ q \in Neighbourhood(points, near, r)
    BY <2>1, EpsIsMutual
  <2> QED BY <2>2 DEF BorderPoints
<1>3. \A q \in s \cap core : Neighbourhood(points, near, q) \subseteq s
  BY <1>2
<1> HIDE DEF s
<1>4. Reachable(points, near, minpoints, p) \subseteq s
  BY <1>1, <1>3 DEF Reachable
<1> QED BY <1>4 DEF s

\* A core point that is reached reaches back: otherwise the points without the
\* core points it reaches would hold the first one and no step lead out.
LEMMA CoreReachesBack ==
    ASSUME NEW points, NEW near, NEW minpoints,
           NEW p \in CorePoints(points, near, minpoints),
           NEW q \in Reachable(points, near, minpoints, p),
           q \in CorePoints(points, near, minpoints)
    PROVE  p \in Reachable(points, near, minpoints, q)
<1> DEFINE core == CorePoints(points, near, minpoints)
           Closed(s) == \A r \in s \cap core : Neighbourhood(points, near, r) \subseteq s
<1>1. p \in points
  BY DEF CorePoints
<1> SUFFICES ASSUME NEW s \in SUBSET points, q \in s, Closed(s), p \notin s PROVE FALSE
  BY <1>1 DEF Reachable
<1> DEFINE rest == points \ (s \cap core)
<1>2. Closed(rest)
  <2> SUFFICES ASSUME NEW r \in rest \cap core, NEW x \in Neighbourhood(points, near, r),
                      x \in s \cap core
               PROVE  FALSE
    BY DEF Neighbourhood
  <2>1. r \in Neighbourhood(points, near, x)
    BY EpsIsMutual
  <2> QED BY <2>1
<1>3. rest \in SUBSET points /\ p \in rest /\ q \notin rest
  BY <1>1
<1> HIDE DEF rest
<1> QED BY <1>2, <1>3 DEF Reachable

\* Both reach the same points.
LEMMA CoreReachesSame ==
    ASSUME NEW points, NEW near, NEW minpoints,
           NEW p \in CorePoints(points, near, minpoints),
           NEW q \in Reachable(points, near, minpoints, p),
           q \in CorePoints(points, near, minpoints)
    PROVE  Reachable(points, near, minpoints, q) = Reachable(points, near, minpoints, p)
<1>1. p \in Reachable(points, near, minpoints, q)
  BY CoreReachesBack
<1> QED BY <1>1 DEF Reachable

\* No point is in two clusters of a result, each cluster has a core point, and
\* what is left over is out of reach of every core point.
LEMMA ResultPartitions ==
    ASSUME NEW points, NEW near, NEW minpoints,
           NEW clusters \in Clusterings(points, near, minpoints)
    PROVE  /\ \A c, d \in clusters : c # d => c \cap d = {}
           /\ \A c \in clusters : c \subseteq points /\ c \cap CorePoints(points, near, minpoints) # {}
           /\ UNION clusters =
                  CorePoints(points, near, minpoints) \cup BorderPoints(points, near, minpoints)
<1> DEFINE core == CorePoints(points, near, minpoints)
           border == BorderPoints(points, near, minpoints)
           R(p) == Reachable(points, near, minpoints, p)
<1>1. PICK home \in Homes(points, near, minpoints) :
          clusters = {Cluster(points, near, minpoints, home, p) : p \in core}
  BY DEF Clusterings
<1> DEFINE C(p) == Cluster(points, near, minpoints, home, p)
<1>2. \A p : C(p) = {q \in R(p) : q \in core \/ home[q] \in R(p)}
  BY DEF Cluster
<1>3. \A p \in border : home[p] \in core /\ home[p] \in Neighbourhood(points, near, p)
  BY DEF Homes
<1>4. core \subseteq points /\ border \subseteq points
  BY DEF CorePoints, BorderPoints
<1>5. ASSUME NEW p \in core, NEW q \in core, NEW x \in C(p) \cap C(q) PROVE C(p) = C(q)
  <2>1. R(p) = R(q)
    <3>1. CASE x \in core
      <4>1. x \in R(p) /\ x \in R(q)
        BY <1>2
      <4>2. R(x) = R(p) /\ R(x) = R(q)
        BY <3>1, <4>1, CoreReachesSame
      <4> QED BY <4>2
    <3>2. CASE x \notin core
      <4>1. home[x] \in R(p) /\ home[x] \in R(q) /\ x \in R(p)
        BY <1>2, <3>2
      <4>2. home[x] \in core
        BY <1>3, <3>2, <4>1, ReachedIsCoreOrBorder
      <4>3. R(home[x]) = R(p) /\ R(home[x]) = R(q)
        BY <4>1, <4>2, CoreReachesSame
      <4> QED BY <4>3
    <3> QED BY <3>1, <3>2
  <2> QED BY <1>2, <2>1
<1>6. ASSUME NEW p \in core PROVE p \in C(p) /\ C(p) \subseteq points /\ C(p) \subseteq core \cup border
  <2>1. p \in R(p) /\ R(p) \subseteq core \cup border
    BY CoreReaches, ReachedIsCoreOrBorder
  <2> QED BY <1>2, <1>4, <2>1
<1>7. ASSUME NEW x \in border PROVE \E p \in core : x \in C(p)
  <2>1. home[x] \in core /\ x \in Neighbourhood(points, near, home[x])
    BY <1>3, <1>4, EpsIsMutual
  <2>2. x \in R(home[x]) /\ home[x] \in R(home[x])
    BY <2>1, CoreReaches
  <2> QED BY <1>2, <2>1, <2>2
<1> HIDE DEF core, border, R, C
<1>8. \A c, d \in clusters : c # d => c \cap d = {}
  BY <1>1, <1>5 DEF C, core
<1>9. \A c \in clusters : c \subseteq points /\ c \cap core # {}
  BY <1>1, <1>6 DEF C, core
<1>10. UNION clusters = core \cup border
  BY <1>1, <1>6, <1>7 DEF C, core
<1> QED BY <1>8, <1>9, <1>10 DEF core, border

-----------------------------------------------------------------------------
(* ... and of any finite set of points with minpoints = 2.                  *)

Neighbours(points, near, p) == {q \in points : {q, p} \in near /\ q # p}

\* A set no chain of neighbours leads out of.
Stable(points, near, s) == \A p \in s : Neighbours(points, near, p) \subseteq s

\* A cluster: whichever of its points is asked, it is what that point reaches.
IsCluster(points, near, c) ==
    /\ c \subseteq points
    /\ \A p \in c : Reachable(points, near, 2, p) = c
    /\ \E p \in c : Neighbours(points, near, p) # {}

\* Two members make a cluster large enough.
LEMMA TwoMembers ==
    ASSUME NEW c, IsFiniteSet(c), NEW p \in c, NEW q \in c, p # q
    PROVE  Cardinality(c) >= 2
<1>1. {p, q} \subseteq c
  OBVIOUS
<1>2. Cardinality({p, q}) <= Cardinality(c)
  BY <1>1, FS_Subset
<1>3. IsFiniteSet({p}) /\ Cardinality({p}) = 1
  BY FS_Singleton
<1>4. {p} \cup {q} = {p, q} /\ q \notin {p}
  OBVIOUS
<1>5. Cardinality({p} \cup {q}) = Cardinality({p}) + 1
  BY <1>3, <1>4, FS_AddElement
<1>6. Cardinality(c) \in Nat
  BY FS_CardinalityType
<1> QED BY <1>2, <1>3, <1>4, <1>5, <1>6

\* With minpoints = 2 a core point is one that has a neighbour.
LEMMA CoreHasNeighbour ==
    ASSUME NEW points, IsFiniteSet(points), NEW near, NEW p \in points
    PROVE  p \in CorePoints(points, near, 2) <=> Neighbours(points, near, p) # {}
<1> DEFINE hood == Neighbourhood(points, near, p)
<1>1. IsFiniteSet(hood) /\ p \in hood /\ hood \subseteq points
  BY FS_Subset DEF Neighbourhood
<1>2. hood \ {p} = Neighbours(points, near, p)
  <2>1. \A q : {p, q} = {q, p}
    OBVIOUS
  <2> QED BY <2>1 DEF Neighbourhood, Neighbours
<1>3. /\ IsFiniteSet(hood \ {p})
      /\ Cardinality(hood \ {p}) = Cardinality(hood) - 1
      /\ Cardinality(hood) \in Nat
  BY <1>1, FS_RemoveElement, FS_CardinalityType
<1>4. Cardinality(hood \ {p}) = 0 <=> hood \ {p} = {}
  BY <1>3, FS_EmptySet
<1>5. Cardinality(hood \ {p}) \in Nat
  BY <1>3, FS_CardinalityType
<1>6. p \in CorePoints(points, near, 2) <=> Cardinality(hood) >= 2
  BY DEF CorePoints
<1> QED BY <1>2, <1>3, <1>4, <1>5, <1>6

\* ... and the points that p reaches are those in every stable set around p.
LEMMA ReachableInStable ==
    ASSUME NEW points, IsFiniteSet(points), NEW near, NEW p
    PROVE  Reachable(points, near, 2, p) =
               {q \in points : \A s \in SUBSET points :
                                  p \in s /\ Stable(points, near, s) => q \in s}
<1>1. ASSUME NEW s \in SUBSET points
      PROVE  (\A q \in s \cap CorePoints(points, near, 2) :
                 Neighbourhood(points, near, q) \subseteq s)
             <=> Stable(points, near, s)
  <2>1. \A q \in s : Neighbourhood(points, near, q) = Neighbours(points, near, q) \cup {q}
    <3>1. \A q, r : {r, q} = {q, r}
      OBVIOUS
    <3> QED BY <3>1 DEF Neighbourhood, Neighbours
  <2>2. \A q \in s : q \in CorePoints(points, near, 2) <=> Neighbours(points, near, q) # {}
    BY CoreHasNeighbour
  <2> QED BY <2>1, <2>2 DEF Stable
<1> QED BY <1>1 DEF Reachable

\* The neighbour of a point has it for a neighbour.
LEMMA NeighbourIsMutual ==
    ASSUME NEW points, NEW near, NEW p \in points, NEW q \in Neighbours(points, near, p)
    PROVE  q \in points /\ p \in Neighbours(points, near, q)
<1>1. {p, q} = {q, p}
  OBVIOUS
<1> QED BY <1>1 DEF Neighbours

\* What is left of the points without a stable set is stable.
LEMMA ComplementStable ==
    ASSUME NEW points, NEW near, NEW s \in SUBSET points, Stable(points, near, s)
    PROVE  Stable(points, near, points \ s)
<1> SUFFICES ASSUME NEW p \in points \ s, NEW q \in Neighbours(points, near, p), q \in s
             PROVE  FALSE
  BY DEF Stable, Neighbours
<1>1. p \in Neighbours(points, near, q)
  BY NeighbourIsMutual
<1> QED BY <1>1 DEF Stable

\* Whoever is reached from p reaches the same points.
LEMMA ReachedReachesSame ==
    ASSUME NEW points, IsFiniteSet(points), NEW near, NEW p \in points,
           NEW q \in Reachable(points, near, 2, p)
    PROVE  Reachable(points, near, 2, q) = Reachable(points, near, 2, p)
<1>1. q \in points
  BY ReachableInStable
<1>2. ASSUME NEW s \in SUBSET points, Stable(points, near, s) PROVE p \in s <=> q \in s
  <2>1. p \in s => q \in s
    BY <1>2, ReachableInStable
  <2>2. p \in points \ s => q \in points \ s
    <3>1. points \ s \in SUBSET points /\ Stable(points, near, points \ s)
      BY <1>2, ComplementStable
    <3> QED BY <3>1, ReachableInStable
  <2> QED BY <2>1, <2>2, <1>1
<1> QED BY <1>2, ReachableInStable

\* A stable set that p reaches all of is the cluster of p.
LEMMA StableIsReachable ==
    ASSUME NEW points, IsFiniteSet(points), NEW near, NEW c \in SUBSET points,
           Stable(points, near, c), NEW p \in c, c \subseteq Reachable(points, near, 2, p)
    PROVE  \A q \in c : Reachable(points, near, 2, q) = c
<1>1. Reachable(points, near, 2, p) = c
  BY ReachableInStable
<1> QED BY <1>1, ReachedReachesSame

\* Without border points a query has one result, what the core points reach.
Reached(points, near) ==
    {Reachable(points, near, 2, p) : p \in CorePoints(points, near, 2)}

\* A point in reach of a core point is a core point, so none is at the border.
LEMMA NoBorder ==
    ASSUME NEW points, IsFiniteSet(points), NEW near
    PROVE  BorderPoints(points, near, 2) = {}
<1> SUFFICES ASSUME NEW p \in points, p \notin CorePoints(points, near, 2),
                    NEW q \in Neighbourhood(points, near, p), q \in CorePoints(points, near, 2)
             PROVE  FALSE
  BY DEF BorderPoints
<1>1. {q, p} = {p, q} /\ q # p
  OBVIOUS
<1>2. q \in Neighbours(points, near, p)
  BY <1>1 DEF Neighbourhood, Neighbours
<1> QED BY <1>2, CoreHasNeighbour

\* The query with minpoints = 2, as current_clusters() is called by default, has
\* one result.
LEMMA OneResult ==
    ASSUME NEW points, IsFiniteSet(points), NEW near
    PROVE  Clusterings(points, near, 2) = {Reached(points, near)}
<1> DEFINE core == CorePoints(points, near, 2)
           noone == [p \in BorderPoints(points, near, 2) |-> p]
<1>1. noone \in Homes(points, near, 2)
  BY NoBorder DEF Homes
<1>2. ASSUME NEW home, NEW p \in core
      PROVE  Cluster(points, near, 2, home, p) = Reachable(points, near, 2, p)
  <2>1. Reachable(points, near, 2, p) \subseteq core
    BY NoBorder, ReachedIsCoreOrBorder
  <2> QED BY <2>1 DEF Cluster
<1>3. \A home : {Cluster(points, near, 2, home, p) : p \in core} = Reached(points, near)
  BY <1>2 DEF Reached
<1> QED BY <1>1, <1>3 DEF Clusterings

\* It consists of the clusters.
LEMMA ReachedAreClusters ==
    ASSUME NEW points, IsFiniteSet(points), NEW near, NEW c
    PROVE  c \in Reached(points, near) <=> IsCluster(points, near, c)
<1>1. ASSUME c \in Reached(points, near) PROVE IsCluster(points, near, c)
  <2>1. PICK p \in CorePoints(points, near, 2) : c = Reachable(points, near, 2, p)
    BY <1>1 DEF Reached
  <2>2. p \in points /\ Neighbours(points, near, p) # {}
    BY CoreHasNeighbour DEF CorePoints
  <2>3. p \in c /\ c \subseteq points
    BY <2>1, <2>2, ReachableInStable
  <2>4. \A q \in c : Reachable(points, near, 2, q) = c
    BY <2>1, <2>2, ReachedReachesSame
  <2> QED BY <2>2, <2>3, <2>4 DEF IsCluster
<1>2. ASSUME IsCluster(points, near, c) PROVE c \in Reached(points, near)
  <2>1. PICK p \in c : Neighbours(points, near, p) # {}
    BY <1>2 DEF IsCluster
  <2>2. p \in CorePoints(points, near, 2) /\ c = Reachable(points, near, 2, p)
    BY <1>2, <2>1, CoreHasNeighbour DEF IsCluster, CorePoints
  <2> QED BY <2>2 DEF Reached
<1> QED BY <1>1, <1>2

\* A cluster is stable and has two members at least.
LEMMA ClusterShape ==
    ASSUME NEW points, IsFiniteSet(points), NEW near, NEW c, IsCluster(points, near, c)
    PROVE  Stable(points, near, c) /\ Cardinality(c) >= 2
<1>1. Stable(points, near, c)
  <2> SUFFICES ASSUME NEW p \in c, NEW q \in Neighbours(points, near, p) PROVE q \in c
    BY DEF Stable
  <2>1. q \in points /\ c = Reachable(points, near, 2, p) /\ p \in points
    BY DEF Neighbours, IsCluster
  <2>2. ASSUME NEW s \in SUBSET points, p \in s, Stable(points, near, s) PROVE q \in s
    BY <2>2 DEF Stable
  <2> QED BY <2>1, <2>2, ReachableInStable
<1>2. PICK p \in c : Neighbours(points, near, p) # {}
  BY DEF IsCluster
<1>3. PICK q : q \in Neighbours(points, near, p)
  BY <1>2
<1>4. q \in c /\ q # p
  BY <1>1, <1>3 DEF Stable, Neighbours
<1>5. IsFiniteSet(c)
  BY FS_Subset DEF IsCluster
<1> QED BY <1>1, <1>4, <1>5, TwoMembers

\* Any result of current_clusters(), for every CLUSTER_MIN_SENSORS and whichever
\* cluster a shared border point is given to: no sensor is in two clusters, each
\* has a core point, and the sensors left over, the noise, are those without a
\* core point within eps.  With the default of 2 there is no other result, and
\* each cluster has two members at least.
THEOREM ClustersPartition ==
    ASSUME NEW points, NEW near, NEW minpoints,
           NEW clusters \in Clusterings(points, near, minpoints)
    PROVE  /\ \A c, d \in clusters : c # d => c \cap d = {}
           /\ \A c \in clusters : c \subseteq points /\ c \cap CorePoints(points, near, minpoints) # {}
           /\ UNION clusters =
                  CorePoints(points, near, minpoints) \cup BorderPoints(points, near, minpoints)
           /\ minpoints = 2 /\ IsFiniteSet(points) =>
                  /\ \A other \in Clusterings(points, near, minpoints) : other = clusters
                  /\ \A c \in clusters : Cardinality(c) >= 2
<1>1. ASSUME minpoints = 2, IsFiniteSet(points)
      PROVE  /\ \A other \in Clusterings(points, near, minpoints) : other = clusters
             /\ \A c \in clusters : Cardinality(c) >= 2
  <2>1. Clusterings(points, near, minpoints) = {Reached(points, near)}
    BY <1>1, OneResult
  <2>2. \A c \in clusters : IsCluster(points, near, c)
    BY <1>1, <2>1, ReachedAreClusters
  <2>3. \A c \in clusters : Cardinality(c) >= 2
    BY <1>1, <2>2, ClusterShape
  <2> QED BY <2>1, <2>3
<1> QED BY <1>1, ResultPartitions
-----------------------------------------------------------------------------
(* The deepest of a group. *)

\* A finite set of sensors has a deepest one: a smallest set without one would
\* have it when one sensor leaves.
LEMMA Deepest ==
    ASSUME NEW c, IsFiniteSet(c), c # {}, NEW f \in [c -> Nat]
    PROVE  \E m \in c : \A s \in c : f[m] >= f[s]
<1> DEFINE Lacks == {t \in SUBSET c : t # {} /\ ~ \E m \in t : \A s \in t : f[m] >= f[s]}
<1>1. SUFFICES ASSUME Lacks # {} PROVE FALSE
  OBVIOUS
<1>2. Lacks \subseteq FiniteSubsetsOf(c)
  BY FS_Subset DEF FiniteSubsetsOf
<1>3. PICK t \in Lacks : \A y \in Lacks : ~ (<<y, t>> \in StrictSubsetOrdering(c))
  <2> HIDE DEF Lacks
  <2> QED BY <1>1, <1>2, FS_StrictSubsetOrderingWellFounded, WFMin
<1>4. PICK e : e \in t
  OBVIOUS
<1>5. CASE t = {e}
  BY <1>5
<1>6. CASE t # {e}
  <2>1. t \ {e} \in SUBSET c /\ t \ {e} # {} /\ <<t \ {e}, t>> \in StrictSubsetOrdering(c)
    BY <1>4, <1>6 DEF StrictSubsetOrdering
  <2>2. t \ {e} \notin Lacks
    BY <1>3, <2>1
  <2>3. PICK m \in t \ {e} : \A s \in t \ {e} : f[m] >= f[s]
    BY <2>1, <2>2
  <2>4. f[m] \in Nat /\ f[e] \in Nat /\ \A s \in t : f[s] \in Nat
    BY <1>4
  <2>5. CASE f[m] >= f[e]
    BY <2>3, <2>5
  <2>6. CASE f[e] >= f[m]
    <3>1. \A s \in t : f[e] >= f[s]
      BY <2>3, <2>4, <2>6
    <3> QED BY <1>4, <3>1
  <2> QED BY <2>4, <2>5, <2>6
<1> QED BY <1>5, <1>6
-----------------------------------------------------------------------------
(* The loops of _cluster_wet(). *)

Clustered == replay /\ mockpc # "readings"

\* Where each wet sensor is: still to come, alone, in a component found, or in
\* the one that is being walked.
Placed ==
    /\ mockpc \in {"scan", "walk"} => replay
    /\ mockpc # "walk" => stack = {} /\ comp = {}
    /\ mockpc = "zones" => ids = {}
    /\ Clustered =>
          /\ ids \subseteq wet /\ stack \subseteq wet /\ comp \subseteq wet /\ seen \subseteq wet
          /\ \A s \in wet \ ids : adj(s) # {} => s \in seen \cup stack \cup comp

\* The walk: what it came to hangs together, it leads nowhere but to what is on
\* the stack, and never into a component that was found before.
Walked ==
    mockpc = "walk" =>
        /\ (comp \cup stack) \cap seen = {}
        /\ \A n \in comp : adj(n) \subseteq comp \cup stack
        /\ \E p \in comp \cup stack :
              /\ adj(p) # {}
              /\ comp \cup stack \subseteq Reachable(wet, Adjacent, 2, p)

\* The components found: clusters, each once, of the sensors seen.
Found ==
    Clustered =>
        /\ Stable(wet, Adjacent, seen)
        /\ \A i \in DOMAIN out : IsCluster(wet, Adjacent, out[i])
        /\ \A i, j \in DOMAIN out : out[i] \cap out[j] # {} => i = j
        /\ \A s \in wet : s \in seen <=> \E i \in DOMAIN out : s \in out[i]

\* The zones shown are graded as the mock grades.
Graded ==
    \A z \in shown : z.state = "active" => z.level = graded(z.depth, z.count, z.under_alert)

MockInv == MockTypeOK /\ Placed /\ Walked /\ Found /\ Graded
\* adj of _cluster_wet() holds the neighbours among the wet sensors.
LEMMA AdjIsNeighbours == \A s : adj(s) = Neighbours(wet, Adjacent, s)
  BY DEF adj, Neighbours

\* Of finitely many sensors, finitely many are wet.
LEMMA WetFinite == IsFiniteSet(wet)
  BY MockServerAssumption, FS_Subset DEF wet

\* The frame stays, and with it who is wet and who is whose neighbour.
LEMMA FrameStays ==
    ASSUME UNCHANGED <<frame, _replay_frames>>
    PROVE  wet' = wet /\ replay' = replay /\ \A s : adj(s)' = adj(s)
  BY DEF wet, replay, adj

\* The invariant holds before the first frame.
LEMMA InitMockInv == MockInit => MockInv
<1> SUFFICES ASSUME MockInit PROVE MockInv
  OBVIOUS
<1>1. MockTypeOK
  <2>1. frame \in StormFrames
    BY MockServerAssumption DEF MockInit
  <2>2. out \in Seq(SUBSET SENSORS)
    BY EmptySeq DEF MockInit
  <2> QED BY <2>1, <2>2, MockServerAssumption DEF MockInit, MockTypeOK
<1>2. Placed /\ Walked /\ Found /\ Graded
  BY DEF MockInit, Placed, Walked, Found, Graded, Clustered
<1> QED BY <1>1, <1>2 DEF MockInv

\* A new frame: every wet sensor is still to come.
LEMMA ReadingsStep == ASSUME MockInv, Readings PROVE MockInv'
<1> USE DEF MockInv, Readings
<1>1. _replay_index \in 0..(FRAMES - 1) /\ FRAMES \in Nat \ {0}
  BY MockServerAssumption DEF MockTypeOK
<1>2. frame' \in StormFrames \cup ReplayFrames /\ _replay_index' \in 0..(FRAMES - 1)
  <2>1. CASE replay
    <3>1. _replay_frames \in [1..FRAMES -> ReplayFrames] /\ _replay_index + 1 \in 1..FRAMES
      BY <1>1, <2>1 DEF MockTypeOK, replay
    <3>2. (_replay_index + 1) % FRAMES \in 0..(FRAMES - 1)
      BY <1>1
    <3> QED BY <2>1, <3>1, <3>2
  <2>2. CASE ~replay
    BY <1>1, <2>2
  <2> QED BY <2>1, <2>2
<1>3. MockTypeOK'
  <2>1. out' \in Seq(SUBSET SENSORS)
    BY EmptySeq
  <2>2. ids' \subseteq SENSORS
    BY DEF wet
  <2>3. mockpc' \in {"readings", "scan", "walk", "zones"}
    OBVIOUS
  <2> QED BY <1>2, <2>1, <2>2, <2>3 DEF MockTypeOK
<1>4. replay' = replay
  BY DEF replay
<1>5. Placed'
  BY <1>4 DEF Placed, Clustered
<1>6. Walked'
  BY DEF Walked
<1>7. Found'
  BY DEF Found, Stable
<1>8. Graded'
  BY DEF Graded
<1> QED BY <1>3, <1>5, <1>6, <1>7, <1>8

\* The next wet sensor: nothing to do, or the start of a walk, which reaches
\* itself and was not seen.
LEMMA ScanStep == ASSUME MockInv, NEW sid \in SENSORS, Scan(sid) PROVE MockInv'
<1> USE DEF MockInv
<1>1. wet' = wet /\ replay' = replay /\ \A s : adj(s)' = adj(s)
  BY FrameStays DEF Scan
<1>2. /\ mockpc = "scan" /\ replay /\ Clustered /\ stack = {} /\ comp = {}
      /\ sid \in wet /\ ids' = ids \ {sid}
      /\ UNCHANGED <<comp, seen, out, shown>>
  BY DEF Scan, Placed, Clustered
<1>3. MockTypeOK'
  BY DEF Scan, MockTypeOK
<1>4. CASE Skipped(sid)
  <2>1. UNCHANGED <<stack, mockpc>>
    BY <1>4 DEF Scan
  <2>2. Placed'
    BY <1>1, <1>2, <1>4, <2>1 DEF Placed, Clustered, Skipped
  <2>3. Walked'
    BY <1>2, <2>1 DEF Walked
  <2>4. Found'
    BY <1>1, <1>2, <2>1 DEF Found, Clustered
  <2>5. Graded'
    BY <1>2 DEF Graded
  <2> QED BY <1>3, <2>2, <2>3, <2>4, <2>5
<1>5. CASE ~Skipped(sid)
  <2>1. stack' = {sid} /\ mockpc' = "walk"
    BY <1>5 DEF Scan
  <2>2. Placed'
    BY <1>1, <1>2, <2>1 DEF Placed, Clustered
  <2>3. sid \notin seen /\ adj(sid) # {}
    BY <1>5 DEF Skipped
  <2>4. sid \in Reachable(wet, Adjacent, 2, sid)
    BY <1>2, WetFinite, ReachableInStable
  <2>5. Walked'
    BY <1>1, <1>2, <2>1, <2>3, <2>4 DEF Walked
  <2>6. Found'
    BY <1>1, <1>2, <2>1 DEF Found, Clustered
  <2>7. Graded'
    BY <1>2 DEF Graded
  <2> QED BY <1>3, <2>2, <2>5, <2>6, <2>7
<1> QED BY <1>4, <1>5

\* A sensor is taken off the stack, and its neighbours come onto it: reached as
\* it was, and not seen, for a neighbour of it that was seen would have seen it.
LEMMA WalkStep == ASSUME MockInv, NEW n \in SENSORS, Walk(n) PROVE MockInv'
<1> USE DEF MockInv
<1>1. wet' = wet /\ replay' = replay /\ \A s : adj(s)' = adj(s)
  BY FrameStays DEF Walk
<1>2. /\ mockpc = "walk" /\ mockpc' = "walk" /\ replay /\ Clustered /\ n \in stack
      /\ comp' = comp \cup {n} /\ comp' \cup stack' = comp \cup stack \cup adj(n)
      /\ UNCHANGED <<ids, seen, out, shown>>
  BY DEF Walk, Placed, Clustered
<1>3. adj(n) = Neighbours(wet, Adjacent, n) /\ adj(n) \subseteq wet /\ n \in wet
  BY <1>2, AdjIsNeighbours DEF Placed, adj
<1>4. comp' \subseteq wet /\ stack' \subseteq wet
  BY <1>2, <1>3 DEF Placed
<1>5. MockTypeOK'
  <2>1. wet \subseteq SENSORS
    BY DEF wet
  <2> QED BY <1>4, <2>1 DEF Walk, MockTypeOK
<1>6. Placed'
  BY <1>1, <1>2, <1>4 DEF Placed, Clustered
<1>7. Walked'
  <2>1. adj(n) \cap seen = {}
    <3> SUFFICES ASSUME NEW m \in adj(n), m \in seen PROVE FALSE
      OBVIOUS
    <3>1. n \in Neighbours(wet, Adjacent, m)
      BY <1>3, NeighbourIsMutual
    <3>2. n \in seen
      BY <1>2, <3>1 DEF Found, Stable
    <3> QED BY <1>2, <3>2 DEF Walked
  <2>2. (comp' \cup stack') \cap seen' = {}
    BY <1>2, <2>1 DEF Walked
  <2>3. \A m \in comp' : adj(m) \subseteq comp' \cup stack'
    BY <1>2 DEF Walked
  <2>4. PICK p \in comp \cup stack :
              adj(p) # {} /\ comp \cup stack \subseteq Reachable(wet, Adjacent, 2, p)
    BY <1>2 DEF Walked
  <2>5. adj(n) \subseteq Reachable(wet, Adjacent, 2, p)
    <3> SUFFICES ASSUME NEW m \in adj(n), NEW s \in SUBSET wet, p \in s,
                        Stable(wet, Adjacent, s)
                 PROVE  m \in s
      BY <1>3, WetFinite, ReachableInStable
    <3>1. n \in s
      BY <1>2, <2>4, WetFinite, ReachableInStable
    <3> QED BY <1>3, <3>1 DEF Stable
  <2>6. p \in comp' \cup stack' /\ comp' \cup stack' \subseteq Reachable(wet, Adjacent, 2, p)
    BY <1>2, <2>4, <2>5
  <2> QED BY <1>1, <2>2, <2>3, <2>4, <2>6 DEF Walked
<1>8. Found'
  BY <1>1, <1>2 DEF Found, Clustered
<1>9. Graded'
  BY <1>2 DEF Graded
<1> QED BY <1>5, <1>6, <1>7, <1>8, <1>9

\* The end of a walk: what it came to is closed and all reached, so a cluster,
\* and it is disjoint from those before.
LEMMA WalkEndsStep == ASSUME MockInv, WalkEnds PROVE MockInv'
<1> USE DEF MockInv
<1>1. wet' = wet /\ replay' = replay /\ \A s : adj(s)' = adj(s)
  BY FrameStays DEF WalkEnds
<1>2. /\ mockpc = "walk" /\ mockpc' = "scan" /\ replay /\ Clustered /\ stack = {}
      /\ seen' = seen \cup comp /\ comp' = {}
      /\ UNCHANGED <<ids, stack, shown>>
      /\ comp \subseteq wet /\ seen \subseteq wet
  BY DEF WalkEnds, Placed, Clustered
<1>3. PICK p \in comp : adj(p) # {} /\ comp \subseteq Reachable(wet, Adjacent, 2, p)
  BY <1>2 DEF Walked
<1>4. Stable(wet, Adjacent, comp)
  BY <1>2, AdjIsNeighbours DEF Stable, Walked
<1>5. IsCluster(wet, Adjacent, comp)
  BY <1>2, <1>3, <1>4, WetFinite, StableIsReachable, AdjIsNeighbours DEF IsCluster
<1>6. out' = Append(out, comp)
  BY <1>5, WetFinite, ClusterShape DEF WalkEnds
<1>7. /\ out \in Seq(SUBSET SENSORS) /\ comp \in SUBSET SENSORS
      /\ DOMAIN out = 1..Len(out) /\ Len(out) \in Nat
  BY LenProperties DEF MockTypeOK
<1>8. /\ out' \in Seq(SUBSET SENSORS) /\ DOMAIN out' = 1..(Len(out) + 1)
      /\ \A i \in DOMAIN out : out'[i] = out[i]
      /\ out'[Len(out) + 1] = comp
  BY <1>6, <1>7, AppendProperties, LenProperties
<1>9. MockTypeOK'
  BY <1>7, <1>8 DEF WalkEnds, MockTypeOK
<1>10. Placed'
  BY <1>1, <1>2 DEF Placed, Clustered
<1>11. Walked'
  BY <1>2 DEF Walked
<1>12. Found'
  <2>1. Stable(wet, Adjacent, seen \cup comp)
    BY <1>2, <1>4 DEF Found, Stable
  <2>2. \A i \in DOMAIN out' : i \in DOMAIN out \/ i = Len(out) + 1
    BY <1>7, <1>8
  <2>3. \A i \in DOMAIN out' : IsCluster(wet, Adjacent, out'[i])
    BY <1>2, <1>5, <1>8, <2>2 DEF Found
  <2>4. \A i \in DOMAIN out : out[i] \subseteq seen
    BY <1>2 DEF Found, IsCluster
  <2>5. comp \cap seen = {}
    BY <1>2 DEF Walked
  <2>6. \A i, j \in DOMAIN out' : out'[i] \cap out'[j] # {} => i = j
    BY <1>2, <1>8, <2>2, <2>4, <2>5 DEF Found
  <2>7. Len(out) + 1 \in DOMAIN out' /\ DOMAIN out \subseteq DOMAIN out'
    BY <1>7, <1>8
  <2>8. \A s \in wet : s \in seen' <=> \E i \in DOMAIN out' : s \in out'[i]
    BY <1>2, <1>8, <2>2, <2>7 DEF Found
  <2> QED BY <1>1, <1>2, <2>1, <2>3, <2>6, <2>8 DEF Found
<1>13. Graded'
  BY <1>2 DEF Graded
<1> QED BY <1>9, <1>10, <1>11, <1>12, <1>13
\* The end of the scan.
LEMMA ScanEndsStep == ASSUME MockInv, ScanEnds PROVE MockInv'
<1> USE DEF MockInv
<1>1. wet' = wet /\ replay' = replay /\ \A s : adj(s)' = adj(s)
  BY FrameStays DEF ScanEnds
<1>2. /\ mockpc = "scan" /\ mockpc' = "zones" /\ replay /\ Clustered /\ ids = {}
      /\ UNCHANGED <<ids, stack, comp, seen, out, shown>>
  BY DEF ScanEnds, clustering, Placed, Clustered
<1>3. MockTypeOK'
  BY DEF ScanEnds, clustering, MockTypeOK
<1>4. Placed'
  BY <1>1, <1>2 DEF Placed, Clustered
<1>5. Walked'
  BY <1>2 DEF Walked
<1>6. Found'
  BY <1>1, <1>2 DEF Found, Clustered
<1>7. Graded'
  BY <1>2 DEF Graded
<1> QED BY <1>3, <1>4, <1>5, <1>6, <1>7

\* A group that is there has a label and a deepest sensor.
LEMMA PresentGroups ==
    ASSUME MockTypeOK, NEW g \in Present
    PROVE  /\ g \in groups /\ g.label \in SUBSET SENSORS
           /\ Cardinality(g.present) \in Nat
           /\ depth(g) \in Nat
<1>1. g \in groups /\ Cardinality(g.present) >= 2
  BY DEF Present
<1>2. g.label \in SUBSET SENSORS /\ g.present \in SUBSET SENSORS
  <2>1. CASE replay
    <3>1. PICK i \in DOMAIN out : g = [label |-> out[i], present |-> out[i]]
      BY <1>1, <2>1 DEF groups
    <3>2. out[i] \in SUBSET SENSORS
      BY <3>1, LenProperties DEF MockTypeOK
    <3> QED BY <3>1, <3>2
  <2>2. CASE ~replay
    <3>1. PICK h \in {QUEENS, REDHOOK} : g = [label |-> h, present |-> h \cap wet]
      BY <1>1, <2>2 DEF groups
    <3> QED BY <3>1, MockServerAssumption
  <2> QED BY <2>1, <2>2
<1>3. IsFiniteSet(g.present) /\ Cardinality(g.present) \in Nat
  BY <1>2, MockServerAssumption, FS_Subset, FS_CardinalityType
<1>4. g.present # {}
  BY <1>1, FS_EmptySet
<1>5. frame \in [SENSORS -> Nat]
  BY MockServerAssumption DEF MockTypeOK
<1> DEFINE f == [s \in g.present |-> frame[s]]
<1>6. f \in [g.present -> Nat]
  BY <1>2, <1>5
<1>7. PICK m \in g.present : \A s \in g.present : f[m] >= f[s]
  <2> HIDE DEF f
  <2> QED BY <1>3, <1>4, <1>6, Deepest
<1>8. \E d \in {frame[s] : s \in g.present} : \A s \in g.present : d >= frame[s]
  BY <1>7
<1>9. depth(g) \in {frame[s] : s \in g.present}
  BY <1>8 DEF depth
<1> QED BY <1>1, <1>2, <1>3, <1>5, <1>9

\* The zones of the groups that are there.
LEMMA BuildStateStep == ASSUME MockInv, BuildState PROVE MockInv'
<1> USE DEF MockInv
<1>1. \A g \in Present : /\ g \in groups /\ g.label \in SUBSET SENSORS
                         /\ Cardinality(g.present) \in Nat /\ depth(g) \in Nat
  BY PresentGroups
<1>2. /\ mockpc = "zones" /\ mockpc' = "readings"
      /\ shown' = {Zone(g) : g \in Present} /\ _zone_states' = Known
      /\ UNCHANGED <<_replay_frames, _replay_index, frame, ids, stack, comp, seen, out>>
  BY DEF BuildState, clustering
<1>3. \A d, n, a : graded(d, n, a) \in Levels
  BY DEF graded, Levels
<1>4. \A g \in Present :
         Zone(g) \in [label : SUBSET SENSORS, state : {"forming", "active"},
                      depth : Nat, count : Nat, under_alert : BOOLEAN,
                      level : Levels \cup {NoLevel}]
  BY <1>1, <1>3 DEF Zone, alerted
<1>5. Known \subseteq SUBSET SENSORS
  BY <1>1 DEF Known, MockTypeOK
<1>6. MockTypeOK'
  BY <1>2, <1>4, <1>5 DEF MockTypeOK
<1>7. Placed' /\ Walked' /\ Found'
  BY <1>2 DEF Placed, Walked, Found, Clustered
<1>8. Graded'
  <2>1. \A g \in Present :
           Zone(g).state = "active"
               => Zone(g).level = graded(Zone(g).depth, Zone(g).count, Zone(g).under_alert)
    BY DEF Zone
  <2> QED BY <1>2, <2>1 DEF Graded
<1> QED BY <1>6, <1>7, <1>8

\* Every step of the mock keeps the invariant.
LEMMA NextMockInv == MockInv /\ [MockNext]_mockvars => MockInv'
<1> SUFFICES ASSUME MockInv, [MockNext]_mockvars PROVE MockInv'
  OBVIOUS
<1>1. CASE UNCHANGED mockvars
  <2>1. wet' = wet /\ replay' = replay /\ \A s : adj(s)' = adj(s)
    BY <1>1, FrameStays DEF mockvars
  <2>2. MockTypeOK' /\ Graded'
    BY <1>1 DEF mockvars, clustering, MockInv, MockTypeOK, Graded
  <2>3. Placed'
    BY <1>1, <2>1 DEF mockvars, clustering, MockInv, Placed, Clustered
  <2>4. Walked'
    BY <1>1, <2>1 DEF mockvars, clustering, MockInv, Walked
  <2>5. Found'
    BY <1>1, <2>1 DEF mockvars, clustering, MockInv, Found, Clustered
  <2> QED BY <2>2, <2>3, <2>4, <2>5 DEF MockInv
<1>2. CASE MockNext
  BY <1>2, ReadingsStep, ScanStep, WalkStep, WalkEndsStep, ScanEndsStep, BuildStateStep
     DEF MockNext
<1> QED BY <1>1, <1>2

-----------------------------------------------------------------------------
\* The mock is well typed: a zone it shows has a deepest sensor.
THEOREM MockTypeCorrect == MockSpec => []MockTypeOK
<1>1. MockInv => MockTypeOK
  BY DEF MockInv
<1> QED BY InitMockInv, NextMockInv, <1>1, PTL DEF MockSpec

\* When the outer loop is over, every cluster was found.
LEMMA FoundIsDBSCAN == ASSUME MockInv PROVE ClusterWetIsDBSCAN
<1> SUFFICES ASSUME replay, mockpc = "zones"
             PROVE  /\ {out[i] : i \in DOMAIN out} = Reached(wet, Adjacent)
                    /\ \A i, j \in DOMAIN out : out[i] = out[j] => i = j
  BY WetFinite, OneResult DEF ClusterWetIsDBSCAN
<1>1. Clustered /\ Placed /\ Found
  BY DEF MockInv, Clustered
<1>2. \A i \in DOMAIN out : out[i] \in Reached(wet, Adjacent)
  BY <1>1, WetFinite, ReachedAreClusters DEF Found
<1>3. ASSUME NEW c \in Reached(wet, Adjacent)
      PROVE  \E i \in DOMAIN out : out[i] = c
  <2>1. IsCluster(wet, Adjacent, c)
    BY WetFinite, ReachedAreClusters
  <2>2. PICK p \in c : Neighbours(wet, Adjacent, p) # {}
    BY <2>1 DEF IsCluster
  <2>3. p \in seen
    BY <1>1, <2>1, <2>2, AdjIsNeighbours DEF Placed, IsCluster
  <2>4. PICK i \in DOMAIN out : p \in out[i]
    BY <1>1, <2>1, <2>3 DEF Found, IsCluster
  <2>5. IsCluster(wet, Adjacent, out[i])
    BY <1>1 DEF Found
  <2> QED BY <2>1, <2>2, <2>4, <2>5 DEF IsCluster
<1>4. \A i, j \in DOMAIN out : out[i] = out[j] => i = j
  <2>1. \A i \in DOMAIN out : out[i] # {}
    BY <1>1 DEF Found, IsCluster
  <2> QED BY <1>1, <2>1 DEF Found
<1> QED BY <1>2, <1>3, <1>4

\* _cluster_wet() is "DBSCAN-equivalent for minpoints=2", on any map of sensors
\* and for every frame of a replay: its components are the clusters that
\* current_clusters() would find, each once.
THEOREM ClusterWetHolds == MockSpec => []ClusterWetIsDBSCAN
<1>1. MockInv => ClusterWetIsDBSCAN
  BY FoundIsDBSCAN
<1> QED BY InitMockInv, NextMockInv, <1>1, PTL DEF MockSpec

\* On FloodNet's thresholds the mock's own ladder is decide_level(): what the
\* console shows of the mock is what the dispatcher would have issued.
THEOREM MockGradesHold ==
    ASSUME ADVISORY_THRESHOLD_CM = 10, WARNING_THRESHOLD_CM = 20
    PROVE  MockSpec => []MockGradesLikeDispatcher
<1>1. CORROBORATED_WARNING_CM = 12
  BY DEF CORROBORATED_WARNING_CM
<1>2. \A d, n, a : graded(d, n, a) = decide_level(d, n, a)
  BY <1>1 DEF graded, decide_level, WarningDue, AdvisoryDue
<1>3. MockInv => MockGradesLikeDispatcher
  BY <1>2 DEF MockInv, Graded, MockGradesLikeDispatcher
<1> QED BY InitMockInv, NextMockInv, <1>3, PTL DEF MockSpec
=============================================================================

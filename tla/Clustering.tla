----------------------------- MODULE Clustering -----------------------------
(***************************************************************************)
(* The spatial clustering of sql/schema.sql: current_clusters() runs       *)
(* ST_ClusterDBSCAN over the latest reading of every inundated sensor and  *)
(* drops the noise.  Space is abstracted to the graph of sensors no more   *)
(* than p_eps_ft apart: near is a symmetric relation on sensors, a set of  *)
(* two-element sets.                                                       *)
(***************************************************************************)
EXTENDS Integers, FiniteSets

\* The points within eps of p, p among them.
Neighbourhood(points, near, p) == {q \in points : q = p \/ {p, q} \in near}

CorePoints(points, near, minpoints) ==
    {p \in points : Cardinality(Neighbourhood(points, near, p)) >= minpoints}

\* The points that a chain of neighbours, every one but the last a core
\* point, links to p: those in every set that holds p and is closed under the
\* neighbourhoods of its core points.
Reachable(points, near, minpoints, p) ==
    LET core == CorePoints(points, near, minpoints)
        Closed(s) == \A q \in s \cap core : Neighbourhood(points, near, q) \subseteq s
    IN  {q \in points : \A s \in SUBSET points : p \in s /\ Closed(s) => q \in s}

\* Within eps of a core point and not one.
BorderPoints(points, near, minpoints) ==
    LET core == CorePoints(points, near, minpoints)
    IN  {p \in points \ core : Neighbourhood(points, near, p) \cap core # {}}

\* A border point may be within eps of several clusters.  It joins one of
\* them, that of the core point it has here; which, nothing decides.
Homes(points, near, minpoints) ==
    {home \in [BorderPoints(points, near, minpoints) -> CorePoints(points, near, minpoints)] :
        \A p \in DOMAIN home : home[p] \in Neighbourhood(points, near, p)}

\* The cluster of the core point p.
Cluster(points, near, minpoints, home, p) ==
    LET reached == Reachable(points, near, minpoints, p)
    IN  {q \in reached : q \in CorePoints(points, near, minpoints) \/ home[q] \in reached}

\* The results the query may have: sets of clusters, noise dropped.  A cluster
\* may have fewer than minpoints points, if others got its border points.  With
\* minpoints = 2 there is no border, and one result.
Clusterings(points, near, minpoints) ==
    {{Cluster(points, near, minpoints, home, p) : p \in CorePoints(points, near, minpoints)} :
        home \in Homes(points, near, minpoints)}
=============================================================================

---------------------------- MODULE MCCorrelator ----------------------------
(* An instance of Correlator for TLC. *)
EXTENDS Correlator

CONSTANTS s1, s2, u1, u2

Pair == {{s1, s2}}

Reading(s, at, wet) == [kind |-> "reading", sensor |-> s, at |-> at, wet |-> wet]
Alert == [kind |-> "alert", sensor |-> s1, at |-> 0, wet |-> FALSE]
Stray == [kind |-> "other", sensor |-> s1, at |-> 0, wet |-> FALSE]

\* The messages of a run in which the reading window slides and the tables are
\* cleared once: two wet neighbours, one wet and one dry, a sensor that falls
\* dry, and the other kinds of message.
Sliding ==
    {<<Reading(s1, 1, TRUE), Reading(s2, 1, TRUE)>>,
     <<Reading(s1, 1, TRUE), Reading(s2, 2, FALSE)>>,
     <<Reading(s2, 1, TRUE), Reading(s2, 2, FALSE)>>,
     <<Reading(s1, 1, TRUE), Alert>>,
     <<Reading(s1, 1, TRUE), Stray>>}

\* ... and of one in which the tables are cleared twice and nothing else
\* interferes but a fault.
Clearing ==
    {<<Reading(s1, 2, TRUE), Reading(s2, 2, TRUE)>>}

AllBodies == UNION {{s[1], s[2]} : s \in Sliding \cup Clearing}

MCInit ==
    /\ body \in [Units -> Bodies]
    /\ \/ /\ <<body[u1], body[u2]>> \in Sliding
          /\ horizon = 0
          /\ env = [faults |-> 0, restores |-> 1, outages |-> 0]
       \/ /\ <<body[u1], body[u2]>> \in Clearing
          /\ horizon = HORIZONS
          /\ env = [faults |-> 0, restores |-> 0, outages |-> MAX_OUTAGES]
    /\ Fresh

-----------------------------------------------------------------------------
\* Border points, which two sensors cannot have: of seven points, p1 and p2 are
\* core points for minpoints = 4, and x is within eps of both.
SharedBorder ==
    LET near == {{"p1", "l1"}, {"p1", "m1"}, {"p1", "x"}, {"p2", "l2"}, {"p2", "m2"}, {"p2", "x"}}
        One == {"p1", "l1", "m1"}
        Two == {"p2", "l2", "m2"}
    IN  Clusterings(UNION near, near, 4)
            = {{One \cup {"x"}, Two}, {One, Two \cup {"x"}}}

\* x goes to one of the two clusters, and the other has three points.
ASSUME SharedBorder

-----------------------------------------------------------------------------
MCSpec == MCInit /\ [][Next]_vars /\ Fairness
=============================================================================

---------------------------- MODULE MCDispatcher ----------------------------
(* Instances of Dispatcher for TLC. *)
EXTENDS Dispatcher, TLC

CONSTANTS z1, z2

\* FloodNet thresholds.  One zone: a shallow puddle, the same puddle under an
\* alert (still "monitor", so only corroboration changes) and a deep one.
Wet(z, depth, alert) == [zone |-> z, max_depth_cm |-> depth,
                         sensor_count |-> 2, under_alert |-> alert]

OneZoneBodies == {Wet(z1, 6, FALSE), Wet(z1, 6, TRUE), Wet(z1, 11, FALSE)}

TwoZoneBodies == {Wet(z1, 12, FALSE), Wet(z2, 20, TRUE)}

Symmetry == Permutations(Units)
=============================================================================

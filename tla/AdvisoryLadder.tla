--------------------------- MODULE AdvisoryLadder ---------------------------
(***************************************************************************)
(* The pure decisions of workers/dispatcher.py: the advisory level a       *)
(* cluster earns (decide_level), the two halves of the zone lifecycle      *)
(* (next_state for a zone that was just clustered, sweep_state for one     *)
(* that was not), and whether a cycle warrants an advisory at all          *)
(* (should_notify).  Depths are whole centimetres.                         *)
(***************************************************************************)
EXTENDS Integers

CONSTANTS
    ADVISORY_THRESHOLD_CM,      \* config.py: 10 on FloodNet, 90 on USGS
    WARNING_THRESHOLD_CM        \* config.py: 20 on FloodNet, 120 on USGS

ASSUME ThresholdAssumption ==
    /\ ADVISORY_THRESHOLD_CM \in Nat
    /\ WARNING_THRESHOLD_CM \in Nat

\* ADVISORY_LEVELS, in the order of the ladder, and "none" for a zone that
\* has never issued an advisory (last_level is NULL).
Levels == {"monitor", "advisory", "warning"}
NoLevel == "none"

Rank(level) ==
    CASE level = "monitor"  -> 1
      [] level = "advisory" -> 2
      [] level = "warning"  -> 3
      [] OTHER              -> 0

\* The states of the zones table (schema.sql CHECK), and "none" for a zone
\* that has no row or whose row open_zones() does not return.
OpenStates == {"forming", "active", "receding"}
NoState == "none"

CORROBORATED_WARNING_CM ==
    ADVISORY_THRESHOLD_CM + (WARNING_THRESHOLD_CM - ADVISORY_THRESHOLD_CM) \div 5

WarningDue(max_depth_cm, under_alert) ==
    \/ max_depth_cm >= WARNING_THRESHOLD_CM
    \/ max_depth_cm >= CORROBORATED_WARNING_CM /\ under_alert

AdvisoryDue(max_depth_cm, sensor_count, under_alert) ==
    \/ max_depth_cm >= ADVISORY_THRESHOLD_CM
    \/ sensor_count >= 3 /\ under_alert

decide_level(max_depth_cm, sensor_count, under_alert) ==
    IF WarningDue(max_depth_cm, under_alert) THEN "warning"
    ELSE IF AdvisoryDue(max_depth_cm, sensor_count, under_alert) THEN "advisory"
    ELSE "monitor"

\* A mutant of next_state: no one-cycle delay on the way in.
next_state_eager(previous) == "active"

next_state(previous) == IF previous = NoState THEN "forming" ELSE "active"

\* A mutant of sweep_state: a receding zone is never closed.
sweep_state_stuck(previous) ==
    IF previous \in {"forming", "active"} THEN "receding" ELSE NoState

sweep_state(previous) ==
    IF previous \in {"forming", "active"} THEN "receding"
    ELSE IF previous = "receding" THEN "closed"
    ELSE NoState

\* Mutants of should_notify: the level left out of the key (E-021), and no
\* suppression at all.
should_notify_blind(previous, state, level, under_alert) ==
    /\ state # "forming"
    /\ \/ previous.state # state
       \/ previous.under_alert # under_alert

should_notify_always(previous, state, level, under_alert) == state # "forming"

\* previous is what open_zones() returned for the zone; previous.state is
\* NoState where the code has None.
should_notify(previous, state, level, under_alert) ==
    /\ state # "forming"
    /\ \/ previous.state = NoState
       \/ previous.state # state
       \/ previous.last_level # level
       \/ previous.under_alert # under_alert
=============================================================================

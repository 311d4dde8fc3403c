----------------------------- MODULE MCConsole -----------------------------
(* Instances of Console for TLC. *)
EXTENDS Console, TLC

Symmetry == Permutations(Browsers)
=============================================================================

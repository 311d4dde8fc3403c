----------------------------- MODULE MCBaseline -----------------------------
(* Instances of UsgsBaseline for TLC. *)
EXTENDS UsgsBaseline, TLC

Symmetry == Permutations(Sites)
=============================================================================

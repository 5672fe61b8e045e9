------------------------------- MODULE MCFreshness -------------------------------
(* Freshness on small instances. *)
EXTENDS Freshness, TLC

Symmetry == Permutations(Checks)
================================================================================

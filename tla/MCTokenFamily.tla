----------------------------- MODULE MCTokenFamily -----------------------------
(***************************************************************************)
(* Small instances of TokenFamily for TLC.                                 *)
(***************************************************************************)
EXTENDS TokenFamily, TLC

CallSymmetry == Permutations(Calls)
TokenSymmetry == Permutations(Tokens)
Symmetry == CallSymmetry \cup TokenSymmetry
================================================================================

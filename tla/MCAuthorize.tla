------------------------------- MODULE MCAuthorize -------------------------------
(* Authorize on small instances. *)
EXTENDS Authorize, TLC

CONSTANTS counted, approved \* grants

Attempts == Calls \X Paths
Limit == (counted :> 1) @@ (approved :> 2)
OwnGrants == {counted}
LentGrants == {approved}
NewGrants == {{approved}}
Symmetry == Permutations(Calls) \cup Permutations(Admins)
================================================================================

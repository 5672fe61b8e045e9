------------------------------- MODULE MCMcpGrants -------------------------------
(* McpGrants on small instances. *)
EXTENDS McpGrants, TLC

Symmetry == Permutations(Pairs) \cup Permutations(Requests)
================================================================================

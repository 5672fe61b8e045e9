-------------------------- MODULE MCDelegationRetries --------------------------
(***************************************************************************)
(* The instances of MCDelegations, for DelegationRetries.                  *)
(***************************************************************************)
EXTENDS MCDelegations, DelegationRetries
================================================================================

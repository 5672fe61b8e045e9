------------------------------ MODULE MCApprovals ------------------------------
(***************************************************************************)
(* Small instances of Approvals for TLC.                                   *)
(***************************************************************************)
EXTENDS Approvals, TLC
================================================================================

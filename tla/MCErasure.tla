------------------------------- MODULE MCErasure -------------------------------
(***************************************************************************)
(* Small instances of Erasure for TLC.                                     *)
(***************************************************************************)
EXTENDS Erasure, TLC

CONSTANTS a1, a2,        \* agents
          r1, r2, r3, n1 \* audit rows

\* Two old rows, of the user's agent and of somebody else's; one that is added
\* by a call, one that tells of the revocation of the link.
RowsOn == (r1 :> a1) @@ (r2 :> None) @@ (r3 :> a1) @@ (n1 :> a1)
NoteRows == a1 :> n1
Keep == [keep |-> TRUE, orgs |-> FALSE]
Delete == [keep |-> FALSE, orgs |-> TRUE]
OneOption == {{Keep}, {Delete}}
================================================================================

----------------------------- MODULE MCDelegations -----------------------------
(***************************************************************************)
(* Small instances of Delegations for TLC.                                 *)
(***************************************************************************)
EXTENDS Delegations, TLC

CONSTANTS boss, peer, lead, worker, helper,  \* agents
          read, write,                       \* permissions
          L1, L2, L3                     \* links

CallSymmetry == Permutations(Calls)

Ask(from, to, permissions, expires, limit) ==
  [from |-> from, to |-> to, permissions |-> permissions, expiresAt |-> expires, maxDepth |-> limit]

\* boss -> lead -> worker, and a loop back from worker to lead.
LoopOwn == (boss :> {read}) @@ (lead :> {}) @@ (worker :> {})
LoopWanted ==
  (L1 :> Ask(boss, lead, {read}, 1, 3)) @@ (L2 :> Ask(lead, worker, {read}, 2, 3))
  @@ (L3 :> Ask(worker, lead, {read}, 1, 3))

\* Two delegators of lead, who lends what it has from one of them to worker.
TwoOwn == (boss :> {read}) @@ (peer :> {write}) @@ (lead :> {}) @@ (worker :> {})
TwoWanted ==
  (L1 :> Ask(boss, lead, {read}, 1, 3)) @@ (L2 :> Ask(peer, lead, {write}, 1, 3))
  @@ (L3 :> Ask(lead, worker, {read}, 1, 3))

\* boss -> lead -> worker -> helper
LineOwn == (boss :> {read}) @@ (lead :> {}) @@ (worker :> {}) @@ (helper :> {})
LineWanted ==
  (L1 :> Ask(boss, lead, {read}, 1, 3)) @@ (L2 :> Ask(lead, worker, {read}, 1, 3))
  @@ (L3 :> Ask(worker, helper, {read}, 1, 3))
================================================================================

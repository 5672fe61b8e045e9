--------------------------- MODULE ApprovalLifecycle ---------------------------
(***************************************************************************)
(* What a human approval promises to the agent that asked for it and to    *)
(* the people who answer, whatever the storage, the races and the crashes. *)
(* A request is opened with a quorum, gathers backers while it is open, is *)
(* settled once, and an approved one is spent at most once.  Approvals.tla *)
(* is the code; it implements this specification.                          *)
(***************************************************************************)
EXTENDS Naturals, FiniteSets

CONSTANTS Requests,   \* ids of approval requests
          People,     \* who may back a request
          Requesters, \* the people and agents behind the requests
          Quorums     \* how many backers a request may ask for

VARIABLES state,      \* "none", "pending", "approved", "denied", "expired" or "spent"
          needed,     \* the quorum each request was opened with
          backers     \* who has backed each request so far

vars == <<state, needed, backers>>

Settled == {"approved", "denied", "expired", "spent"}

Init ==
  /\ state = [r \in Requests |-> "none"]
  /\ needed = [r \in Requests |-> 1]
  /\ backers = [r \in Requests |-> {}]

\* Someone asks for an approval by a quorum of n.
Open(r) ==
  /\ state[r] = "none"
  /\ state' = [state EXCEPT ![r] = "pending"]
  /\ \E n \in Quorums : needed' = [needed EXCEPT ![r] = n]
  /\ UNCHANGED backers

\* A person other than the requesters backs a quorum request.  The request
\* may be settled before the backing is complete; the backing then counts
\* for nothing.
Back(r, p) ==
  /\ state[r] # "none" /\ needed[r] > 1
  /\ p \notin Requesters
  /\ backers' = [backers EXCEPT ![r] = @ \cup {p}]
  /\ UNCHANGED <<state, needed>>

\* A request that needs one approval is approved by anybody's word; a quorum
\* request only once enough people have backed it.
Approve(r) ==
  /\ state[r] = "pending"
  /\ needed[r] > 1 => Cardinality(backers[r]) >= needed[r]
  /\ state' = [state EXCEPT ![r] = "approved"]
  /\ UNCHANGED <<needed, backers>>

\* One denial, or the deadline, ends an open request.
Refuse(r) ==
  /\ state[r] = "pending"
  /\ \E s \in {"denied", "expired"} : state' = [state EXCEPT ![r] = s]
  /\ UNCHANGED <<needed, backers>>

Spend(r) ==
  /\ state[r] = "approved"
  /\ state' = [state EXCEPT ![r] = "spent"]
  /\ UNCHANGED <<needed, backers>>

Next ==
  \E r \in Requests :
    \/ Open(r) \/ Approve(r) \/ Refuse(r) \/ Spend(r)
    \/ \E p \in People : Back(r, p)

Spec == Init /\ [][Next]_vars
================================================================================

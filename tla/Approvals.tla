------------------------------- MODULE Approvals -------------------------------
(***************************************************************************)
(* Human approvals (packages/core/src/approval): request, approve and deny *)
(* by one person or by a quorum of distinct people, the expiry sweep, and  *)
(* the single spend by authorize().  Every function is async, so a call is *)
(* a sequence of steps, one per database statement, and any number of      *)
(* calls interleave, in one process or in several over the same database.  *)
(* A call that stops half way (the process dies, a statement throws) is    *)
(* Crash: nothing is rolled back.                                          *)
(*                                                                         *)
(* A refusal that changes nothing (unknown id, request already settled,    *)
(* step-up proof missing, argument hash mismatch) is a call that takes no  *)
(* step here.                                                              *)
(*                                                                         *)
(* DecidableIfPresent, ExpirableIfOpen, SpendableAgain, OneMissing,        *)
(* OneSpare and InsertVoteUpsert are not the code: each is a plausible     *)
(* mistake in the definition it precedes, used in its place to confirm     *)
(* that the properties notice it.                                          *)
(***************************************************************************)
EXTENDS Naturals, FiniteSets

CONSTANTS Requests,   \* ids of rows of theauth_approval_requests
          People,     \* approver ids, numbers: the vote list is sorted by id
          Requesters, \* userId and agentId of the requests
          Quorums,    \* the values of requiredApprovals in use
          Calls,      \* concurrent calls of the module's functions
          None,       \* no request, no person
          Ttl,        \* lifetime of a request, in ticks
          MaxTime,    \* bound: the clock stops here
          MaxCrashes  \* bound: calls that stop half way

ASSUME PeopleAssumption == People \subseteq Nat /\ None \notin People
ASSUME RequestAssumption == None \notin Requests
ASSUME QuorumAssumption == Quorums \subseteq Nat \ {0} /\ Quorums # {}
ASSUME BoundAssumption == Ttl \in Nat \ {0} /\ MaxTime \in Nat /\ MaxCrashes \in Nat

VARIABLES
  status,     \* column status; "none" before the row is inserted
  required,   \* column required_approvals, null read as 1
  expiresAt,  \* column expires_at
  consumed,   \* column consumed_at is not null
  votes,      \* theauth_approval_votes of each request
  audit,      \* audit rows written about requests
  call,       \* the local variables of each call
  clock,
  crashes,
  backers,    \* history: who ever inserted a vote
  spends      \* history: successful spends reported to callers

row == <<status, required, expiresAt, consumed>>
history == <<backers, spends>>
vars == <<row, votes, audit, call, clock, crashes, history>>

--------------------------------------------------------------------------------
Time == 0..MaxTime
Vote == [by : People, at : Time]
Steps == {"idle", "decide", "list", "insert", "count", "fresh", "flip", "after",
          "withdraw", "expire", "audit", "spend"}
Events == {"none", "request", "approved", "denied", "vote", "expired"}
Call == [pc : Steps, req : Requests \cup {None}, by : People \cup {None}, now : Time,
         event : Events, counted : SUBSET Vote, batch : SUBSET Requests]
AuditRow == [req : Requests, event : Events \ {"none"}, by : People \cup {None}]

Idle == [pc |-> "idle", req |-> None, by |-> None, now |-> 0,
         event |-> "none", counted |-> {}, batch |-> {}]

\* expires_at of a request opened now.
Deadline(now) == now + Ttl

TypeOK ==
  /\ status \in [Requests -> {"none", "pending", "approved", "denied", "expired"}]
  /\ required \in [Requests -> Quorums \cup {1}]
  /\ expiresAt \in [Requests -> 0..(MaxTime + Ttl)]
  /\ consumed \in [Requests -> BOOLEAN]
  /\ votes \in [Requests -> SUBSET Vote]
  /\ audit \subseteq AuditRow
  /\ call \in [Calls -> Call]
  /\ clock \in Time
  /\ crashes \in 0..MaxCrashes
  /\ backers \in [Requests -> SUBSET People]
  /\ spends \in [Requests -> Nat]

Init ==
  /\ status = [r \in Requests |-> "none"]
  /\ required = [r \in Requests |-> 1]
  /\ expiresAt = [r \in Requests |-> 0]
  /\ consumed = [r \in Requests |-> FALSE]
  /\ votes = [r \in Requests |-> {}]
  /\ audit = {}
  /\ call = [c \in Calls |-> Idle]
  /\ clock = 0
  /\ crashes = 0
  /\ backers = [r \in Requests |-> {}]
  /\ spends = [r \in Requests |-> 0]

--------------------------------------------------------------------------------
(* The conditional UPDATEs of db/store/single-use.ts: the WHERE clauses. *)

DecidableIfPresent(r, now) == status[r] # "none" /\ expiresAt[r] > now
\* approvals.decide
Decidable(r, now) == status[r] = "pending" /\ expiresAt[r] > now

ExpirableIfOpen(r) == status[r] \in {"pending", "approved"}
\* approvals.expire
Expirable(r) == status[r] = "pending"

SpendableAgain(r, now) == status[r] = "approved" /\ expiresAt[r] > now
\* approvals.consume
Spendable(r, now) == status[r] = "approved" /\ expiresAt[r] > now /\ ~consumed[r]

(* The vote list, sorted by decided_at and then approver id. *)

Earlier(u, v) == u.at < v.at \/ (u.at = v.at /\ u.by < v.by)
Names(vs) == {v.by : v \in vs}
\* approvers.slice(0, n)
First(n, vs) == {v \in vs : Cardinality({u \in vs : Earlier(u, v)}) < n}

OneMissing(n, vs) == Cardinality(vs) + 1 >= n
OneSpare(n, vs) == Cardinality(vs) > n
\* Enough votes were counted for a quorum of n.
Complete(n, vs) == Cardinality(vs) >= n

\* The locals of a call about r by p whose first statement is step pc.
Begin(pc, r, p, event, batch) ==
  [pc |-> pc, req |-> r, by |-> p, now |-> clock,
   event |-> event, counted |-> {}, batch |-> batch]
Start(c, locals) == call[c] = Idle /\ call' = [call EXCEPT ![c] = locals]
At(c, pc) == call[c].pc = pc
Go(c, pc) == call' = [call EXCEPT ![c].pc = pc]
\* The next statement of call c writes an audit row.
GoAudit(c, event) == call' = [call EXCEPT ![c].pc = "audit", ![c].event = event]
Return(c) == call' = [call EXCEPT ![c] = Idle]

--------------------------------------------------------------------------------
(* request() *)

Request(c, r, q) ==
  /\ status[r] = "none"
  /\ Start(c, Begin("audit", r, None, "request", {}))
  /\ status' = [status EXCEPT ![r] = "pending"]
  /\ required' = [required EXCEPT ![r] = q]
  /\ expiresAt' = [expiresAt EXCEPT ![r] = Deadline(clock)]
  /\ UNCHANGED <<consumed, votes, audit, clock, crashes, history>>

(* approve(), deny(), decide(): resolve() reads the row, then takes one of
   three paths. *)

\* The row is overdue: markExpired, then the call throws.
ResolveOverdue(c, r) ==
  /\ status[r] = "pending" /\ expiresAt[r] <= clock
  /\ Start(c, Begin("expire", r, None, "none", {r}))
  /\ UNCHANGED <<row, votes, audit, clock, crashes, history>>

\* A denial, or the approval of a request that needs one approver, who may be
\* unnamed and may be the requester.
ResolveOne(c, r, p, decision) ==
  /\ status[r] = "pending" /\ expiresAt[r] > clock
  /\ decision = "approved" => required[r] = 1
  /\ Start(c, Begin("decide", r, p, decision, {}))
  /\ UNCHANGED <<row, votes, audit, clock, crashes, history>>

\* An approval of a quorum request: castQuorumApproval by a named approver.
ResolveQuorum(c, r, p) ==
  /\ status[r] = "pending" /\ expiresAt[r] > clock
  /\ required[r] > 1
  /\ Start(c, Begin("list", r, p, "none", {}))
  /\ UNCHANGED <<row, votes, audit, clock, crashes, history>>

\* One conditional UPDATE settles the request; losing the race throws.
Decide(c) ==
  LET r == call[c].req IN
  /\ At(c, "decide")
  /\ \/ /\ Decidable(r, call[c].now)
        /\ status' = [status EXCEPT ![r] = call[c].event]
        /\ Go(c, "audit")
     \/ /\ ~Decidable(r, call[c].now)
        /\ Return(c)
        /\ UNCHANGED status
  /\ UNCHANGED <<required, expiresAt, consumed, votes, audit, clock, crashes, history>>

--------------------------------------------------------------------------------
(* castApproval(): one approver's vote on a quorum request.  The clock is read
   once, before the first statement, and used to the end. *)

\* Neither the requester nor a duplicate, as the vote list reads now.
MayVote(r, p) == p \notin Requesters /\ p \notin Names(votes[r])

ListVotes(c) ==
  /\ At(c, "list")
  /\ \/ /\ MayVote(call[c].req, call[c].by)
        /\ Go(c, "insert")
     \/ /\ ~MayVote(call[c].req, call[c].by)
        /\ Return(c)
  /\ UNCHANGED <<row, votes, audit, clock, crashes, history>>

InsertVoteUpsert(c) ==
  LET r == call[c].req
      p == call[c].by IN
  /\ At(c, "insert")
  /\ votes' = [votes EXCEPT ![r] = @ \cup {[by |-> p, at |-> call[c].now]}]
  /\ backers' = [backers EXCEPT ![r] = @ \cup {p}]
  /\ Go(c, "count")
  /\ UNCHANGED <<row, audit, clock, crashes, spends>>
\* The primary key (approval_id, approver_id) refuses a second vote.
InsertVote(c) ==
  LET r == call[c].req
      p == call[c].by IN
  /\ At(c, "insert")
  /\ \/ /\ p \notin Names(votes[r])
        /\ votes' = [votes EXCEPT ![r] = @ \cup {[by |-> p, at |-> call[c].now]}]
        /\ backers' = [backers EXCEPT ![r] = @ \cup {p}]
        /\ Go(c, "count")
     \/ /\ p \in Names(votes[r])
        /\ Return(c)
        /\ UNCHANGED <<votes, backers>>
  /\ UNCHANGED <<row, audit, clock, crashes, spends>>

\* The votes are listed again, and this list is what the call goes by.
CountVotes(c) ==
  LET r == call[c].req
      next == IF Complete(required[r], votes[r]) THEN "flip" ELSE "fresh" IN
  /\ At(c, "count")
  /\ call' = [call EXCEPT ![c].pc = next, ![c].counted = votes[r]]
  /\ UNCHANGED <<row, votes, audit, clock, crashes, history>>

\* Too few so far: the vote stands if the request is still open.
ReadFresh(c) ==
  /\ At(c, "fresh")
  /\ \/ /\ Decidable(call[c].req, call[c].now)
        /\ GoAudit(c, "vote")
     \/ /\ ~Decidable(call[c].req, call[c].now)
        /\ Go(c, "withdraw")
  /\ UNCHANGED <<row, votes, audit, clock, crashes, history>>

\* The quorum is complete: one conditional UPDATE approves the request.
Flip(c) ==
  LET r == call[c].req IN
  /\ At(c, "flip")
  /\ \/ /\ Decidable(r, call[c].now)
        /\ status' = [status EXCEPT ![r] = "approved"]
        /\ GoAudit(c, "approved")
     \/ /\ ~Decidable(r, call[c].now)
        /\ Go(c, "after")
        /\ UNCHANGED status
  /\ UNCHANGED <<required, expiresAt, consumed, votes, audit, clock, crashes, history>>

\* Someone settled it first, and approved it on a quorum this voter is part of.
VoteIsReal(c) ==
  LET r == call[c].req IN
  status[r] = "approved" /\ call[c].by \in Names(First(required[r], call[c].counted))

ReadAfter(c) ==
  /\ At(c, "after")
  /\ IF VoteIsReal(c) THEN GoAudit(c, "approved") ELSE Go(c, "withdraw")
  /\ UNCHANGED <<row, votes, audit, clock, crashes, history>>

\* The vote is deleted and the call throws.
Withdraw(c) ==
  LET r == call[c].req IN
  /\ At(c, "withdraw")
  /\ votes' = [votes EXCEPT ![r] = {v \in @ : v.by # call[c].by}]
  /\ Return(c)
  /\ UNCHANGED <<row, audit, clock, crashes, history>>

--------------------------------------------------------------------------------
(* cleanup() and markExpired() *)

Cleanup(c) ==
  LET overdue == {r \in Requests : status[r] = "pending" /\ expiresAt[r] < clock} IN
  /\ overdue # {}
  /\ Start(c, Begin("expire", None, None, "none", overdue))
  /\ UNCHANGED <<row, votes, audit, clock, crashes, history>>

\* One row of the batch: only a row that is still pending flips.
ExpireRow(c) ==
  /\ At(c, "expire")
  /\ \E r \in call[c].batch :
       LET rest == [call[c] EXCEPT !.batch = @ \ {r}, !.req = r, !.event = "expired"] IN
       \/ /\ Expirable(r)
          /\ status' = [status EXCEPT ![r] = "expired"]
          /\ call' = [call EXCEPT ![c] = [rest EXCEPT !.pc = "audit"]]
       \/ /\ ~Expirable(r)
          /\ call' = [call EXCEPT ![c] = IF rest.batch = {} THEN Idle ELSE rest]
          /\ UNCHANGED status
  /\ UNCHANGED <<required, expiresAt, consumed, votes, audit, clock, crashes, history>>

--------------------------------------------------------------------------------
(* The audit row of what was just done is a statement of its own; after it the
   call returns its answer, or goes on with its batch. *)

Audit(c) ==
  LET l == call[c] IN
  /\ At(c, "audit")
  /\ audit' = audit \cup {[req |-> l.req, event |-> l.event, by |-> l.by]}
  /\ IF l.batch # {} THEN Go(c, "expire") ELSE Return(c)
  /\ UNCHANGED <<row, votes, clock, crashes, history>>

(* consumeApproval() *)

\* The first read only chooses a refusal code.  The clock is read with the row.
ConsumeRead(c, r) ==
  /\ Spendable(r, clock)
  /\ Start(c, Begin("spend", r, None, "none", {}))
  /\ UNCHANGED <<row, votes, audit, clock, crashes, history>>

Spend(c) ==
  LET r == call[c].req IN
  /\ At(c, "spend")
  /\ \/ /\ Spendable(r, call[c].now)
        /\ consumed' = [consumed EXCEPT ![r] = TRUE]
        /\ spends' = [spends EXCEPT ![r] = @ + 1]
     \/ /\ ~Spendable(r, call[c].now)
        /\ UNCHANGED <<consumed, spends>>
  /\ Return(c)
  /\ UNCHANGED <<status, required, expiresAt, votes, audit, clock, crashes, backers>>

--------------------------------------------------------------------------------

\* The process running the call dies, or a statement of it throws.
Crash(c) ==
  /\ call[c] # Idle
  /\ crashes < MaxCrashes
  /\ crashes' = crashes + 1
  /\ Return(c)
  /\ UNCHANGED <<row, votes, audit, clock, history>>

Tick ==
  /\ clock < MaxTime
  /\ clock' = clock + 1
  /\ UNCHANGED <<row, votes, audit, call, crashes, history>>

NewCall(c) ==
  \/ Cleanup(c)
  \/ \E r \in Requests :
       \/ \E q \in Quorums : Request(c, r, q)
       \/ ResolveOverdue(c, r)
       \/ \E p \in People \cup {None}, d \in {"approved", "denied"} : ResolveOne(c, r, p, d)
       \/ \E p \in People : ResolveQuorum(c, r, p)
       \/ ConsumeRead(c, r)

\* A call under way runs its next statement.
Continue(c) ==
  \/ Decide(c) \/ ListVotes(c) \/ InsertVote(c) \/ CountVotes(c) \/ ReadFresh(c)
  \/ Flip(c) \/ ReadAfter(c) \/ Withdraw(c) \/ ExpireRow(c) \/ Audit(c) \/ Spend(c)

Next == Tick \/ \E c \in Calls : NewCall(c) \/ Continue(c) \/ Crash(c)

Spec == Init /\ [][Next]_vars

\* The runtime resumes every awaited statement; nobody is obliged to call.
FairSpec == Spec /\ \A c \in Calls : WF_vars(Continue(c))

--------------------------------------------------------------------------------
(* Properties *)

\* An approved quorum request has been voted for by at least as many distinct
\* people as it asked for, none of them a requester, however the votes raced
\* with each other, with a denial, with the sweep and with crashes.
QuorumBehindApproval ==
  \A r \in Requests : status[r] = "approved" /\ required[r] > 1 =>
    Cardinality(backers[r]) >= required[r] /\ backers[r] \cap Requesters = {}

\* Of all the calls that try to spend one approval, at most one is told yes,
\* and only for a request that is approved: the reads before the UPDATE, which
\* may be stale, decide nothing.
SpentAtMostOnce ==
  \A r \in Requests : spends[r] <= 1 /\ (spends[r] = 1 => status[r] = "approved")

\* The trail tells the truth for ever after: a request audited as approved,
\* denied or expired is so, which leaves room for one outcome only.
AuditTellsOutcome ==
  \A a \in audit : a.event \in {"approved", "denied", "expired"} => status[a.req] = a.event

\* Whoever the trail says voted on a quorum request still has a recorded vote:
\* no vote is withdrawn once its caller has been told that it counts.
AuditedVotesStand ==
  \A a \in audit :
    a.event \in {"vote", "approved"} /\ required[a.req] > 1 => a.by \in Names(votes[a.req])

\* The code keeps the promises of an approval.
Lifecycle == INSTANCE ApprovalLifecycle WITH
  state <- [r \in Requests |-> IF consumed[r] THEN "spent" ELSE status[r]],
  needed <- required
LifecycleSpec == Lifecycle!Spec

Stuck(r) ==
  status[r] = "pending" /\ required[r] > 1 /\ Cardinality(votes[r]) >= required[r]
\* If no call is cut short, a request does not stay pending on a full quorum of
\* votes: of the voters that race, the one that lists last sees them all.
FullQuorumSettles == \A r \in Requests : Stuck(r) ~> (~Stuck(r) \/ crashes > 0)

\* What approval-quorum.test.ts says of two approvers that complete a quorum
\* together: the approved request lists as many approvers as it needed.
ApprovedListsItsQuorum ==
  \A r \in Requests : status[r] = "approved" /\ required[r] > 1 /\ call = [c \in Calls |-> Idle] =>
    Cardinality(votes[r]) >= required[r]
================================================================================

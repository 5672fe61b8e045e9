---------------------------- MODULE ApprovalsProofs ----------------------------
(***************************************************************************)
(* Theorems about Approvals for any people, requests, calls and bounds.    *)
(***************************************************************************)
EXTENDS Approvals, TLAPS, FiniteSetTheorems

(***************************************************************************)
(* Type correctness.                                                       *)
(***************************************************************************)

LEMMA IdleTyped == Idle \in Call
BY BoundAssumption DEF Idle, Call, Steps, Events, Time

LEMMA BeginTyped ==
  ASSUME NEW pc \in Steps, NEW r \in Requests \cup {None}, NEW p \in People \cup {None},
         NEW event \in Events, NEW batch \in SUBSET Requests, clock \in Time
  PROVE  Begin(pc, r, p, event, batch) \in Call
BY DEF Begin, Call


(***************************************************************************)
(* The inductive invariant: what the rows say of each other, and what each *)
(* step of a call may rely on.                                             *)
(***************************************************************************)

Outcomes == {"approved", "denied", "expired"}
Voting == {"insert", "count", "fresh", "flip", "after", "withdraw"}
OnePerPerson(vs) == \A u, v \in vs : u.by = v.by => u = v

RowOK(r) ==
  /\ IsFiniteSet(votes[r]) /\ IsFiniteSet(backers[r])
  /\ OnePerPerson(votes[r])
  /\ \A v \in votes[r] : v.by \in backers[r]
  /\ backers[r] \cap Requesters = {}
  /\ spends[r] = IF consumed[r] THEN 1 ELSE 0
  /\ consumed[r] => status[r] = "approved"
  /\ status[r] # "none" => required[r] \in Nat

\* The votes a call counted make a full quorum of backers.
CountedQuorum(l) ==
  /\ Cardinality(l.counted) >= required[l.req]
  /\ IsFiniteSet(l.counted) /\ OnePerPerson(l.counted)
  /\ \A v \in l.counted : v.by \in backers[l.req]

CallOK(l) ==
  /\ l.pc \in {"decide", "audit", "spend", "list"} \cup Voting =>
       l.req \in Requests /\ status[l.req] # "none"
  /\ l.pc \in {"list"} \cup Voting => l.by \in People /\ required[l.req] > 1
  /\ l.pc \in Voting => l.by \notin Requesters
  /\ l.pc = "decide" =>
       l.event \in {"approved", "denied"} /\ (l.event = "approved" => required[l.req] = 1)
  /\ l.pc = "audit" => l.event # "none" /\ (l.event \in Outcomes => status[l.req] = l.event)
  /\ l.pc \in {"flip", "after"} => CountedQuorum(l)

RowsOK == \A r \in Requests : RowOK(r)
CallsOK == \A c \in Calls : CallOK(call[c])
IInv == TypeOK /\ RowsOK /\ CallsOK /\ QuorumBehindApproval /\ AuditTellsOutcome

\* What no step undoes.
Forward ==
  \A r \in Requests :
    /\ status[r] # "none" => status'[r] # "none" /\ required'[r] = required[r]
    /\ status[r] \in Outcomes => status'[r] = status[r]
    /\ backers[r] \subseteq backers'[r]

\* A call that does not move keeps what it relies on.
LEMMA CallFrame ==
  ASSUME TypeOK, CallsOK, Forward, NEW d \in Calls, call'[d] = call[d]
  PROVE  CallOK(call[d])'
<1> DEFINE l == call[d]
<1>1. CallOK(l) /\ l \in Call
  BY DEF CallsOK, TypeOK
<1>2. CASE l.pc \in {"decide", "audit", "spend", "list"} \cup Voting
  <2>1. l.req \in Requests /\ status[l.req] # "none"
    BY <1>1, <1>2 DEF CallOK
  <2>2. /\ status'[l.req] # "none" /\ required'[l.req] = required[l.req]
        /\ status[l.req] \in Outcomes => status'[l.req] = status[l.req]
        /\ backers[l.req] \subseteq backers'[l.req]
    BY <2>1 DEF Forward
  <2>3. CountedQuorum(l) => CountedQuorum(l)'
    BY <2>2 DEF CountedQuorum
  <2> QED
    BY <1>1, <2>1, <2>2, <2>3 DEF CallOK
<1>3. CASE l.pc \notin {"decide", "audit", "spend", "list"} \cup Voting
  BY <1>3 DEF CallOK, Voting
<1> QED
  BY <1>2, <1>3

\* A full quorum of votes, one per person, is a full quorum of people.
LEMMA CountedAreBackers ==
  ASSUME NEW vs, NEW ps, IsFiniteSet(vs), IsFiniteSet(ps), OnePerPerson(vs),
         \A v \in vs : v.by \in ps
  PROVE  Cardinality(vs) <= Cardinality(ps)
<1>1. Cardinality(vs) \in Nat /\ Cardinality(ps) \in Nat
  BY FS_CardinalityType
<1>2. SUFFICES ASSUME Cardinality(ps) < Cardinality(vs) PROVE FALSE
  BY <1>1
<1>3. PICK by \in [vs -> ps] : \A v \in vs : by[v] = v.by
  <2>1. [v \in vs |-> v.by] \in [vs -> ps]
    OBVIOUS
  <2> QED
    BY <2>1
<1>4. \E u, v \in vs : u # v /\ by[u] = by[v]
  BY <1>2, FS_PigeonHole
<1> QED
  BY <1>3, <1>4 DEF OnePerPerson

\* A step that leaves every table alone, moves call c only, and leaves c with
\* locals it may rely on.
LEMMA LocalStep ==
  ASSUME IInv, NEW c \in Calls, NEW l \in Call, CallOK(l),
         call' = [call EXCEPT ![c] = l],
         UNCHANGED <<row, votes, audit, clock, history>>,
         crashes' \in 0..MaxCrashes
  PROVE  IInv'
<1>1. TypeOK'
  BY DEF IInv, TypeOK, row, history
<1>2. RowsOK' /\ QuorumBehindApproval' /\ AuditTellsOutcome'
  BY DEF IInv, RowsOK, RowOK, QuorumBehindApproval, AuditTellsOutcome, row, history
<1>3. ASSUME NEW d \in Calls PROVE CallOK(call[d])'
  <2>1. CallOK(l)'
    BY DEF CallOK, CountedQuorum, row, history
  <2>2. call'[d] = IF d = c THEN l ELSE call[d]
    BY DEF IInv, TypeOK
  <2>3. CASE d # c
    BY <2>2, <2>3, CallFrame DEF IInv, Forward, row, history
  <2> QED
    BY <2>1, <2>2, <2>3 DEF CallOK, CountedQuorum
<1> QED
  BY <1>1, <1>2, <1>3 DEF IInv, CallsOK

LEMMA IdleOK == CallOK(Idle)
BY DEF CallOK, Idle, Voting

\* A call starts.
LEMMA NewCallStep ==
  ASSUME IInv, NEW c \in Calls, NewCall(c)
  PROVE  IInv'
<1> USE BeginTyped DEF Start, Steps, Events
<1>0. TypeOK /\ clock \in Time /\ crashes \in 0..MaxCrashes
  BY DEF IInv, TypeOK
<1>1. CASE Cleanup(c)
  <2> DEFINE overdue == {r \in Requests : status[r] = "pending" /\ expiresAt[r] < clock}
             l == Begin("expire", None, None, "none", overdue)
  <2>1. l \in Call
    BY <1>0
  <2>2. CallOK(l)
    BY DEF Begin, CallOK, Voting
  <2> QED
    BY <1>0, <1>1, <2>1, <2>2, LocalStep DEF Cleanup
<1>2. ASSUME NEW r \in Requests, NEW q \in Quorums, Request(c, r, q) PROVE IInv'
  <2> DEFINE l == Begin("audit", r, None, "request", {})
  <2>1. l \in Call /\ Deadline(clock) \in 0..(MaxTime + Ttl)
    BY <1>0, BoundAssumption DEF Deadline, Time
  <2>2. TypeOK'
    BY <1>0, <1>2, <2>1 DEF Request, TypeOK, row, history
  <2>3. Forward
    BY <1>0, <1>2 DEF Request, Forward, TypeOK, row, history, Outcomes
  <2>4. RowsOK'
    BY <1>0, <1>2, QuorumAssumption DEF IInv, Request, TypeOK, RowsOK, RowOK, row, history
  <2>5. QuorumBehindApproval' /\ AuditTellsOutcome'
    BY <1>0, <1>2 DEF IInv, Request, TypeOK, QuorumBehindApproval, AuditTellsOutcome,
                      AuditRow, row, history
  <2>6. ASSUME NEW d \in Calls PROVE CallOK(call[d])'
    <3>1. CASE d = c
      BY <1>0, <1>2, <3>1 DEF Request, Begin, CallOK, TypeOK, Voting, Outcomes
    <3>2. CASE d # c
      BY <1>0, <1>2, <2>3, <3>2, CallFrame DEF IInv, Request, TypeOK
    <3> QED
      BY <3>1, <3>2
  <2> QED
    BY <2>2, <2>4, <2>5, <2>6 DEF IInv, CallsOK
<1>3. ASSUME NEW r \in Requests, ResolveOverdue(c, r) PROVE IInv'
  <2> DEFINE l == Begin("expire", r, None, "none", {r})
  <2>1. l \in Call
    BY <1>0
  <2>2. CallOK(l)
    BY DEF Begin, CallOK, Voting
  <2> QED
    BY <1>0, <1>3, <2>1, <2>2, LocalStep DEF ResolveOverdue
<1>4. ASSUME NEW r \in Requests, NEW p \in People \cup {None}, NEW d \in {"approved", "denied"},
             ResolveOne(c, r, p, d)
      PROVE  IInv'
  <2> DEFINE l == Begin("decide", r, p, d, {})
  <2>1. l \in Call
    BY <1>0
  <2>2. CallOK(l)
    BY <1>4 DEF ResolveOne, Begin, CallOK, Voting
  <2> QED
    BY <1>0, <1>4, <2>1, <2>2, LocalStep DEF ResolveOne
<1>5. ASSUME NEW r \in Requests, NEW p \in People, ResolveQuorum(c, r, p) PROVE IInv'
  <2> DEFINE l == Begin("list", r, p, "none", {})
  <2>1. l \in Call
    BY <1>0
  <2>2. CallOK(l)
    BY <1>5 DEF ResolveQuorum, Begin, CallOK, Voting
  <2> QED
    BY <1>0, <1>5, <2>1, <2>2, LocalStep DEF ResolveQuorum
<1>6. ASSUME NEW r \in Requests, ConsumeRead(c, r) PROVE IInv'
  <2> DEFINE l == Begin("spend", r, None, "none", {})
  <2>1. l \in Call
    BY <1>0
  <2>2. CallOK(l)
    BY <1>6 DEF ConsumeRead, Spendable, Begin, CallOK, Voting
  <2> QED
    BY <1>0, <1>6, <2>1, <2>2, LocalStep DEF ConsumeRead
<1> QED
  BY <1>1, <1>2, <1>3, <1>4, <1>5, <1>6 DEF NewCall

\* Call c runs a statement that changes nothing but its own locals.
LEMMA ReadStep ==
  ASSUME IInv, NEW c \in Calls,
         ListVotes(c) \/ CountVotes(c) \/ ReadFresh(c) \/ ReadAfter(c) \/ Crash(c)
  PROVE  IInv'
<1> USE DEF At, Go, GoAudit, Return
<1>0. /\ TypeOK /\ clock \in Time /\ crashes \in 0..MaxCrashes
      /\ call[c] \in Call /\ CallOK(call[c])
      /\ call[c].req \in Requests => RowOK(call[c].req)
  BY DEF IInv, TypeOK, CallsOK, RowsOK
<1>1. SUFFICES \E l \in Call : CallOK(l) /\ call' = [call EXCEPT ![c] = l]
  <2>1. crashes' \in 0..MaxCrashes
    BY <1>0, BoundAssumption DEF Crash, ListVotes, CountVotes, ReadFresh, ReadAfter
  <2>2. UNCHANGED <<row, votes, audit, clock, history>>
    BY DEF Crash, ListVotes, CountVotes, ReadFresh, ReadAfter
  <2> QED
    BY <1>1, <2>1, <2>2, LocalStep
<1>2. CASE call' = [call EXCEPT ![c] = Idle]
  BY <1>2, IdleTyped, IdleOK
<1>3. CASE call' # [call EXCEPT ![c] = Idle]
  <2>1. CASE ListVotes(c)
    <3> DEFINE l == [call[c] EXCEPT !.pc = "insert"]
    <3>1. l \in Call /\ CallOK(l)
      BY <1>0, <1>3, <2>1 DEF ListVotes, MayVote, Call, Steps, CallOK, Voting
    <3> QED
      BY <1>0, <1>3, <2>1, <3>1 DEF ListVotes, TypeOK
  <2>2. CASE CountVotes(c)
    <3> DEFINE r == call[c].req
               next == IF Complete(required[r], votes[r]) THEN "flip" ELSE "fresh"
               l == [call[c] EXCEPT !.pc = next, !.counted = votes[r]]
    <3>1. r \in Requests /\ RowOK(r) /\ votes[r] \in SUBSET Vote
      BY <1>0, <2>2 DEF CountVotes, CallOK, Voting, TypeOK
    <3>2. l \in Call
      BY <1>0, <3>1 DEF Call, Steps
    <3>3. next = "flip" => CountedQuorum(l)
      BY <1>0, <3>1, <3>2 DEF RowOK, CountedQuorum, Complete, Call
    <3>4. CallOK(l)
      BY <1>0, <2>2, <3>3 DEF CountVotes, CallOK, Voting, Call
    <3> QED
      BY <1>0, <2>2, <3>2, <3>4 DEF CountVotes, TypeOK
  <2>3. CASE ReadFresh(c)
    <3> DEFINE e == IF Decidable(call[c].req, call[c].now)
                    THEN [call[c] EXCEPT !.pc = "audit", !.event = "vote"]
                    ELSE [call[c] EXCEPT !.pc = "withdraw"]
    <3>1. e \in Call /\ CallOK(e)
      BY <1>0, <2>3 DEF ReadFresh, Call, Steps, Events, CallOK, Voting, Outcomes
    <3> QED
      BY <1>0, <2>3, <3>1 DEF ReadFresh, TypeOK
  <2>4. CASE ReadAfter(c)
    <3> DEFINE e == IF VoteIsReal(c)
                    THEN [call[c] EXCEPT !.pc = "audit", !.event = "approved"]
                    ELSE [call[c] EXCEPT !.pc = "withdraw"]
    <3>1. e \in Call /\ CallOK(e)
      BY <1>0, <2>4 DEF ReadAfter, VoteIsReal, Call, Steps, Events, CallOK, Voting, Outcomes
    <3> QED
      BY <1>0, <2>4, <3>1 DEF ReadAfter, TypeOK
  <2> QED
    BY <1>3, <2>1, <2>2, <2>3, <2>4 DEF Crash
<1> QED
  BY <1>2, <1>3

\* An open request is settled, on a full quorum if that is what approves it,
\* and the call that settled it goes on to write the audit row.
LEMMA SettleStep ==
  ASSUME IInv, NEW c \in Calls, NEW r \in Requests, NEW s \in Outcomes, NEW l \in Call,
         status[r] = "pending",
         s = "approved" /\ required[r] > 1 => Cardinality(backers[r]) >= required[r],
         status' = [status EXCEPT ![r] = s],
         call' = [call EXCEPT ![c] = l],
         l.pc = "audit" /\ l.req = r /\ l.event = s,
         UNCHANGED <<required, expiresAt, consumed, votes, audit, clock, crashes, history>>
  PROVE  IInv'
<1>0. TypeOK
  BY DEF IInv
<1>1. TypeOK'
  BY <1>0 DEF TypeOK, Outcomes, history
<1>2. Forward
  BY <1>0 DEF Forward, TypeOK, Outcomes, history
<1>3. RowsOK'
  BY <1>0 DEF IInv, TypeOK, RowsOK, RowOK, Outcomes, history
<1>4. QuorumBehindApproval'
  BY <1>0 DEF IInv, TypeOK, QuorumBehindApproval, RowsOK, RowOK, history
<1>5. AuditTellsOutcome'
  BY <1>0 DEF IInv, TypeOK, AuditTellsOutcome, AuditRow, history
<1>6. ASSUME NEW d \in Calls PROVE CallOK(call[d])'
  <2>1. CASE d = c
    BY <1>0, <2>1 DEF TypeOK, CallOK, Voting, Outcomes
  <2>2. CASE d # c
    BY <1>0, <1>2, <2>2, CallFrame DEF IInv, TypeOK
  <2> QED
    BY <2>1, <2>2
<1> QED
  BY <1>1, <1>3, <1>4, <1>5, <1>6 DEF IInv, CallsOK

\* decide, flip and expire are the statements that may settle a request.
LEMMA SettlingStep ==
  ASSUME IInv, NEW c \in Calls, Decide(c) \/ Flip(c) \/ ExpireRow(c)
  PROVE  IInv'
<1> USE DEF At, Go, GoAudit, Return
<1> DEFINE l == call[c]
           r == call[c].req
<1>0. TypeOK /\ l \in Call /\ CallOK(l) /\ clock \in Time /\ crashes \in 0..MaxCrashes
  BY DEF IInv, TypeOK, CallsOK
<1>1. CASE Decide(c)
  <2>1. r \in Requests /\ l.event \in {"approved", "denied"}
        /\ (l.event = "approved" => required[r] = 1)
    BY <1>0, <1>1 DEF Decide, CallOK
  <2>2. CASE Decidable(r, l.now)
    <3> DEFINE m == [l EXCEPT !.pc = "audit"]
    <3>1. m \in Call /\ m.pc = "audit" /\ m.req = r /\ m.event = l.event
      BY <1>0 DEF Call, Steps
    <3>2. call' = [call EXCEPT ![c] = m] /\ status' = [status EXCEPT ![r] = l.event]
      BY <1>0, <1>1, <2>2 DEF Decide, TypeOK
    <3>3. UNCHANGED <<required, expiresAt, consumed, votes, audit, clock, crashes, history>>
      BY <1>1 DEF Decide
    <3>4. status[r] = "pending" /\ l.event \in Outcomes
      BY <2>1, <2>2 DEF Decidable, Outcomes
    <3>5. l.event = "approved" /\ required[r] > 1 => FALSE
      BY <2>1
    <3> HIDE DEF m
    <3> QED
      BY <2>1, <3>1, <3>2, <3>3, <3>4, <3>5, SettleStep
  <2>3. CASE ~Decidable(r, l.now)
    <3>1. call' = [call EXCEPT ![c] = Idle] /\ UNCHANGED <<row, votes, audit, clock, history>>
      BY <1>1, <2>3 DEF Decide, row
    <3> QED
      BY <1>0, <1>1, <3>1, IdleTyped, IdleOK, LocalStep DEF Decide
  <2> QED
    BY <2>2, <2>3
<1>2. CASE Flip(c)
  <2>1. r \in Requests /\ CountedQuorum(l)
    BY <1>0, <1>2 DEF Flip, CallOK, Voting
  <2>2. CASE Decidable(r, l.now)
    <3> DEFINE m == [l EXCEPT !.pc = "audit", !.event = "approved"]
    <3>1. m \in Call /\ m.pc = "audit" /\ m.req = r /\ m.event = "approved"
      BY <1>0 DEF Call, Steps, Events
    <3>2. call' = [call EXCEPT ![c] = m] /\ status' = [status EXCEPT ![r] = "approved"]
      BY <1>0, <1>2, <2>2 DEF Flip, TypeOK
    <3>3. Cardinality(backers[r]) >= required[r]
      <4>1. IsFiniteSet(backers[r]) /\ required[r] \in Nat
        BY <2>1, <2>2 DEF IInv, RowsOK, RowOK, Decidable
      <4>2. Cardinality(l.counted) <= Cardinality(backers[r])
        BY <2>1, <4>1, CountedAreBackers DEF CountedQuorum
      <4>3. Cardinality(l.counted) \in Nat /\ Cardinality(backers[r]) \in Nat
        BY <2>1, <4>1, FS_CardinalityType DEF CountedQuorum
      <4> QED
        BY <2>1, <4>1, <4>2, <4>3 DEF CountedQuorum
    <3> QED
      BY <1>2, <2>1, <2>2, <3>1, <3>2, <3>3, SettleStep DEF Flip, Decidable, Outcomes
  <2>3. CASE ~Decidable(r, l.now)
    <3> DEFINE m == [l EXCEPT !.pc = "after"]
    <3>1. m \in Call /\ CallOK(m)
      BY <1>0, <1>2 DEF Flip, Call, Steps, CallOK, Voting, CountedQuorum
    <3>2. call' = [call EXCEPT ![c] = m] /\ UNCHANGED <<row, votes, audit, clock, history>>
      BY <1>0, <1>2, <2>3 DEF Flip, TypeOK, row
    <3> QED
      BY <1>0, <1>2, <3>1, <3>2, LocalStep DEF Flip
  <2> QED
    BY <2>2, <2>3
<1>3. CASE ExpireRow(c)
  <2>1. PICK x \in l.batch :
          LET rest == [l EXCEPT !.batch = @ \ {x}, !.req = x, !.event = "expired"] IN
          \/ /\ Expirable(x)
             /\ status' = [status EXCEPT ![x] = "expired"]
             /\ call' = [call EXCEPT ![c] = [rest EXCEPT !.pc = "audit"]]
          \/ /\ ~Expirable(x)
             /\ call' = [call EXCEPT ![c] = IF rest.batch = {} THEN Idle ELSE rest]
             /\ UNCHANGED status
    BY <1>3 DEF ExpireRow
  <2> DEFINE rest == [l EXCEPT !.batch = @ \ {x}, !.req = x, !.event = "expired"]
  <2>2. x \in Requests /\ rest \in Call /\ rest.pc = "expire"
    BY <1>0, <1>3 DEF ExpireRow, Call, Events
  <2>3. CASE Expirable(x)
    <3> DEFINE m == [rest EXCEPT !.pc = "audit"]
    <3>1. m \in Call /\ m.pc = "audit" /\ m.req = x /\ m.event = "expired"
      BY <1>0, <2>2 DEF Call, Steps
    <3>2. call' = [call EXCEPT ![c] = m] /\ status' = [status EXCEPT ![x] = "expired"]
      BY <2>1, <2>3
    <3>3. UNCHANGED <<required, expiresAt, consumed, votes, audit, clock, crashes, history>>
      BY <1>3 DEF ExpireRow
    <3>4. status[x] = "pending" /\ "expired" \in Outcomes
      BY <2>3 DEF Expirable, Outcomes
    <3> HIDE DEF m
    <3> QED
      BY <2>2, <3>1, <3>2, <3>3, <3>4, SettleStep
  <2>4. CASE ~Expirable(x)
    <3>1. CallOK(rest)
      BY <2>2 DEF CallOK, Voting
    <3>2. PICK m \in Call : CallOK(m) /\ call' = [call EXCEPT ![c] = m]
      BY <2>1, <2>2, <2>4, <3>1, IdleTyped, IdleOK
    <3>3. UNCHANGED <<row, votes, audit, clock, history>>
      BY <1>3, <2>1, <2>4 DEF ExpireRow, row
    <3> QED
      BY <1>0, <1>3, <3>2, <3>3, LocalStep DEF ExpireRow
  <2> QED
    BY <2>3, <2>4
<1> QED
  BY <1>1, <1>2, <1>3

\* The statements that write votes, the trail and the spend.
LEMMA WritingStep ==
  ASSUME IInv, NEW c \in Calls,
         InsertVote(c) \/ Withdraw(c) \/ Audit(c) \/ Spend(c)
  PROVE  IInv'
<1> USE DEF At, Go, GoAudit, Return
<1>a. PICK l : l = call[c]
  OBVIOUS
<1> DEFINE r == l.req
           p == l.by
<1>0. /\ TypeOK /\ l \in Call /\ l = call[c] /\ CallOK(l) /\ IInv
      /\ clock \in Time /\ crashes \in 0..MaxCrashes
      /\ r \in Requests /\ status[r] # "none" /\ RowOK(r)
  <2>1. l.pc \in {"insert", "withdraw", "audit", "spend"}
    BY <1>a DEF InsertVote, Withdraw, Audit, Spend
  <2> QED
    BY <1>a, <2>1 DEF IInv, TypeOK, CallsOK, CallOK, RowsOK, Voting
<1>1. CASE InsertVote(c) /\ p \notin Names(votes[r])
  <2> DEFINE v == [by |-> p, at |-> l.now]
             m == [l EXCEPT !.pc = "count"]
  <2>1. p \in People /\ p \notin Requesters /\ v \in Vote /\ m \in Call
    BY <1>0, <1>1 DEF InsertVote, CallOK, Voting, Vote, Call, Steps
  <2>2. /\ votes' = [votes EXCEPT ![r] = @ \cup {v}]
        /\ backers' = [backers EXCEPT ![r] = @ \cup {p}]
        /\ call' = [call EXCEPT ![c] = m]
        /\ UNCHANGED <<row, audit, clock, crashes, spends>>
    BY <1>0, <1>1 DEF InsertVote, TypeOK
  <2>3. TypeOK'
    BY <1>0, <2>1, <2>2 DEF TypeOK, row
  <2>4. Forward
    BY <1>0, <2>2 DEF Forward, TypeOK, row
  <2>5. IsFiniteSet(votes[r] \cup {v}) /\ IsFiniteSet(backers[r] \cup {p})
    BY <1>0, FS_AddElement DEF RowOK
  <2>6. OnePerPerson(votes[r] \cup {v})
    BY <1>0, <1>1 DEF RowOK, OnePerPerson, Names
  <2>7. RowOK(r)'
    <3>1. /\ votes'[r] = votes[r] \cup {v} /\ backers'[r] = backers[r] \cup {p}
          /\ UNCHANGED <<spends[r], consumed[r], status[r], required[r]>>
      BY <1>0, <2>2 DEF TypeOK, row
    <3> QED
      <4>1. v.by = p
        BY DEF Vote
      <4>2. \A u \in votes'[r] : u.by \in backers'[r]
        BY <1>0, <3>1, <4>1 DEF RowOK
      <4>3. backers'[r] \cap Requesters = {}
        BY <1>0, <2>1, <3>1 DEF RowOK
      <4>4. IsFiniteSet(votes'[r]) /\ IsFiniteSet(backers'[r]) /\ OnePerPerson(votes'[r])
        BY <2>5, <2>6, <3>1
      <4> QED
        BY <1>0, <3>1, <4>2, <4>3, <4>4 DEF RowOK
  <2>8. RowsOK'
    <3>1. ASSUME NEW q \in Requests, q # r PROVE RowOK(q)'
      BY <1>0, <2>2, <3>1 DEF IInv, TypeOK, RowsOK, RowOK, row
    <3> QED
      BY <2>7, <3>1 DEF RowsOK
  <2>9. QuorumBehindApproval'
    <3>1. ASSUME NEW q \in Requests, status[q] = "approved", required[q] > 1
          PROVE  Cardinality(backers'[q]) >= required[q] /\ backers'[q] \cap Requesters = {}
      <4>1. RowOK(q) /\ RowOK(q)'
        BY <1>0, <2>8 DEF IInv, RowsOK
      <4>2. Cardinality(backers[q]) >= required[q]
        BY <1>0, <3>1 DEF IInv, QuorumBehindApproval
      <4>3. IsFiniteSet(backers[q]) /\ IsFiniteSet(backers'[q]) /\ required[q] \in Nat
            /\ backers'[q] \cap Requesters = {}
        BY <3>1, <4>1 DEF RowOK
      <4>4. backers[q] \subseteq backers'[q]
        BY <2>4 DEF Forward
      <4>5. Cardinality(backers[q]) <= Cardinality(backers'[q])
        BY <4>3, <4>4, FS_Subset
      <4>6. Cardinality(backers[q]) \in Nat /\ Cardinality(backers'[q]) \in Nat
        BY <4>3, FS_CardinalityType
      <4> QED
        BY <4>2, <4>3, <4>5, <4>6
    <3>2. UNCHANGED <<status, required>>
      BY <2>2 DEF row
    <3> QED
      BY <3>1, <3>2 DEF QuorumBehindApproval
  <2>10. AuditTellsOutcome'
    BY <1>0, <2>2 DEF IInv, AuditTellsOutcome, row
  <2>11. ASSUME NEW d \in Calls PROVE CallOK(call[d])'
    <3>1. CASE d = c
      BY <1>0, <1>1, <2>2, <3>1 DEF InsertVote, TypeOK, CallOK, Voting, row, Call
    <3>2. CASE d # c
      BY <1>0, <2>2, <2>4, <3>2, CallFrame DEF IInv, TypeOK
    <3> QED
      BY <3>1, <3>2
  <2> QED
    BY <2>3, <2>8, <2>9, <2>10, <2>11 DEF IInv, CallsOK
<1>2. CASE InsertVote(c) /\ p \in Names(votes[r])
  <2>1. call' = [call EXCEPT ![c] = Idle] /\ UNCHANGED <<row, votes, audit, clock, history>>
        /\ crashes' = crashes
    BY <1>0, <1>2 DEF InsertVote, history
  <2> QED
    BY <1>0, <2>1, IdleTyped, IdleOK, LocalStep
<1>3. CASE Withdraw(c)
  <2> DEFINE rest == {v \in votes[r] : v.by # p}
  <2>1. /\ votes' = [votes EXCEPT ![r] = rest]
        /\ call' = [call EXCEPT ![c] = Idle]
        /\ UNCHANGED <<row, audit, clock, crashes, history>>
    BY <1>0, <1>3 DEF Withdraw, TypeOK
  <2>2. TypeOK' /\ Forward
    BY <1>0, <2>1, IdleTyped DEF TypeOK, Forward, row, history
  <2>3. RowsOK'
    <3>1. rest \subseteq votes[r]
      OBVIOUS
    <3>2. IsFiniteSet(rest)
      BY <1>0, <3>1, FS_Subset DEF RowOK
    <3>3. ASSUME NEW q \in Requests PROVE RowOK(q)'
      BY <1>0, <2>1, <3>1, <3>2 DEF IInv, TypeOK, RowsOK, RowOK, OnePerPerson, row, history
    <3> QED
      BY <3>3 DEF RowsOK
  <2>4. QuorumBehindApproval' /\ AuditTellsOutcome'
    BY <1>0, <2>1 DEF IInv, QuorumBehindApproval, AuditTellsOutcome, row, history
  <2>5. ASSUME NEW d \in Calls PROVE CallOK(call[d])'
    <3>1. CASE d = c
      BY <1>0, <2>1, <3>1 DEF TypeOK, CallOK, Idle, Voting
    <3>2. CASE d # c
      BY <1>0, <2>1, <2>2, <3>2, CallFrame DEF IInv, TypeOK
    <3> QED
      BY <3>1, <3>2
  <2> QED
    BY <2>2, <2>3, <2>4, <2>5 DEF IInv, CallsOK
<1>4. CASE Audit(c)
  <2> DEFINE a == [req |-> r, event |-> l.event, by |-> p]
             m == IF l.batch # {} THEN [l EXCEPT !.pc = "expire"] ELSE Idle
  <2>1. a \in AuditRow /\ m \in Call /\ CallOK(m)
    BY <1>0, <1>4, IdleTyped, IdleOK DEF Audit, AuditRow, Call, Steps, CallOK, Voting
  <2>2. /\ audit' = audit \cup {a} /\ call' = [call EXCEPT ![c] = m]
        /\ UNCHANGED <<row, votes, clock, crashes, history>>
    BY <1>0, <1>4 DEF Audit, TypeOK
  <2>3. TypeOK' /\ Forward
    BY <1>0, <2>1, <2>2 DEF TypeOK, Forward, row, history
  <2>4. RowsOK' /\ QuorumBehindApproval'
    BY <1>0, <2>2 DEF IInv, RowsOK, RowOK, QuorumBehindApproval, row, history
  <2>5. AuditTellsOutcome'
    BY <1>0, <1>4, <2>2 DEF Audit, IInv, AuditTellsOutcome, CallOK, Outcomes, row
  <2>6. ASSUME NEW d \in Calls PROVE CallOK(call[d])'
    <3>1. CASE d = c
      BY <1>0, <2>2, <3>1 DEF TypeOK, CallOK, Idle, Voting
    <3>2. CASE d # c
      BY <1>0, <2>2, <2>3, <3>2, CallFrame DEF IInv, TypeOK
    <3> QED
      BY <3>1, <3>2
  <2> QED
    BY <2>3, <2>4, <2>5, <2>6 DEF IInv, CallsOK
<1>5. CASE Spend(c) /\ Spendable(r, l.now)
  <2>1. /\ consumed' = [consumed EXCEPT ![r] = TRUE] /\ spends' = [spends EXCEPT ![r] = @ + 1]
        /\ call' = [call EXCEPT ![c] = Idle]
        /\ UNCHANGED <<status, required, expiresAt, votes, audit, clock, crashes, backers>>
    BY <1>0, <1>5 DEF Spend
  <2>2. spends[r] = 0 /\ status[r] = "approved"
    BY <1>0, <1>5 DEF RowOK, Spendable
  <2>3. TypeOK' /\ Forward
    BY <1>0, <2>1, <2>2, IdleTyped DEF TypeOK, Forward
  <2>4. RowsOK'
    BY <1>0, <2>1, <2>2 DEF IInv, TypeOK, RowsOK, RowOK
  <2>5. QuorumBehindApproval' /\ AuditTellsOutcome'
    BY <1>0, <2>1 DEF IInv, QuorumBehindApproval, AuditTellsOutcome
  <2>6. ASSUME NEW d \in Calls PROVE CallOK(call[d])'
    <3>1. CASE d = c
      BY <1>0, <2>1, <3>1 DEF TypeOK, CallOK, Idle, Voting
    <3>2. CASE d # c
      BY <1>0, <2>1, <2>3, <3>2, CallFrame DEF IInv, TypeOK
    <3> QED
      BY <3>1, <3>2
  <2> QED
    BY <2>3, <2>4, <2>5, <2>6 DEF IInv, CallsOK
<1>6. CASE Spend(c) /\ ~Spendable(r, l.now)
  <2>1. call' = [call EXCEPT ![c] = Idle] /\ UNCHANGED <<row, votes, audit, clock, history>>
        /\ crashes' = crashes
    BY <1>0, <1>6 DEF Spend, row, history
  <2> QED
    BY <1>0, <2>1, IdleTyped, IdleOK, LocalStep
<1> QED
  BY <1>1, <1>2, <1>3, <1>4, <1>5, <1>6

LEMMA Initially == Init => IInv
BY BoundAssumption, IdleTyped, IdleOK, FS_EmptySet
   DEF Init, IInv, TypeOK, RowsOK, RowOK, CallsOK, OnePerPerson, QuorumBehindApproval,
       AuditTellsOutcome, Time

LEMMA Inductive == IInv /\ [Next]_vars => IInv'
<1> SUFFICES ASSUME IInv, [Next]_vars PROVE IInv'
  OBVIOUS
<1>1. CASE UNCHANGED vars
  BY <1>1 DEF vars, row, history, IInv, TypeOK, RowsOK, RowOK, CallsOK, CallOK,
              CountedQuorum, QuorumBehindApproval, AuditTellsOutcome
<1>2. CASE Tick
  <2>1. TypeOK'
    BY <1>2, BoundAssumption DEF Tick, IInv, TypeOK, Time, row, history
  <2> QED
    BY <1>2, <2>1 DEF Tick, row, history, IInv, RowsOK, RowOK, CallsOK, CallOK,
                      CountedQuorum, QuorumBehindApproval, AuditTellsOutcome
<1>3. ASSUME NEW c \in Calls, NewCall(c) \/ Continue(c) \/ Crash(c) PROVE IInv'
  BY <1>3, NewCallStep, ReadStep, SettlingStep, WritingStep DEF Continue
<1> QED
  BY <1>1, <1>2, <1>3 DEF Next

\* Every reachable state satisfies the inductive invariant.
THEOREM Invariance == Spec => []IInv
BY Initially, Inductive, PTL DEF Spec

\* Every variable keeps its type, in every execution.
THEOREM TypeCorrect == Spec => []TypeOK
<1>1. IInv => TypeOK
  BY DEF IInv
<1> QED
  BY <1>1, Invariance, PTL

\* An approved quorum request has a full quorum of distinct people behind it,
\* none of them a requester.
THEOREM QuorumTheorem == Spec => []QuorumBehindApproval
<1>1. IInv => QuorumBehindApproval
  BY DEF IInv
<1> QED
  BY <1>1, Invariance, PTL

\* One approval is spent at most once, by whatever number of racing calls.
THEOREM SpendTheorem == Spec => []SpentAtMostOnce
<1>1. IInv => SpentAtMostOnce
  BY DEF IInv, RowsOK, RowOK, SpentAtMostOnce
<1> QED
  BY <1>1, Invariance, PTL

\* The trail never disagrees with the outcome of a request.
THEOREM TrailTheorem == Spec => []AuditTellsOutcome
<1>1. IInv => AuditTellsOutcome
  BY DEF IInv
<1> QED
  BY <1>1, Invariance, PTL

(***************************************************************************)
(* The code implements ApprovalLifecycle.                                  *)
(***************************************************************************)

Mapped == [r \in Requests |-> IF consumed[r] THEN "spent" ELSE status[r]]

\* A step that changes no status, spend, quorum or backer is a stutter.
LEMMA StutterStep ==
  ASSUME UNCHANGED <<status, required, consumed, backers>>
  PROVE  UNCHANGED Lifecycle!vars
BY DEF Lifecycle!vars

\* The lifecycle counts backers as the code does.
LEMMA SameCount == ASSUME NEW S PROVE Lifecycle!Cardinality(S) = Cardinality(S)
BY DEF Lifecycle!Cardinality, Cardinality

\* A step that settles an open request is an approval or a refusal.
LEMMA SettleMapped ==
  ASSUME IInv, NEW r \in Requests, NEW s \in Outcomes, status[r] = "pending",
         s = "approved" /\ required[r] > 1 => Cardinality(backers[r]) >= required[r],
         status' = [status EXCEPT ![r] = s], UNCHANGED <<required, consumed, backers>>
  PROVE  Lifecycle!Next
<1>1. ~consumed[r]
  BY DEF IInv, RowsOK, RowOK
<1>2. Mapped[r] = "pending" /\ Mapped' = [Mapped EXCEPT ![r] = s]
  BY <1>1 DEF Mapped, IInv, TypeOK
<1>3. CASE s = "approved"
  <2>1. required[r] > 1 => Cardinality(backers[r]) >= required[r]
    BY <1>3
  <2>2. Mapped[r] = "pending" /\ Mapped' = [Mapped EXCEPT ![r] = "approved"]
    BY <1>2, <1>3
  <2>3. Lifecycle!Approve(r)
    BY <2>1, <2>2, SameCount DEF Lifecycle!Approve, Mapped
  <2> QED
    BY <2>3 DEF Lifecycle!Next
<1>4. CASE s \in {"denied", "expired"}
  <2>1. Lifecycle!Refuse(r)
    BY <1>2, <1>4 DEF Lifecycle!Refuse, Mapped
  <2> QED
    BY <2>1 DEF Lifecycle!Next
<1> QED
  BY <1>3, <1>4 DEF Outcomes

LEMMA InitMapped == Init => Lifecycle!Init
BY DEF Init, Lifecycle!Init

LEMMA StepMapped == IInv /\ [Next]_vars => [Lifecycle!Next]_(Lifecycle!vars)
<1> SUFFICES ASSUME IInv, [Next]_vars PROVE Lifecycle!Next \/ UNCHANGED Lifecycle!vars
  OBVIOUS
<1>0. TypeOK /\ RowsOK /\ CallsOK
  BY DEF IInv
<1>1. CASE UNCHANGED vars
  BY <1>1, StutterStep DEF vars, row, history
<1>2. CASE Tick
  BY <1>2, StutterStep DEF Tick, row, history
<1>3. ASSUME NEW c \in Calls, Crash(c) PROVE UNCHANGED Lifecycle!vars
  BY <1>3, StutterStep DEF Crash, row, history
<1>4. ASSUME NEW c \in Calls, NewCall(c) PROVE Lifecycle!Next \/ UNCHANGED Lifecycle!vars
  <2>1. ASSUME NEW r \in Requests, NEW q \in Quorums, Request(c, r, q) PROVE Lifecycle!Next
    <3>1. Mapped[r] = "none" /\ Mapped' = [Mapped EXCEPT ![r] = "pending"]
      BY <1>0, <2>1 DEF Request, Mapped, RowsOK, RowOK, TypeOK
    <3> QED
      BY <2>1, <3>1 DEF Request, Lifecycle!Next, Lifecycle!Open, Mapped, history
  <2>2. ASSUME ~ \E r \in Requests, q \in Quorums : Request(c, r, q)
        PROVE  UNCHANGED Lifecycle!vars
    <3>1. UNCHANGED <<row, history>>
      BY <1>4, <2>2 DEF NewCall, Cleanup, ResolveOverdue, ResolveOne, ResolveQuorum, ConsumeRead
    <3> QED
      BY <3>1, StutterStep DEF row, history
  <2> QED
    BY <2>1, <2>2
<1>5. ASSUME NEW c \in Calls, Continue(c) PROVE Lifecycle!Next \/ UNCHANGED Lifecycle!vars
  <2> DEFINE l == call[c]
             r == call[c].req
  <2>0. l \in Call /\ CallOK(l)
    BY <1>0 DEF TypeOK, CallsOK
  <2>1. CASE ListVotes(c) \/ CountVotes(c) \/ ReadFresh(c) \/ ReadAfter(c) \/ Withdraw(c) \/ Audit(c)
    <3>1. UNCHANGED <<row, history>>
      BY <2>1 DEF ListVotes, CountVotes, ReadFresh, ReadAfter, Withdraw, Audit
    <3> QED
      BY <3>1, StutterStep DEF row, history
  <2>2. CASE InsertVote(c)
    <3>1. r \in Requests /\ status[r] # "none" /\ required[r] > 1
          /\ l.by \in People /\ l.by \notin Requesters
      BY <2>0, <2>2 DEF InsertVote, At, CallOK, Voting
    <3>2. CASE l.by \in Names(votes[r])
      BY <2>2, <3>2, StutterStep DEF InsertVote, row
    <3>3. CASE l.by \notin Names(votes[r])
      <4>1. backers' = [backers EXCEPT ![r] = @ \cup {l.by}] /\ UNCHANGED <<status, required, consumed>>
        BY <2>2, <3>3 DEF InsertVote, row
      <4>2. Mapped[r] # "none" /\ UNCHANGED Mapped
        BY <3>1, <4>1 DEF Mapped
      <4> QED
        BY <3>1, <4>1, <4>2 DEF Lifecycle!Next, Lifecycle!Back, Mapped
    <3> QED
      BY <3>2, <3>3
  <2>3. CASE Decide(c)
    <3>1. r \in Requests /\ l.event \in {"approved", "denied"}
          /\ (l.event = "approved" => required[r] = 1)
      BY <2>0, <2>3 DEF Decide, At, CallOK
    <3>2. CASE Decidable(r, l.now)
      BY <2>3, <3>1, <3>2, SettleMapped DEF Decide, Decidable, Outcomes, history
    <3>3. CASE ~Decidable(r, l.now)
      BY <2>3, <3>3, StutterStep DEF Decide, history
    <3> QED
      BY <3>2, <3>3
  <2>4. CASE Flip(c)
    <3>1. r \in Requests /\ CountedQuorum(l)
      BY <2>0, <2>4 DEF Flip, At, CallOK, Voting
    <3>2. CASE Decidable(r, l.now)
      <4>1. IsFiniteSet(backers[r]) /\ required[r] \in Nat
        BY <1>0, <3>1, <3>2 DEF RowsOK, RowOK, Decidable
      <4>2. Cardinality(l.counted) <= Cardinality(backers[r])
            /\ Cardinality(l.counted) \in Nat /\ Cardinality(backers[r]) \in Nat
        BY <3>1, <4>1, CountedAreBackers, FS_CardinalityType DEF CountedQuorum
      <4>3. Cardinality(backers[r]) >= required[r]
        BY <3>1, <4>1, <4>2 DEF CountedQuorum
      <4> QED
        BY <2>4, <3>1, <3>2, <4>3, SettleMapped DEF Flip, Decidable, Outcomes, history
    <3>3. CASE ~Decidable(r, l.now)
      BY <2>4, <3>3, StutterStep DEF Flip, history
    <3> QED
      BY <3>2, <3>3
  <2>5. CASE ExpireRow(c)
    <3>1. PICK x \in l.batch :
            \/ Expirable(x) /\ status' = [status EXCEPT ![x] = "expired"]
            \/ UNCHANGED status
      BY <2>5 DEF ExpireRow
    <3>2. x \in Requests
      BY <2>0 DEF Call
    <3> QED
      BY <2>5, <3>1, <3>2, SettleMapped, StutterStep DEF ExpireRow, Expirable, Outcomes, history
  <2>6. CASE Spend(c)
    <3>1. CASE Spendable(r, l.now)
      <4>1. r \in Requests
        BY <2>0, <2>6 DEF Spend, At, CallOK
      <4>2. Mapped[r] = "approved" /\ Mapped' = [Mapped EXCEPT ![r] = "spent"]
        BY <1>0, <2>6, <3>1, <4>1 DEF Spend, Spendable, Mapped, TypeOK
      <4> QED
        BY <2>6, <4>1, <4>2 DEF Spend, Lifecycle!Next, Lifecycle!Spend, Mapped
    <3>2. CASE ~Spendable(r, l.now)
      BY <2>6, <3>2, StutterStep DEF Spend
    <3> QED
      BY <3>1, <3>2
  <2> QED
    BY <1>5, <2>1, <2>2, <2>3, <2>4, <2>5, <2>6 DEF Continue
<1> QED
  BY <1>1, <1>2, <1>3, <1>4, <1>5 DEF Next

\* Every execution of the code, with its clock, calls, votes and trail hidden,
\* is one that the lifecycle of an approval allows.
THEOREM Implements == Spec => LifecycleSpec
BY InitMapped, StepMapped, Invariance, PTL DEF Spec, Lifecycle!Spec, LifecycleSpec


(***************************************************************************)
(* Votes the trail tells of.                                               *)
(*                                                                         *)
(* A vote is withdrawn by its own caller only: the primary key leaves one  *)
(* call that has inserted the vote of a person on a request, and that call *)
(* either withdraws it or goes on to the trail, never both.                *)
(***************************************************************************)

\* l has a recorded vote that it may still withdraw.
Casting(l) == l.pc \in Voting \ {"insert"}
Counts(event, r) == event \in {"vote", "approved"} /\ required[r] > 1
\* l is about to tell the trail of a vote.
Telling(l) == l.pc = "audit" /\ Counts(l.event, l.req)

\* Whoever casts or tells has a vote on record, and whoever casts is alone with it.
CastOK(c) ==
  LET l == call[c] IN
  /\ Casting(l) \/ Telling(l) => l.by \in Names(votes[l.req])
  /\ Casting(l) =>
       /\ \A d \in Calls \ {c} :
            Casting(call[d]) \/ Telling(call[d]) => call[d].req # l.req \/ call[d].by # l.by
       /\ \A a \in audit : Counts(a.event, a.req) => a.req # l.req \/ a.by # l.by

Recorded ==
  /\ \A c \in Calls : CastOK(c)
  /\ \A a \in audit : status[a.req] # "none"
  /\ AuditedVotesStand


\* What a call or a row says of a request stays so.
LEMMA CountsStay ==
  ASSUME IInv, Recorded, Forward
  PROVE  /\ \A d \in Calls : \A h : h = call[d] => (Telling(h)' <=> Telling(h))
         /\ \A a \in audit : /\ status'[a.req] # "none"
                             /\ Counts(a.event, a.req)' <=> Counts(a.event, a.req)
<1>1. ASSUME NEW d \in Calls, NEW h, h = call[d], h.pc = "audit"
      PROVE  required'[h.req] = required[h.req]
  <2>1. CallOK(h) BY <1>1 DEF IInv, CallsOK
  <2>2. h.req \in Requests /\ status[h.req] # "none" BY <1>1, <2>1 DEF CallOK
  <2> QED BY <2>2 DEF Forward
<1>2. ASSUME NEW a \in audit
      PROVE  status'[a.req] # "none" /\ required'[a.req] = required[a.req]
  <2>1. a.req \in Requests BY DEF IInv, TypeOK, AuditRow
  <2> QED BY <2>1 DEF Forward, Recorded
<1> QED BY <1>1, <1>2 DEF Telling, Counts

\* A step of call c, in which nobody's vote is lost and nobody's vote is shared.
LEMMA VoteStep ==
  ASSUME IInv, Recorded, Forward, NEW c \in Calls, NEW k, call' = [call EXCEPT ![c] = k],
         \A d \in Calls \ {c} : \A g : g = call[d] =>
           /\ Casting(g) \/ Telling(g) => g.by \in Names(votes'[g.req])
           /\ (Casting(k) \/ Telling(k)') /\ (Casting(k) \/ Casting(g)) /\ (Casting(g) \/ Telling(g))
                => g.req # k.req \/ g.by # k.by
           /\ Casting(g) => \A a \in audit' \ audit :
                Counts(a.event, a.req)' => a.req # g.req \/ a.by # g.by,
         Casting(k) \/ Telling(k)' => k.by \in Names(votes'[k.req]),
         Casting(k) => \A a \in audit' : Counts(a.event, a.req)' => a.req # k.req \/ a.by # k.by,
         \A a \in audit' : status'[a.req] # "none",
         AuditedVotesStand'
  PROVE  Recorded'
<1>1. \A d \in Calls : call'[d] = IF d = c THEN k ELSE call[d] BY DEF IInv, TypeOK
<1>2. /\ \A d \in Calls : \A h : h = call[d] => (Telling(h)' <=> Telling(h))
      /\ \A a \in audit : Counts(a.event, a.req)' <=> Counts(a.event, a.req)
  BY CountsStay
<1>3. ASSUME NEW d \in Calls
      PROVE  CastOK(d)'
  <2>1. PICK l : l = call'[d] OBVIOUS
  <2>2. Casting(l) \/ Telling(l)' => l.by \in Names(votes'[l.req])
    BY <1>1, <1>2, <2>1
  <2>3. ASSUME Casting(l), NEW e \in Calls \ {d}, NEW g, g = call'[e], Casting(g) \/ Telling(g)'
        PROVE  g.req # l.req \/ g.by # l.by
    <3>1. CASE d = c BY <1>1, <1>2, <2>1, <2>3, <3>1
    <3>2. CASE e = c BY <1>1, <2>1, <2>3, <3>2
    <3>3. CASE d # c /\ e # c
      <4>1. l = call[d] /\ g = call[e] BY <1>1, <2>1, <2>3, <3>3
      <4>2. Casting(call[d]) /\ (Casting(call[e]) \/ Telling(call[e])) BY <1>2, <2>3, <4>1
      <4> QED BY <2>3, <4>1, <4>2 DEF Recorded, CastOK
    <3> QED BY <3>1, <3>2, <3>3
  <2>4. ASSUME Casting(l), NEW a \in audit', Counts(a.event, a.req)'
        PROVE  a.req # l.req \/ a.by # l.by
    <3>1. CASE d = c BY <1>1, <2>1, <2>4, <3>1
    <3>2. CASE d # c /\ a \notin audit BY <1>1, <2>1, <2>4, <3>2
    <3>3. CASE d # c /\ a \in audit
      <4>1. l = call[d] /\ Counts(a.event, a.req) BY <1>1, <1>2, <2>1, <2>4, <3>3
      <4> QED BY <2>4, <3>3, <4>1 DEF Recorded, CastOK
    <3> QED BY <3>1, <3>2, <3>3
  <2> QED BY <2>1, <2>2, <2>3, <2>4 DEF CastOK, Casting, Telling, Counts
<1> QED BY <1>3 DEF Recorded

\* A step that writes no vote and no row, of a call whose own vote stays as it was.
LEMMA SameVotes ==
  ASSUME IInv, Recorded, Forward, NEW c \in Calls, NEW h, h = call[c],
         NEW k, call' = [call EXCEPT ![c] = k], UNCHANGED <<votes, audit>>,
         Casting(k) => Casting(h) /\ k.req = h.req /\ k.by = h.by,
         Telling(k)' => (Casting(h) \/ Telling(h)) /\ k.req = h.req /\ k.by = h.by
  PROVE  Recorded'
<1>1. \A a \in audit : /\ status'[a.req] # "none"
                       /\ Counts(a.event, a.req)' <=> Counts(a.event, a.req)
  BY CountsStay
<1>2. ASSUME NEW d \in Calls, NEW g, g = call[d], Casting(g) \/ Telling(g)
      PROVE  /\ g.by \in Names(votes'[g.req])
             /\ Casting(g) =>
                  /\ \A a \in audit : Counts(a.event, a.req) => a.req # g.req \/ a.by # g.by
                  /\ \A e \in Calls \ {d} : \A l : l = call[e] /\ (Casting(l) \/ Telling(l)) =>
                       l.req # g.req \/ l.by # g.by
  BY <1>2 DEF Recorded, CastOK
<1>3. AuditedVotesStand' BY <1>1 DEF Recorded, AuditedVotesStand, Counts
<1>4. Casting(k) \/ Telling(k)' => k.by \in Names(votes'[k.req]) BY <1>2
<1>5. Casting(k) => \A a \in audit' : Counts(a.event, a.req)' => a.req # k.req \/ a.by # k.by
  BY <1>1, <1>2
<1>6. ASSUME NEW d \in Calls \ {c}, NEW g, g = call[d],
             (Casting(k) \/ Telling(k)') /\ (Casting(k) \/ Casting(g)) /\ (Casting(g) \/ Telling(g))
      PROVE  g.req # k.req \/ g.by # k.by
  <2>1. k.req = h.req /\ k.by = h.by /\ (Casting(h) \/ Telling(h)) BY <1>6
  <2>2. CASE Casting(g) BY <1>2, <1>6, <2>1, <2>2
  <2>3. CASE Casting(k) BY <1>2, <1>6, <2>1, <2>3
  <2> QED BY <1>6, <2>2, <2>3
<1>7. \A d \in Calls \ {c} : \A g : g = call[d] =>
        /\ Casting(g) \/ Telling(g) => g.by \in Names(votes'[g.req])
        /\ (Casting(k) \/ Telling(k)') /\ (Casting(k) \/ Casting(g)) /\ (Casting(g) \/ Telling(g))
             => g.req # k.req \/ g.by # k.by
        /\ Casting(g) => \A a \in audit' \ audit :
             Counts(a.event, a.req)' => a.req # g.req \/ a.by # g.by
  <2> SUFFICES ASSUME NEW d \in Calls \ {c}, NEW g, g = call[d]
               PROVE  /\ Casting(g) \/ Telling(g) => g.by \in Names(votes'[g.req])
                      /\ (Casting(k) \/ Telling(k)') /\ (Casting(k) \/ Casting(g))
                         /\ (Casting(g) \/ Telling(g)) => g.req # k.req \/ g.by # k.by
    OBVIOUS
  <2> QED BY <1>2, <1>6
<1>8. \A a \in audit' : status'[a.req] # "none" BY <1>1
<1> QED BY <1>3, <1>4, <1>5, <1>7, <1>8, VoteStep


\* No step takes back a settlement, a quorum or a backer.
LEMMA ForwardStep == IInv /\ [Next]_vars => Forward
<1> SUFFICES ASSUME IInv, [Next]_vars PROVE Forward
  OBVIOUS
<1>1. TypeOK BY DEF IInv
<1>2. CASE UNCHANGED <<row, backers>> BY <1>2 DEF Forward, row
<1>3. ASSUME NEW c \in Calls, NewCall(c)
      PROVE  Forward
  <2>1. ASSUME NEW r \in Requests, NEW q \in Quorums, Request(c, r, q)
        PROVE  Forward
    BY <1>1, <2>1 DEF Request, Forward, TypeOK, Outcomes, history
  <2>2. CASE ~ \E r \in Requests, q \in Quorums : Request(c, r, q)
    BY <1>2, <1>3, <2>2 DEF NewCall, Cleanup, ResolveOverdue, ResolveOne, ResolveQuorum,
                            ConsumeRead, history
  <2> QED BY <2>1, <2>2
<1>4. ASSUME NEW c \in Calls, Continue(c)
      PROVE  Forward
  <2>1. PICK h : h = call[c] OBVIOUS
  <2>2. h \in Call /\ CallOK(h) BY <1>1, <2>1 DEF IInv, TypeOK, CallsOK
  <2>3. CASE ListVotes(c) \/ CountVotes(c) \/ ReadFresh(c) \/ ReadAfter(c) \/ Withdraw(c) \/ Audit(c)
    BY <1>2, <2>3 DEF ListVotes, CountVotes, ReadFresh, ReadAfter, Withdraw, Audit, history
  <2>4. CASE InsertVote(c) BY <1>1, <2>4 DEF InsertVote, Forward, TypeOK, row
  <2>5. CASE Spend(c) BY <2>5 DEF Spend, Forward
  <2>6. ASSUME NEW r \in Requests, NEW s \in Outcomes, status[r] = "pending",
               status' = [status EXCEPT ![r] = s], UNCHANGED <<required, backers>>
        PROVE  Forward
    BY <1>1, <2>6 DEF Forward, TypeOK, Outcomes
  <2>7. UNCHANGED <<status, required, backers>> => Forward BY DEF Forward
  <2>8. CASE Decide(c)
    <3>1. h.req \in Requests /\ h.event \in Outcomes
      BY <2>1, <2>2, <2>8 DEF Decide, At, CallOK, Outcomes
    <3> QED BY <2>1, <2>6, <2>7, <2>8, <3>1 DEF Decide, Decidable, history
  <2>9. CASE Flip(c)
    <3>1. h.req \in Requests BY <2>1, <2>2, <2>9 DEF Flip, At, CallOK, Voting
    <3> QED BY <2>1, <2>6, <2>7, <2>9, <3>1 DEF Flip, Decidable, history, Outcomes
  <2>10. CASE ExpireRow(c)
    <3>1. h.batch \subseteq Requests BY <2>2 DEF Call
    <3>2. PICK x \in Requests : \/ Expirable(x) /\ status' = [status EXCEPT ![x] = "expired"]
                                \/ UNCHANGED status
      BY <2>1, <2>10, <3>1 DEF ExpireRow
    <3> QED BY <2>6, <2>7, <2>10, <3>2 DEF ExpireRow, Expirable, history, Outcomes
  <2> QED BY <1>4, <2>3, <2>4, <2>5, <2>8, <2>9, <2>10 DEF Continue
<1>5. ASSUME NEW c \in Calls, Crash(c) PROVE Forward BY <1>2, <1>5 DEF Crash, history
<1> QED BY <1>2, <1>3, <1>4, <1>5 DEF Next, Tick, vars, history

LEMMA InsertRecorded ==
  ASSUME IInv, Recorded, Forward, NEW c \in Calls, InsertVote(c)
  PROVE  Recorded'
<1>1. PICK h, r, p : h = call[c] /\ r = h.req /\ p = h.by OBVIOUS
<1>2. h \in Call /\ h.pc = "insert" /\ r \in Requests /\ p \in People
  BY <1>1 DEF InsertVote, At, IInv, TypeOK, CallsOK, CallOK, Voting
<1>3. CASE p \in Names(votes[r])
  <2>1. /\ call' = [call EXCEPT ![c] = Idle] /\ UNCHANGED <<votes, audit>>
    BY <1>1, <1>3 DEF InsertVote, Return
  <2>2. ~Casting(Idle) /\ ~Telling(Idle)' BY DEF Idle, Casting, Telling, Voting
  <2> QED BY <1>1, <2>1, <2>2, SameVotes
<1>4. CASE p \notin Names(votes[r])
  <2>1. PICK k, v : k = [h EXCEPT !.pc = "count"] /\ v = [by |-> p, at |-> h.now] OBVIOUS
  <2>2. k.pc = "count" /\ k.req = r /\ k.by = p BY <1>1, <1>2, <2>1 DEF Call
  <2>3. /\ votes' = [votes EXCEPT ![r] = @ \cup {v}] /\ UNCHANGED audit
        /\ call' = [call EXCEPT ![c] = k]
    BY <1>1, <1>4, <2>1 DEF InsertVote, Go
  <2>4. v.by = p /\ \A q \in Requests : votes'[q] = IF q = r THEN votes[q] \cup {v} ELSE votes[q]
    BY <2>1, <2>3 DEF IInv, TypeOK
  <2>5. p \in Names(votes'[r]) /\ \A q \in Requests : Names(votes[q]) \subseteq Names(votes'[q])
    BY <1>2, <2>4 DEF Names
  <2>6. \A a \in audit : /\ a.req \in Requests /\ status'[a.req] # "none"
                         /\ Counts(a.event, a.req)' <=> Counts(a.event, a.req)
    BY CountsStay DEF IInv, TypeOK, AuditRow
  <2>7. \A a \in audit : Counts(a.event, a.req) => a.by \in Names(votes[a.req])
    BY DEF Recorded, AuditedVotesStand, Counts
  <2>8. AuditedVotesStand' BY <2>3, <2>5, <2>6, <2>7 DEF AuditedVotesStand, Counts
  <2>9. ASSUME NEW d \in Calls \ {c}, NEW g, g = call[d], Casting(g) \/ Telling(g)
        PROVE  g.by \in Names(votes[g.req]) /\ g.req \in Requests
    BY <2>9 DEF Recorded, CastOK, IInv, CallsOK, CallOK, Casting, Telling
  <2>10. \A d \in Calls \ {c} : \A g : g = call[d] =>
           /\ Casting(g) \/ Telling(g) => g.by \in Names(votes'[g.req])
           /\ (Casting(k) \/ Telling(k)') /\ (Casting(k) \/ Casting(g)) /\ (Casting(g) \/ Telling(g))
                => g.req # k.req \/ g.by # k.by
           /\ Casting(g) => \A a \in audit' \ audit :
                Counts(a.event, a.req)' => a.req # g.req \/ a.by # g.by
    BY <1>4, <2>2, <2>3, <2>5, <2>9
  <2>11. Casting(k) => \A a \in audit' : Counts(a.event, a.req)' => a.req # k.req \/ a.by # k.by
    BY <1>4, <2>2, <2>3, <2>6, <2>7
  <2>12. Casting(k) \/ Telling(k)' => k.by \in Names(votes'[k.req]) BY <2>2, <2>5
  <2>13. \A a \in audit' : status'[a.req] # "none" BY <2>3, <2>6
  <2> QED BY <2>3, <2>8, <2>10, <2>11, <2>12, <2>13, VoteStep
<1> QED BY <1>3, <1>4

\* The vote that goes is one that neither the trail nor another call has told of.
LEMMA WithdrawRecorded ==
  ASSUME IInv, Recorded, Forward, NEW c \in Calls, Withdraw(c)
  PROVE  Recorded'
<1>1. PICK h, r, p : h = call[c] /\ r = h.req /\ p = h.by OBVIOUS
<1>2. h.pc = "withdraw" /\ Casting(h) /\ r \in Requests
  BY <1>1 DEF Withdraw, At, IInv, CallsOK, CallOK, Voting, Casting
<1>3. /\ votes' = [votes EXCEPT ![r] = {v \in @ : v.by # p}] /\ UNCHANGED audit
      /\ call' = [call EXCEPT ![c] = Idle]
  BY <1>1 DEF Withdraw, Return
<1>4. \A q \in Requests : \A n \in Names(votes[q]) : q # r \/ n # p => n \in Names(votes'[q])
  BY <1>2, <1>3 DEF Names, IInv, TypeOK
<1>5. /\ \A d \in Calls \ {c} : \A g : g = call[d] /\ (Casting(g) \/ Telling(g)) =>
           g.req # r \/ g.by # p
      /\ \A a \in audit : Counts(a.event, a.req) => a.req # r \/ a.by # p
  BY <1>1, <1>2 DEF Recorded, CastOK
<1>6. \A a \in audit : /\ a.req \in Requests /\ status'[a.req] # "none"
                       /\ Counts(a.event, a.req)' <=> Counts(a.event, a.req)
  BY CountsStay DEF IInv, TypeOK, AuditRow
<1>7. \A a \in audit : Counts(a.event, a.req) => a.by \in Names(votes[a.req])
  BY DEF Recorded, AuditedVotesStand, Counts
<1>8. AuditedVotesStand' BY <1>3, <1>4, <1>5, <1>6, <1>7 DEF AuditedVotesStand, Counts
<1>9. \A d \in Calls \ {c} : \A g : g = call[d] /\ (Casting(g) \/ Telling(g)) =>
        g.by \in Names(votes[g.req]) /\ g.req \in Requests
  BY DEF Recorded, CastOK, IInv, CallsOK, CallOK, Casting, Telling
<1>10. ~Casting(Idle) /\ ~Telling(Idle)' BY DEF Idle, Casting, Telling, Voting
<1>11. \A d \in Calls \ {c} : \A g : g = call[d] => /\ Casting(g) \/ Telling(g) => g.by \in Names(votes'[g.req])
  BY <1>4, <1>5, <1>9
<1>12. audit' \ audit = {} BY <1>3
<1>13. \A a \in audit' : status'[a.req] # "none" BY <1>3, <1>6
<1> QED BY <1>3, <1>8, <1>10, <1>11, <1>12, <1>13, VoteStep

\* A vote is told of by the call that cast it.
LEMMA AuditRecorded ==
  ASSUME IInv, Recorded, Forward, NEW c \in Calls, Audit(c)
  PROVE  Recorded'
<1>1. PICK h, b : h = call[c] /\ b = [req |-> h.req, event |-> h.event, by |-> h.by] OBVIOUS
<1>2. h \in Call /\ h.pc = "audit" /\ h.req \in Requests /\ status[h.req] # "none"
  BY <1>1 DEF Audit, At, IInv, TypeOK, CallsOK, CallOK
<1>3. PICK k : call' = [call EXCEPT ![c] = k] /\ k.pc \in {"idle", "expire"}
  <2>1. CASE Return(c)
    <3>1. PICK k : k = Idle OBVIOUS
    <3>2. k.pc = "idle" BY <3>1 DEF Idle
    <3> QED BY <2>1, <3>1, <3>2 DEF Return
  <2>2. CASE Go(c, "expire")
    <3>1. PICK k : k = [h EXCEPT !.pc = "expire"] OBVIOUS
    <3>2. k.pc = "expire" BY <1>2, <3>1 DEF Call
    <3> QED BY <1>1, <2>2, <3>1, <3>2 DEF Go
  <2> QED BY <2>1, <2>2 DEF Audit
<1>4. audit' = audit \cup {b} /\ UNCHANGED <<votes, status>> BY <1>1 DEF Audit, row
<1>5. ~Casting(k) /\ ~Telling(k)' BY <1>3 DEF Casting, Telling, Voting
<1>6. /\ Telling(h)' <=> Telling(h)
      /\ \A a \in audit : /\ status'[a.req] # "none"
                          /\ Counts(a.event, a.req)' <=> Counts(a.event, a.req)
  BY <1>1, CountsStay
<1>7. Counts(b.event, b.req)' => Telling(h) BY <1>1, <1>2, <1>6 DEF Telling, Counts
<1>8. Telling(h) => b.by \in Names(votes[b.req]) BY <1>1 DEF Recorded, CastOK
<1>9. \A a \in audit : Counts(a.event, a.req) => a.by \in Names(votes[a.req])
  BY DEF Recorded, AuditedVotesStand, Counts
<1>10. AuditedVotesStand' BY <1>4, <1>6, <1>7, <1>8, <1>9 DEF AuditedVotesStand, Counts
<1>11. ASSUME NEW d \in Calls \ {c}, NEW g, g = call[d]
       PROVE  /\ Casting(g) \/ Telling(g) => g.by \in Names(votes[g.req])
              /\ Casting(g) /\ Telling(h) => b.req # g.req \/ b.by # g.by
  BY <1>1, <1>11 DEF Recorded, CastOK
<1>12. \A d \in Calls \ {c} : \A g : g = call[d] =>
         /\ Casting(g) \/ Telling(g) => g.by \in Names(votes'[g.req])
         /\ Casting(g) => \A a \in audit' \ audit :
              Counts(a.event, a.req)' => a.req # g.req \/ a.by # g.by
  BY <1>4, <1>7, <1>11
<1>13. \A a \in audit' : status'[a.req] # "none" BY <1>1, <1>2, <1>4, <1>6
<1>14. Casting(k) \/ Telling(k)' => k.by \in Names(votes'[k.req]) BY <1>5
<1>15. Casting(k) => \A a \in audit' : Counts(a.event, a.req)' => a.req # k.req \/ a.by # k.by
  BY <1>5
<1>16. \A d \in Calls \ {c} : \A g : g = call[d] =>
         /\ Casting(g) \/ Telling(g) => g.by \in Names(votes'[g.req])
         /\ (Casting(k) \/ Telling(k)') /\ (Casting(k) \/ Casting(g)) /\ (Casting(g) \/ Telling(g))
              => g.req # k.req \/ g.by # k.by
         /\ Casting(g) => \A a \in audit' \ audit :
              Counts(a.event, a.req)' => a.req # g.req \/ a.by # g.by
  BY <1>5, <1>12
<1> QED BY <1>3, <1>10, <1>13, <1>14, <1>15, <1>16, VoteStep


LEMMA RecordedInitially == Init => Recorded
<1> SUFFICES ASSUME Init PROVE Recorded
  OBVIOUS
<1>1. ~Casting(Idle) /\ ~Telling(Idle) BY DEF Idle, Casting, Telling, Voting
<1>2. \A c \in Calls : call[c] = Idle BY DEF Init
<1>3. \A c \in Calls : CastOK(c) BY <1>1, <1>2 DEF CastOK
<1>4. audit = {} BY DEF Init
<1> QED BY <1>3, <1>4 DEF Recorded, AuditedVotesStand

\* The other statements carry the vote of their call along, or have none.
LEMMA RecordedStep == IInv /\ Recorded /\ [Next]_vars => Recorded'
<1> SUFFICES ASSUME IInv, Recorded, [Next]_vars PROVE Recorded'
  OBVIOUS
<1>1. Forward BY ForwardStep
<1>2. CASE UNCHANGED <<row, votes, audit, call>>
  BY <1>2 DEF Recorded, CastOK, Casting, Telling, Counts, AuditedVotesStand, row
<1>3. ASSUME NEW c \in Calls, NEW l, call' = [call EXCEPT ![c] = l], UNCHANGED <<votes, audit>>,
             ~Casting(l), ~Telling(l)'
      PROVE  Recorded'
  BY <1>1, <1>3, SameVotes
<1>4. ~Casting(Idle) /\ ~Telling(Idle)' BY DEF Idle, Casting, Telling, Voting
<1>5. ASSUME NEW c \in Calls, NewCall(c)
      PROVE  Recorded'
  <2>1. UNCHANGED <<votes, audit>>
    BY <1>5 DEF NewCall, Cleanup, Request, ResolveOverdue, ResolveOne, ResolveQuorum, ConsumeRead
  <2>2. ASSUME NEW pc, NEW r, NEW p, NEW event, NEW batch,
               Start(c, Begin(pc, r, p, event, batch)),
               pc \in {"expire", "decide", "list", "spend"} \/ (pc = "audit" /\ event = "request")
        PROVE  Recorded'
    <3>1. PICK l : l = Begin(pc, r, p, event, batch) OBVIOUS
    <3>2. l.pc = pc /\ l.event = event BY <3>1 DEF Begin
    <3>3. ~Casting(l) /\ ~Telling(l)' BY <2>2, <3>2 DEF Casting, Telling, Counts, Voting
    <3> QED BY <1>3, <2>1, <2>2, <3>1, <3>3 DEF Start
  <2>3. CASE Cleanup(c) BY <2>2, <2>3 DEF Cleanup
  <2>4. ASSUME NEW r \in Requests
        PROVE  /\ \A q \in Quorums : Request(c, r, q) => Recorded'
               /\ ResolveOverdue(c, r) => Recorded'
               /\ \A p, d : ResolveOne(c, r, p, d) => Recorded'
               /\ \A p \in People : ResolveQuorum(c, r, p) => Recorded'
               /\ ConsumeRead(c, r) => Recorded'
    BY <2>2 DEF Request, ResolveOverdue, ResolveOne, ResolveQuorum, ConsumeRead
  <2> QED BY <1>5, <2>3, <2>4 DEF NewCall
<1>6. ASSUME NEW c \in Calls, Continue(c)
      PROVE  Recorded'
  <2>1. PICK h : h = call[c] OBVIOUS
  <2>2. h \in Call /\ CallOK(h) BY <2>1 DEF IInv, TypeOK, CallsOK
  <2>3. CASE Return(c) /\ UNCHANGED <<votes, audit>> BY <1>3, <1>4, <2>3 DEF Return
  \* The call moves on with the vote it has.
  <2>4. ASSUME Casting(h), NEW k, k.req = h.req, k.by = h.by, UNCHANGED <<votes, audit>>,
               call' = [call EXCEPT ![c] = k]
        PROVE  Recorded'
    BY <1>1, <2>1, <2>4, SameVotes
  <2>5. CASE ListVotes(c)
    <3>1. CASE ~Return(c)
      <4>1. PICK k : k = [h EXCEPT !.pc = "insert"] OBVIOUS
      <4>2. k.pc = "insert" BY <2>2, <4>1 DEF Call
      <4>3. ~Casting(k) /\ ~Telling(k)' BY <4>2 DEF Casting, Telling
      <4>4. call' = [call EXCEPT ![c] = k] /\ UNCHANGED <<votes, audit>>
        BY <2>1, <2>5, <3>1, <4>1 DEF ListVotes, Go
      <4> QED BY <1>3, <4>3, <4>4
    <3> QED BY <2>3, <2>5, <3>1 DEF ListVotes
  <2>6. CASE CountVotes(c) \/ ReadFresh(c) \/ Flip(c) \/ ReadAfter(c)
    <3>1. Casting(h) /\ UNCHANGED <<votes, audit>>
      BY <2>1, <2>6 DEF CountVotes, ReadFresh, Flip, ReadAfter, At, Casting, Voting
    <3>2. ASSUME NEW pc, Go(c, pc) PROVE Recorded'
      <4>1. PICK k : k = [h EXCEPT !.pc = pc] OBVIOUS
      <4>2. k.req = h.req /\ k.by = h.by BY <2>2, <4>1 DEF Call
      <4>3. call' = [call EXCEPT ![c] = k] BY <2>1, <3>2, <4>1 DEF Go
      <4> QED BY <2>4, <3>1, <4>2, <4>3
    <3>3. ASSUME NEW event, GoAudit(c, event) PROVE Recorded'
      <4>1. PICK k : k = [h EXCEPT !.pc = "audit", !.event = event] OBVIOUS
      <4>2. k.req = h.req /\ k.by = h.by BY <2>2, <4>1 DEF Call
      <4>3. call' = [call EXCEPT ![c] = k] BY <2>1, <3>3, <4>1 DEF GoAudit, IInv, TypeOK
      <4> QED BY <2>4, <3>1, <4>2, <4>3
    <3>4. CASE CountVotes(c)
      <4>1. PICK pc, counted : call' = [call EXCEPT ![c].pc = pc, ![c].counted = counted]
        BY <3>4 DEF CountVotes
      <4>2. PICK k : k = [h EXCEPT !.pc = pc, !.counted = counted] OBVIOUS
      <4>3. k.req = h.req /\ k.by = h.by BY <2>2, <4>2 DEF Call
      <4>4. call' = [call EXCEPT ![c] = k] BY <2>1, <4>1, <4>2 DEF IInv, TypeOK
      <4> QED BY <2>4, <3>1, <4>3, <4>4
    <3> QED BY <2>6, <3>2, <3>3, <3>4 DEF ReadFresh, Flip, ReadAfter
  <2>7. CASE Decide(c)
    <3>1. CASE ~Return(c)
      <4>1. PICK k : k = [h EXCEPT !.pc = "audit"] OBVIOUS
      <4>2. k.pc = "audit" /\ k.req = h.req /\ k.event = h.event BY <2>2, <4>1 DEF Call
      <4>3. h.event \in {"approved", "denied"} /\ (h.event = "approved" => required[h.req] = 1)
        BY <2>1, <2>2, <2>7 DEF Decide, At, CallOK
      <4>4. call' = [call EXCEPT ![c] = k] /\ UNCHANGED <<votes, audit, required>>
        BY <2>1, <2>7, <3>1, <4>1 DEF Decide, Go
      <4>5. ~Casting(k) /\ ~Telling(k)' BY <4>2, <4>3, <4>4 DEF Casting, Telling, Counts, Voting
      <4> QED BY <1>3, <4>4, <4>5
    <3> QED BY <2>3, <2>7, <3>1 DEF Decide
  <2>8. CASE ExpireRow(c)
    <3>1. PICK r, g : /\ g = [h EXCEPT !.batch = @ \ {r}, !.req = r, !.event = "expired"]
                      /\ \/ call' = [call EXCEPT ![c] = [g EXCEPT !.pc = "audit"]]
                         \/ call' = [call EXCEPT ![c] = Idle]
                         \/ call' = [call EXCEPT ![c] = g]
      BY <2>1, <2>8 DEF ExpireRow
    <3>2. h.pc = "expire" /\ UNCHANGED <<votes, audit>> BY <2>1, <2>8 DEF ExpireRow, At
    <3>3. g.event = "expired" /\ g.pc = "expire" BY <2>2, <3>1, <3>2 DEF Call
    <3>4. PICK k : k = [g EXCEPT !.pc = "audit"] OBVIOUS
    <3>5. k.event = "expired" /\ k.pc = "audit" BY <2>2, <3>1, <3>4 DEF Call
    <3>6. /\ ~Casting(k) /\ ~Telling(k)' /\ ~Casting(g) /\ ~Telling(g)'
      BY <3>3, <3>5 DEF Casting, Telling, Counts, Voting
    <3> QED BY <1>3, <1>4, <3>1, <3>2, <3>4, <3>6
  <2>9. CASE Spend(c) BY <2>3, <2>9 DEF Spend
  <2> QED BY <1>1, <1>6, <2>5, <2>6, <2>7, <2>8, <2>9, InsertRecorded, WithdrawRecorded,
             AuditRecorded DEF Continue
<1>7. ASSUME NEW c \in Calls, Crash(c)
      PROVE  Recorded'
  BY <1>3, <1>4, <1>7 DEF Crash, Return
<1> QED BY <1>2, <1>5, <1>6, <1>7 DEF Next, Tick, vars

\* Whoever the trail says voted on a quorum request still has a recorded vote:
\* for any number of racing voters, denials, sweeps and crashes, no vote that
\* was told of is withdrawn.
THEOREM VotesStandTheorem == Spec => []AuditedVotesStand
<1>1. Recorded => AuditedVotesStand BY DEF Recorded
<1>2. Spec => []Recorded
  <2>1. Init => IInv /\ Recorded BY Initially, RecordedInitially
  <2>2. IInv /\ Recorded /\ [Next]_vars => (IInv /\ Recorded)' BY Inductive, RecordedStep
  <2> QED BY <2>1, <2>2, PTL DEF Spec
<1> QED BY <1>1, <1>2, PTL
================================================================================

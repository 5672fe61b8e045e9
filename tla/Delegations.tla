------------------------------ MODULE Delegations ------------------------------
(***************************************************************************)
(* Delegation between agents (delegation/delegation.ts, liveness.ts) and   *)
(* the revocation of an agent (agent/agent.ts).  A link lends permissions  *)
(* of one agent to another; revoking a link, or an agent, revokes what     *)
(* hangs below it, one row at a time; and whoever reads the rows asks      *)
(* again whether a link still leads back to somebody with authority.       *)
(*                                                                         *)
(* A call is a sequence of database statements and calls interleave        *)
(* freely.  The reads of one liveness walk are a single step.  Each link   *)
(* id is asked for at most once, with the input Wanted gives it (a bound); *)
(* delegators are agents; constraints on permissions are left out, and so  *)
(* are the audit rows nothing reads back (delegation.create and            *)
(* agent.cascade.revoked) and the push to the revocation bus.              *)
(*                                                                         *)
(* StandsWithoutLinks, RecheckNothing, FlipFirst and ChildrenOfAnyStatus   *)
(* are not the code: each is a plausible mistake in the definition it      *)
(* precedes, used in its place to confirm that the properties notice it.   *)
(***************************************************************************)
EXTENDS Naturals, Sequences, FiniteSets, FiniteSetsExt, SequencesExt

CONSTANTS Agents,
          Permissions,
          Own,        \* the permission rows of each agent
          Links,      \* ids of rows of theauth_delegation_chains
          Wanted,     \* what each link is asked for with
          Calls,
          None,
          MaxWalk,    \* MAX_WALK of liveness.ts
          MaxTime, MaxFailures  \* bounds: the clock, calls and writes that fail

ASSUME NoneAssumption == None \notin Agents \cup Links
ASSUME OwnAssumption == Own \in [Agents -> SUBSET Permissions]
ASSUME WantedAssumption ==
  Wanted \in [Links -> [from : Agents, to : Agents, permissions : SUBSET Permissions,
                        expiresAt : Nat, maxDepth : Nat]]
ASSUME FiniteAssumption == IsFiniteSet(Agents) /\ IsFiniteSet(Links) /\ IsFiniteSet(Calls)
ASSUME BoundAssumption == MaxWalk \in Nat /\ MaxTime \in Nat /\ MaxFailures \in Nat

VARIABLES
  agent,     \* status column of each agent
  status,    \* status column of each link; "none" before the insert, "gone" after a delete
  expiresAt, depth, maxDepth,  \* columns of each link
  revokeRows,\* how many delegation.revoke audit rows name each link
  call,      \* the local variables of each call
  clock,
  failures,
  lost,      \* history: links whose best-effort audit row was not written
  broken     \* history: some call that had written a row crashed or threw

row == <<status, expiresAt, depth, maxDepth>>
history == <<lost, broken>>
vars == <<agent, row, revokeRows, call, clock, failures, history>>

--------------------------------------------------------------------------------
From(l) == Wanted[l].from
To(l) == Wanted[l].to
Lent(l) == Wanted[l].permissions

Steps == {"idle", "authority", "insert", "recheck", "rollback",
          "rows", "next", "read", "lookup", "write", "flip", "children"}
\* todo: the loops of the recursion still to run, innermost last.
Call == [pc : Steps, link : Links \cup {None}, agent : Agents \cup {None},
         inbound : SUBSET Links, expiresAt : Nat, depth : Nat, maxDepth : Nat,
         rows : SUBSET Links, todo : Seq(SUBSET Links)]
Idle == [pc |-> "idle", link |-> None, agent |-> None, inbound |-> {},
         expiresAt |-> 0, depth |-> 0, maxDepth |-> 0, rows |-> {}, todo |-> <<>>]

TypeOK ==
  /\ agent \in [Agents -> {"active", "revoked"}]
  /\ status \in [Links -> {"none", "active", "revoked", "gone"}]
  /\ expiresAt \in [Links -> Nat] /\ \A l \in Links : expiresAt[l] <= Wanted[l].expiresAt
  /\ depth \in [Links -> 0..Max({Wanted[l].maxDepth : l \in Links})]
  /\ maxDepth \in [Links -> Nat]
  /\ revokeRows \in [Links -> Nat]
  /\ call \in [Calls -> Call]
  /\ clock \in 0..MaxTime
  /\ failures \in 0..MaxFailures
  /\ lost \subseteq Links /\ broken \in BOOLEAN

Init ==
  /\ agent = [a \in Agents |-> "active"]
  /\ status = [l \in Links |-> "none"]
  /\ expiresAt = [l \in Links |-> 0]
  /\ depth = [l \in Links |-> 0]
  /\ maxDepth = [l \in Links |-> 0]
  /\ revokeRows = [l \in Links |-> 0]
  /\ call = [c \in Calls |-> Idle]
  /\ clock = 0
  /\ failures = 0
  /\ lost = {} /\ broken = FALSE

--------------------------------------------------------------------------------
(* liveness.ts *)

Received(a) == {l \in Links : To(l) = a /\ status[l] \in {"active", "revoked"}}
\* inboundRows
Inbound(a) == {l \in Links : To(l) = a /\ status[l] = "active" /\ expiresAt[l] > clock}
OwnCovers(l) == Lent(l) \subseteq Own[From(l)]

StandsWithoutLinks(a) == Inbound(a) = {}
\* An agent stands on its own only if no link ever fed it.
Stands(a) == Received(a) = {}

\* stateOf: the agents that are live, as lenders of authority, to a walk that has
\* come along trail.  They stand, or live by their links; a loop has no root; and
\* a link holds anyway if its active delegator owns what it lends (stateOfLink).
\* An agent that is past an expiry of its own is left out.
Lends[trail \in SUBSET Agents] ==
  {a \in Agents \ trail :
     /\ agent[a] = "active" /\ Cardinality(trail) < MaxWalk
     /\ \/ Stands(a)
        \/ \E l \in Inbound(a) :
             \/ From(l) \in Lends[trail \cup {a}]
             \/ agent[From(l)] = "active" /\ OwnCovers(l)}

\* stateOfLink = "live", for a link whose own row the caller has checked
LinkLive(l) ==
  \/ From(l) \in Lends[{To(l)}]
  \/ agent[From(l)] = "active" /\ OwnCovers(l)

LiveInbound(a) == {l \in Inbound(a) : LinkLive(l)}

--------------------------------------------------------------------------------
At(c, pc) == call[c].pc = pc
Go(c, pc) == call' = [call EXCEPT ![c].pc = pc]
Return(c) == call' = [call EXCEPT ![c] = Idle]

(* delegate() *)

\* Both agents must be active, to begin with.
Delegate(c, l) ==
  /\ call[c] = Idle
  /\ status[l] = "none" /\ \A d \in Calls : call[d].link # l
  /\ agent[From(l)] = "active" /\ agent[To(l)] = "active"
  /\ call' = [call EXCEPT ![c] = [Idle EXCEPT !.pc = "authority", !.link = l]]
  /\ UNCHANGED <<agent, row, revokeRows, clock, failures, history>>

\* A link that is not backed by the delegator's own rows outlives no link that
\* feeds the delegator.
Deadline(l, inbound) ==
  Min({Wanted[l].expiresAt} \cup (IF OwnCovers(l) THEN {} ELSE {expiresAt[i] : i \in inbound}))

\* What the delegator holds, and the limits that follow; a request beyond them
\* is refused.
ReadAuthority(c) ==
  LET l == call[c].link
      inbound == LiveInbound(From(l))
      held == Own[From(l)] \cup UNION {Lent(i) : i \in inbound}
      limits == {Wanted[l].maxDepth} \cup {maxDepth[i] : i \in inbound}
      hops == 1 + Max({0} \cup {depth[i] : i \in inbound}) IN
  /\ At(c, "authority")
  /\ \/ /\ Lent(l) \subseteq held /\ hops <= Min(limits)
        /\ call' = [call EXCEPT ![c] = [@ EXCEPT
                      !.pc = "insert", !.inbound = inbound, !.depth = hops,
                      !.maxDepth = Min(limits), !.expiresAt = Deadline(l, inbound)]]
     \/ /\ ~(Lent(l) \subseteq held /\ hops <= Min(limits))
        /\ Return(c)
  /\ UNCHANGED <<agent, row, revokeRows, clock, failures, history>>

RecheckNothing(l, inbound) == FALSE
\* The inserted link rests on links that were read before the insert.
Recheck(l, inbound) == inbound # {} /\ ~OwnCovers(l)

InsertLink(c) ==
  LET k == call[c] IN
  /\ At(c, "insert")
  /\ status' = [status EXCEPT ![k.link] = "active"]
  /\ expiresAt' = [expiresAt EXCEPT ![k.link] = k.expiresAt]
  /\ depth' = [depth EXCEPT ![k.link] = k.depth]
  /\ maxDepth' = [maxDepth EXCEPT ![k.link] = k.maxDepth]
  /\ IF Recheck(k.link, k.inbound) THEN Go(c, "recheck") ELSE Return(c)
  /\ UNCHANGED <<agent, revokeRows, clock, failures, history>>

\* One of those links still active is enough.
RecheckInbound(c) ==
  /\ At(c, "recheck")
  /\ IF \E i \in call[c].inbound : status[i] = "active" THEN Return(c) ELSE Go(c, "rollback")
  /\ UNCHANGED <<agent, row, revokeRows, clock, failures, history>>

\* The row is deleted and the call throws.
Rollback(c) ==
  /\ At(c, "rollback")
  /\ status' = [status EXCEPT ![call[c].link] = "gone"]
  /\ broken' = TRUE
  /\ Return(c)
  /\ UNCHANGED <<agent, expiresAt, depth, maxDepth, revokeRows, clock, failures, lost>>

--------------------------------------------------------------------------------
(* agent.revoke() and revokeAllForAgent() *)

\* The agent is revoked first.
RevokeAgent(c, a) ==
  /\ call[c] = Idle
  /\ agent' = [agent EXCEPT ![a] = "revoked"]
  /\ call' = [call EXCEPT ![c] = [Idle EXCEPT !.pc = "rows", !.agent = a]]
  /\ UNCHANGED <<row, revokeRows, clock, failures, history>>

\* A call whose loops have all run ends; otherwise its next link is due.
Proceed(c, rows, todo) ==
  IF rows = {} /\ todo = <<>>
  THEN Return(c)
  ELSE call' = [call EXCEPT ![c].pc = "next", ![c].rows = rows, ![c].todo = todo]

\* Its links, the revoked ones included.
ListRows(c) ==
  LET a == call[c].agent IN
  /\ At(c, "rows")
  /\ Proceed(c, {l \in Links : status[l] \in {"active", "revoked"} /\ a \in {From(l), To(l)}},
             <<>>)
  /\ UNCHANGED <<agent, row, revokeRows, clock, failures, history>>

(* revokeDelegation(): revokeLink() and, inside it, the links below *)

RevokeDelegation(c, l) ==
  /\ call[c] = Idle
  /\ status[l] \in {"active", "revoked"}
  /\ call' = [call EXCEPT ![c] = [Idle EXCEPT !.pc = "read", !.link = l]]
  /\ UNCHANGED <<agent, row, revokeRows, clock, failures, history>>

\* The innermost loop goes on with any of its children (no order is asked of
\* the database); a loop that has run is dropped.
NextLink(c) ==
  LET k == call[c] IN
  /\ At(c, "next")
  /\ \/ /\ k.todo # <<>>
        /\ \E l \in Last(k.todo) :
             LET rest == Last(k.todo) \ {l} IN
             call' = [call EXCEPT ![c] = [k EXCEPT !.pc = "read", !.link = l,
                        !.todo = IF rest = {} THEN Front(@) ELSE Append(Front(@), rest)]]
     \/ /\ k.todo = <<>>
        /\ \E l \in k.rows :
             call' = [call EXCEPT ![c] = [k EXCEPT !.pc = "read", !.link = l, !.rows = @ \ {l}]]
  /\ UNCHANGED <<agent, row, revokeRows, clock, failures, history>>

FlipFirst(l) == "flip"
\* An active link is audited before its status flips.
AfterRead(l) == IF status[l] = "active" THEN "lookup" ELSE "flip"

\* A row that has vanished meanwhile makes the whole call throw.
ReadLink(c) ==
  LET l == call[c].link IN
  /\ At(c, "read")
  /\ \/ /\ status[l] = "gone"
        /\ broken' = TRUE
        /\ Return(c)
     \/ /\ status[l] # "gone"
        /\ Go(c, AfterRead(l))
        /\ UNCHANGED broken
  /\ UNCHANGED <<agent, row, revokeRows, clock, failures, lost>>

\* revokeAuditExists
RevokeAuditExists(l) == revokeRows[l] > 0

LookupAudit(c) ==
  /\ At(c, "lookup")
  /\ Go(c, IF RevokeAuditExists(call[c].link) THEN "flip" ELSE "write")
  /\ UNCHANGED <<agent, row, revokeRows, clock, failures, history>>

\* Best effort: a failed write does not stop the revocation.
WriteAudit(c) ==
  LET l == call[c].link IN
  /\ At(c, "write")
  /\ Go(c, "flip")
  /\ \/ /\ revokeRows' = [revokeRows EXCEPT ![l] = @ + 1]
        /\ UNCHANGED <<failures, lost>>
     \/ /\ failures < MaxFailures
        /\ failures' = failures + 1
        /\ lost' = lost \cup {l}
        /\ UNCHANGED revokeRows
  /\ UNCHANGED <<agent, row, clock, broken>>

FlipLink(c) ==
  LET l == call[c].link IN
  /\ At(c, "flip")
  /\ status' = [status EXCEPT ![l] = IF @ = "gone" THEN "gone" ELSE "revoked"]
  /\ Go(c, "children")
  /\ UNCHANGED <<agent, expiresAt, depth, maxDepth, revokeRows, clock, failures, history>>

ChildrenOfAnyStatus(l) == {m \in Links : From(m) = To(l) /\ status[m] \in {"active", "revoked"}}
Children(l) == {m \in Links : From(m) = To(l) /\ status[m] = "active"}

ListChildren(c) ==
  LET k == call[c]
      below == Children(k.link) IN
  /\ At(c, "children")
  /\ Proceed(c, k.rows, IF below = {} THEN k.todo ELSE Append(k.todo, below))
  /\ UNCHANGED <<agent, row, revokeRows, clock, failures, history>>

--------------------------------------------------------------------------------

\* The process running the call dies, or a statement of it throws.
Crash(c) ==
  /\ call[c] # Idle
  /\ failures < MaxFailures
  /\ failures' = failures + 1
  /\ broken' = TRUE
  /\ Return(c)
  /\ UNCHANGED <<agent, row, revokeRows, clock, lost>>

Tick ==
  /\ clock < MaxTime
  /\ clock' = clock + 1
  /\ UNCHANGED <<agent, row, revokeRows, call, failures, history>>

NewCall(c) ==
  \/ \E l \in Links : Delegate(c, l) \/ RevokeDelegation(c, l)
  \/ \E a \in Agents : RevokeAgent(c, a)

Continue(c) ==
  \/ ReadAuthority(c) \/ InsertLink(c) \/ RecheckInbound(c) \/ Rollback(c)
  \/ ListRows(c) \/ NextLink(c) \/ ReadLink(c) \/ LookupAudit(c) \/ WriteAudit(c)
  \/ FlipLink(c) \/ ListChildren(c)

Next == Tick \/ \E c \in Calls : NewCall(c) \/ Continue(c) \/ Crash(c)

Spec == Init /\ [][Next]_vars

\* The runtime resumes every awaited statement; nobody is obliged to call.
FairSpec == Spec /\ \A c \in Calls : WF_vars(Continue(c))

--------------------------------------------------------------------------------
(* Properties *)

Quiet == \A c \in Calls : call[c] = Idle
Usable(l) == status[l] = "active" /\ expiresAt[l] > clock

\* The agents other than t that a chain of usable links between active agents,
\* not through t, connects to somebody with authority of their own.
Rooted(t) ==
  LET Entitled(l) == agent[From(l)] = "active" /\ OwnCovers(l)
      Live == {a \in Agents \ {t} : agent[a] = "active"}
      Within[n \in 0..Cardinality(Agents)] ==
        IF n = 0 THEN {a \in Live : Received(a) = {}}
        ELSE Within[n - 1] \cup
             {a \in Live : \E l \in Inbound(a) : From(l) \in Within[n - 1] \/ Entitled(l)}
  IN  Within[Cardinality(Agents)]

\* However revocations, crashes and expiry have left the rows, a usable link
\* lends exactly when a chain of usable links leads from it to authority: loops
\* of links do not hold each other up, and the walk misses no chain.
LiveMeansRooted ==
  \A l \in Links : Usable(l) =>
    (LinkLive(l) <=> From(l) \in Rooted(To(l)) \/ (agent[From(l)] = "active" /\ OwnCovers(l)))

\* A link that lends something its delegator does not own has nothing usable
\* left above it.
Stranded(l) ==
  Usable(l) /\ ~OwnCovers(l) /\ \A i \in Links : To(i) = From(l) => ~Usable(i)
\* As long as no call crashes or throws half way, whatever order delegations and
\* revocations race in, no usable link is left below revoked and expired ones:
\* what the re-check after an insert does not see, the cascade does.
NothingStranded == Quiet /\ ~broken => \A l \in Links : ~Stranded(l)

\* A revoked link has its audit row, wherever the calls that revoked it were cut
\* short, unless the write itself was seen to fail.
RevokedIsAudited ==
  \A l \in Links : status[l] = "revoked" => revokeRows[l] > 0 \/ l \in lost

\* A retry writes no second row: a link has several rows only if several calls
\* were revoking it at once.
RetryWritesNoRow == \A l \in Links : revokeRows[l] <= Cardinality(Calls)

\* Every call ends, on loops of links too, and however many cascades meet.
CallsEnd == \A c \in Calls : call[c] # Idle ~> call[c] = Idle

\* The active agents that own p, or to whom a chain of usable links lends it.
Holders(p) ==
  LET Live == {a \in Agents : agent[a] = "active"}
      Within[n \in 0..Cardinality(Agents)] ==
        IF n = 0 THEN {a \in Live : p \in Own[a]}
        ELSE Within[n - 1] \cup
             {a \in Live : \E l \in Inbound(a) : p \in Lent(l) /\ From(l) \in Within[n - 1]}
  IN  Within[Cardinality(Agents)]
\* What delegate() says of its re-check: an insert that raced the revocation of
\* its source is rolled back rather than left as an orphan grant.  So, when no
\* process died and no write failed, what a live link lends its delegator has.
NoOrphanGrant ==
  Quiet /\ failures = 0 =>
    \A l \in Links : Usable(l) /\ LinkLive(l) => \A p \in Lent(l) : From(l) \in Holders(p)
================================================================================

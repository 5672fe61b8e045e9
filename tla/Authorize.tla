-------------------------------- MODULE Authorize --------------------------------
(***************************************************************************)
(* authorize() and authorizeByToken() for one agent, action and resource   *)
(* (authorize/pipeline.ts, permission/engine.ts, policy/abac.ts,           *)
(* agent/agent.ts), while the agent is updated, revoked and expires: the   *)
(* agent's own permissions first, and when they deny the delegated ones,   *)
(* each with its rate limit (RateSlots), its other constraints and its     *)
(* approval.  Every awaited statement is a step.  A call has three places  *)
(* to write its audit row: the engine for what it allows, recordDenial()   *)
(* for an agent that may not act at all, and auditDenial() for a denial by *)
(* the permissions, which the engine leaves to it because the delegated    *)
(* ones may still overturn it.                                             *)
(*                                                                         *)
(* Left out: permissions that do not match, which constraint denies and    *)
(* how (any may), hooks, the proof of possession of a token, rotation.     *)
(* Taken as one step: the liveness walk over delegations (Delegations),    *)
(* the reads before an approval is spent (Approvals).                      *)
(*                                                                         *)
(* ClockOnly, DefersOwn, CountedBefore, SpendsFirst and KeptAll are not    *)
(* the code: each is a plausible mistake in the definition it precedes,    *)
(* used in its place to confirm that the properties notice it.             *)
(***************************************************************************)
EXTENDS RateSlots

CONSTANTS Calls,
          Admins,      \* update() and revoke() calls, each of which runs once
          Grants,      \* permissions that match the request
          LimitOf,     \* their maxCallsPerHour, None without
          MustApprove, \* those with requireApproval
          Own, Lent,   \* those the agent has, or is lent, to begin with
          Inputs,      \* the permissions update() may be given
          AuditAll,    \* auditAll of the configuration
          MaxFailures  \* bound: calls cut short, audit rows not written

Paths == {"own", "lent"}
ASSUME CallsAssumption == Reservations = Calls \X Paths
ASSUME GrantsAssumption ==
  /\ LimitOf \in [Grants -> Limits \cup {None}] /\ MustApprove \subseteq Grants
  /\ None \notin Grants /\ Own \subseteq Grants /\ Lent \subseteq Grants /\ Inputs \subseteq SUBSET Grants
ASSUME ConfigAssumption == AuditAll \in BOOLEAN
ASSUME BoundAssumption == MaxFailures \in Nat

VARIABLES
  agent,    \* the row of the agent
  perms,    \* its permission rows
  lent,     \* what live delegations give it
  approval, \* the approval that requests name
  trail,    \* audit rows written for each call
  call,     \* the local variables of each authorize()
  admin,    \* the local variables of each update() and revoke()
  failures,
  spentBy,  \* history: calls whose statement spent the approval
  cut,      \* history: calls cut short, or with an audit row that failed
  gone,     \* history: revoke() has returned
  asked,    \* history: what the last update to delete permissions grants
  mixed     \* history: two updates replaced permissions at once

agentVars == <<agent, perms, lent, approval>>
history == <<spentBy, cut, gone, asked, mixed>>
vars == <<rateVars, agentVars, trail, call, admin, failures, history>>

--------------------------------------------------------------------------------
Agent == [status : {"active", "revoked", "expired"}, expires : Time]
\* The engine generates an id on each path, recordDenial() one of its own.
Ids == Paths \cup {"early"}
Row == [id : Ids, allowed : BOOLEAN]
Call == [pc : {"idle", "load", "mark", "match", "limit", "inspect", "spend", "delegated",
               "record", "final", "refused", "allowed", "denied", "failed"},
         byToken : BOOLEAN, unread : SUBSET {"agent", "permissions"}, dead : BOOLEAN, expires : Time,
         perms : SUBSET Grants, path : Paths, grant : Grants \cup {None}, allows : BOOLEAN, late : BOOLEAN,
         id : Ids \cup {""}]
NewCall == [pc |-> "idle", byToken |-> FALSE, unread |-> {"agent", "permissions"}, dead |-> FALSE, expires |-> 0,
            perms |-> {}, path |-> "own", grant |-> None, allows |-> FALSE, late |-> FALSE,
            id |-> ""]
Admin == [pc : {"idle", "row", "delete", "insert", "cascade", "end"},
          wanted : SUBSET Grants, expires : Time]
NewAdmin == [pc |-> "idle", wanted |-> {}, expires |-> 0]

TypeOK ==
  /\ RateTypeOK
  /\ agent \in Agent /\ perms \subseteq Grants /\ lent \subseteq Grants
  /\ approval \in {"approved", "spent"}
  /\ trail \in [Calls -> SUBSET Row]
  /\ call \in [Calls -> Call]
  /\ admin \in [Admins -> Admin]
  /\ failures \in 0..MaxFailures
  /\ spentBy \subseteq Calls /\ cut \subseteq Calls
  /\ gone \in BOOLEAN /\ asked \subseteq Grants /\ mixed \in BOOLEAN

Init ==
  /\ RateInit
  /\ \E expires \in Time : agent = [status |-> "active", expires |-> expires]
  /\ perms = Own /\ asked = Own /\ lent = Lent
  /\ approval = "approved"
  /\ trail = [c \in Calls |-> {}]
  /\ call = [c \in Calls |-> NewCall]
  /\ admin = [a \in Admins |-> NewAdmin]
  /\ failures = 0
  /\ spentBy = {} /\ cut = {} /\ gone = FALSE /\ mixed = FALSE

--------------------------------------------------------------------------------
At(c, pc) == call[c].pc = pc
Goto(c, pc) == call' = [call EXCEPT ![c].pc = pc]
\* What is not read again is forgotten.
Ends(c, pc, id) == call' = [call EXCEPT ![c] = [NewCall EXCEPT !.pc = pc, !.id = id]]
Refuses(c) == Ends(c, "refused", "early")
Attempt(c) == <<c, call[c].path>>
Fault == failures < MaxFailures /\ failures' = failures + 1
StoreStays == UNCHANGED <<rateVars, agentVars, trail, admin, failures>>

--------------------------------------------------------------------------------
(* Reading the agent *)

authorize(c) ==
  /\ At(c, "idle")
  /\ \E byToken \in BOOLEAN :
       call' = [call EXCEPT ![c] = [NewCall EXCEPT !.pc = "load", !.byToken = byToken, !.late = gone]]
  /\ StoreStays /\ UNCHANGED history

\* resolveToken() marks an agent past its expiry.  What get() returned is refused
\* from its expiry on, by the clock once both reads are in.
Overdue == clock > agent.expires
Elapsed(c) == ~call[c].byToken /\ clock >= call[c].expires
ClockOnly(c) == FALSE
Refused(c) == agent.status # "active"
ReadAgent(c) ==
  /\ At(c, "load") /\ "agent" \in call[c].unread
  /\ \/ /\ call[c].byToken /\ agent.status = "active" /\ Overdue
        /\ Goto(c, "mark")
     \/ /\ ~(call[c].byToken /\ agent.status = "active" /\ Overdue)
        /\ call' = [call EXCEPT ![c].unread = @ \ {"agent"}, ![c].dead = Refused(c), ![c].expires = agent.expires]
  /\ StoreStays /\ UNCHANGED history

\* The status is written whatever it has become since it was read.
MarkExpired(c) ==
  /\ At(c, "mark")
  /\ agent' = [agent EXCEPT !.status = "expired"]
  /\ Refuses(c)
  /\ UNCHANGED <<rateVars, perms, lent, approval, trail, admin, failures, history>>

\* get() reads both side by side, resolveToken() one after the other.
ReadPermissions(c) ==
  /\ At(c, "load") /\ "permissions" \in call[c].unread
  /\ call[c].byToken => "agent" \notin call[c].unread
  /\ call' = [call EXCEPT ![c].unread = @ \ {"permissions"}, ![c].perms = perms]
  /\ StoreStays /\ UNCHANGED history

Loaded(c) ==
  /\ At(c, "load") /\ call[c].unread = {}
  /\ IF call[c].dead \/ Elapsed(c) THEN Refuses(c)
     ELSE call' = [call EXCEPT ![c].pc = "match", ![c].byToken = FALSE, ![c].expires = 0]
  /\ StoreStays /\ UNCHANGED history

--------------------------------------------------------------------------------
(* permissionEngine.authorize(), for each of the two paths *)

\* auditAll decides whether there is a row at all.
Logged(c, allowed, id) ==
  IF AuditAll THEN [trail EXCEPT ![c] = @ \cup {[id |-> id, allowed |-> allowed]}] ELSE trail

Allows(c) ==
  /\ call' = [call EXCEPT ![c].pc = "record", ![c].allows = TRUE, ![c].id = call[c].path]
  /\ UNCHANGED trail

\* Both calls of the engine are told to leave the row of a denial to the last one.
DefersOwn(c) == call[c].path = "own"
Defers(c) == TRUE
\* A denial of the own permissions leads to the delegated ones.  If both deny the
\* answer is the own denial, unless it is an approval that the other lacked.
Denies(c, code) ==
  /\ IF call[c].path = "own" THEN Goto(c, "delegated")
     ELSE Ends(c, "final", IF code = "approval" THEN "lent" ELSE "own")
  /\ trail' = IF Defers(c) THEN trail ELSE Logged(c, FALSE, call[c].path)

CountedBefore(c, g) == LimitOf[g] = None \/ call[c].path = "lent"
Unlimited(c, g) == LimitOf[g] = None
\* findMatchingPermission(), and the rate limit comes first.
Match(c) ==
  /\ At(c, "match")
  /\ \/ /\ call[c].perms = {}
        /\ Denies(c, "none")
        /\ UNCHANGED rateVars
     \/ \E g \in call[c].perms :
          /\ call' = [call EXCEPT ![c].grant = g, ![c].perms = {}, ![c].pc = IF Unlimited(c, g) THEN "inspect" ELSE "limit"]
          /\ IF Unlimited(c, g) THEN UNCHANGED rateVars ELSE checkRateLimit(Attempt(c), LimitOf[g])
          /\ UNCHANGED trail
  /\ UNCHANGED <<agentVars, admin, failures, history>>

Reserve(c) ==
  /\ At(c, "limit")
  /\ ReserveStep(Attempt(c))
  /\ UNCHANGED <<agentVars, trail, call, admin, failures, history>>

Limited(c) ==
  /\ At(c, "limit")
  /\ \/ res[Attempt(c)].pc = "admitted" /\ Goto(c, "inspect") /\ UNCHANGED trail
     \/ res[Attempt(c)].pc = "denied" /\ Denies(c, "limit")
  /\ UNCHANGED <<rateVars, agentVars, admin, failures, history>>

\* Any other constraint may fail; requireApproval does unless the request names
\* an approval.  All of them hold before it is spent.
Inspect(c) ==
  /\ At(c, "inspect")
  /\ \/ Denies(c, "constraint")
     \/ call[c].grant \in MustApprove /\ Denies(c, "approval")
     \/ call[c].grant \notin MustApprove /\ Allows(c)
     \/ call[c].grant \in MustApprove /\ Goto(c, "spend") /\ UNCHANGED trail
  /\ UNCHANGED <<rateVars, agentVars, admin, failures, history>>

\* consumeApproval(): one statement spends it, after every other check.
SpendsFirst(c) == Allows(c) \/ Denies(c, "constraint")
Spends(c) == Allows(c)
consumeApproval(c) ==
  /\ At(c, "spend")
  /\ \/ /\ approval = "approved"
        /\ approval' = "spent"
        /\ spentBy' = spentBy \cup {c}
        /\ Spends(c)
     \/ /\ approval = "spent"
        /\ Denies(c, "approval")
        /\ UNCHANGED <<approval, spentBy>>
  /\ UNCHANGED <<rateVars, agent, perms, lent, admin, failures, cut, gone, asked, mixed>>

\* getEffectivePermissions()
Delegated(c) ==
  /\ At(c, "delegated")
  /\ \/ lent = {} /\ Ends(c, "final", "own")
     \/ lent # {} /\ call' = [call EXCEPT ![c].pc = "match", ![c].path = "lent", ![c].perms = lent]
  /\ StoreStays /\ UNCHANGED history

--------------------------------------------------------------------------------
(* The audit row and the answer *)

\* A write that fails is swallowed, and may have left its row all the same.
Written(c, allowed) == trail' = Logged(c, allowed, call[c].id) /\ UNCHANGED <<failures, cut>>
Unsure(c, allowed) ==
  /\ AuditAll /\ Fault
  /\ cut' = cut \cup {c}
  /\ trail' \in {trail, Logged(c, allowed, call[c].id)}
Elsewhere == UNCHANGED <<rateVars, agentVars, admin, spentBy, gone, asked, mixed>>

RecordAllowed(c) ==
  /\ At(c, "record")
  /\ Written(c, TRUE) \/ Unsure(c, TRUE)
  /\ call' = [call EXCEPT ![c] = [NewCall EXCEPT !.pc = "allowed", !.path = call[c].path, !.grant = call[c].grant,
                                 !.allows = TRUE, !.late = call[c].late, !.id = call[c].id]]
  /\ Elsewhere

auditDenial(c) ==
  /\ At(c, "final")
  /\ Written(c, FALSE) \/ Unsure(c, FALSE)
  /\ Ends(c, "denied", call[c].id)
  /\ Elsewhere

\* The only one whose id is empty when there is no row, as far as it knows.
recordDenial(c) ==
  /\ At(c, "refused")
  /\ \/ Written(c, FALSE) /\ Ends(c, "denied", IF AuditAll THEN call[c].id ELSE "")
     \/ Unsure(c, FALSE) /\ Ends(c, "denied", "")
  /\ Elsewhere

Running(c) == call[c].pc \notin {"idle", "allowed", "denied", "failed"}
\* A statement throws, or the process dies.
Fails(c) ==
  /\ Running(c) /\ Fault
  /\ Ends(c, "failed", "")
  /\ cut' = cut \cup {c}
  /\ \/ UNCHANGED trail
     \/ At(c, "record") /\ trail' = Logged(c, TRUE, call[c].id)
     \/ (At(c, "final") \/ At(c, "refused")) /\ trail' = Logged(c, FALSE, call[c].id)
  /\ IF At(c, "limit") /\ Pending(Attempt(c)) THEN ReserveFails(Attempt(c)) ELSE UNCHANGED rateVars
  /\ UNCHANGED <<agentVars, admin, spentBy, gone, asked, mixed>>

--------------------------------------------------------------------------------
(* update() and revoke() *)

\* update() reads the agent, and writes the expiry it read unless it is given one.
update(a) ==
  /\ admin[a].pc = "idle"
  /\ \E wanted \in Inputs, expires \in Time :
       admin' = [admin EXCEPT ![a] = [pc |-> "row", wanted |-> wanted, expires |-> expires]]
  /\ UNCHANGED <<rateVars, agentVars, trail, call, failures, history>>

UpdateRow(a) ==
  /\ admin[a].pc = "row"
  /\ agent' = [agent EXCEPT !.expires = admin[a].expires]
  /\ admin' = [admin EXCEPT ![a].pc = "delete"]
  /\ UNCHANGED <<rateVars, perms, lent, approval, trail, call, failures, history>>

KeptAll(a) == perms
Kept(a) == {}
DeletePermissions(a) ==
  /\ admin[a].pc = "delete"
  /\ perms' = Kept(a)
  /\ asked' = admin[a].wanted
  /\ mixed' = (mixed \/ \E b \in Admins \ {a} : admin[b].pc = "insert")
  /\ admin' = [admin EXCEPT ![a].pc = "insert"]
  /\ UNCHANGED <<rateVars, agent, lent, approval, trail, call, failures, spentBy, cut, gone>>

InsertPermissions(a) ==
  /\ admin[a].pc = "insert"
  /\ perms' = perms \cup admin[a].wanted
  /\ admin' = [admin EXCEPT ![a].pc = "end"]
  /\ UNCHANGED <<rateVars, agent, lent, approval, trail, call, failures, history>>

revoke(a) ==
  /\ admin[a].pc = "idle"
  /\ agent' = [agent EXCEPT !.status = "revoked"]
  /\ admin' = [admin EXCEPT ![a].pc = "cascade"]
  /\ UNCHANGED <<rateVars, perms, lent, approval, trail, call, failures, history>>

\* revokeAllForAgent(), and the caller is told.
Cascade(a) ==
  /\ admin[a].pc = "cascade"
  /\ lent' = {}
  /\ gone' = TRUE
  /\ admin' = [admin EXCEPT ![a].pc = "end"]
  /\ UNCHANGED <<rateVars, agent, perms, approval, trail, call, failures, spentBy, cut, asked, mixed>>

AdminFails(a) ==
  /\ admin[a].pc \notin {"idle", "end"} /\ Fault
  /\ admin' = [admin EXCEPT ![a].pc = "end"]
  /\ UNCHANGED <<rateVars, agentVars, trail, call, history>>

--------------------------------------------------------------------------------
Passes == Tick /\ UNCHANGED <<agentVars, trail, call, admin, failures, history>>

CallStep(c) ==
  \/ authorize(c) \/ ReadAgent(c) \/ MarkExpired(c) \/ ReadPermissions(c) \/ Loaded(c)
  \/ Match(c) \/ Reserve(c) \/ Limited(c) \/ Inspect(c) \/ consumeApproval(c) \/ Delegated(c)
  \/ RecordAllowed(c) \/ auditDenial(c) \/ recordDenial(c)
AdminStep(a) ==
  \/ update(a) \/ UpdateRow(a) \/ DeletePermissions(a) \/ InsertPermissions(a) \/ revoke(a) \/ Cascade(a)

Next ==
  \/ Passes
  \/ \E c \in Calls : CallStep(c) \/ Fails(c)
  \/ \E a \in Admins : AdminStep(a) \/ AdminFails(a)
Spec == Init /\ [][Next]_vars

--------------------------------------------------------------------------------
(* Properties *)

\* A call that begins after revoke() has returned is never allowed, whatever
\* updates and expiries write to the row meanwhile.
RevokedRefuses == \A c \in Calls : call[c].late => ~At(c, "allowed")

\* The call that spends an approval is allowed, unless it is cut short: neither a
\* constraint nor the other path may refuse it afterwards.
SpentIsAllowed == \A c \in spentBy \ cut : At(c, "allowed") \/ At(c, "record")

\* The audit trail tells what the caller was told, whichever path decided and
\* whichever of the three places wrote: no call has two rows, also when it is cut
\* short, no row contradicts the answer or has another id than it gives, and with
\* auditAll an answer has its row, unless that very write failed.
TrailTellsAnswer ==
  \A c \in Calls :
    /\ \A row, other \in trail[c] : row = other
    /\ call[c].pc \in {"allowed", "denied"} =>
         /\ \A row \in trail[c] : row.allowed = At(c, "allowed") /\ call[c].id \in {row.id, ""}
         /\ c \notin cut => (trail[c] # {} <=> AuditAll)

\* The counted calls are those that RateSlots admits: none is allowed without,
\* and one allowed by a grant with a limit was reserved under that limit.
AllowedIsCounted ==
  \A c \in Calls : call[c].allows /\ LimitOf[call[c].grant] # None =>
    res[Attempt(c)].pc = "admitted" /\ res[Attempt(c)].max = LimitOf[call[c].grant]

\* Permissions are replaced and never mixed: from its delete on, an update that
\* is under way, cut short or finished leaves no more than it grants, unless two
\* replaced them at once.
UpdateIsWhole == ~mixed => perms \subseteq asked
================================================================================

-------------------------------- MODULE Erasure --------------------------------
(***************************************************************************)
(* GDPR erasure (auth/gdpr-delete.ts runDeleteUser(),                      *)
(* auth/gdpr-progress.ts, audit/erasure.ts): nine steps that end with the  *)
(* user row, no transaction around them, and a progress marker that says   *)
(* how many are finished.  A call that stops anywhere is repeated, and two *)
(* calls may run at once.  Every statement is an action: a batch is one    *)
(* statement only on backends that have batches.                           *)
(*                                                                         *)
(* One user.  Rows no property tells apart are one item of left.  The      *)
(* tombstone rows the marker and the foreign keys need are written, if     *)
(* they are missing, before anything refers to them: they are not          *)
(* variables.  What is left out: the push to the revocation bus of step 0, *)
(* which never throws (module Freshness), and the cascade below the links  *)
(* of an agent (module Delegations).                                       *)
(*                                                                         *)
(* Operators named Bug... are not the code: each is a plausible mistake in *)
(* the definition it precedes.                                             *)
(***************************************************************************)
EXTENDS Naturals, FiniteSets

CONSTANTS
  Agents, Born,   \* agents; those the user may own before the erasure
  Rows, Old,      \* audit rows that name the user; those that may be there before it
  Legacy,         \* old rows of version 1, whose hash covers the raw ids
  On,             \* the agent of each row, or None if it is somebody else's
  Linked, Note,   \* agents a link leads to; the audit row of its revocation
  Offers,         \* the sets of options that the calls of one behaviour may have
  Calls, None,
  MaxFailures,    \* statements that fail or processes that die
  MaxActs         \* what the user and the user's agents still do meanwhile

\* "named": an audit row whose subject or approver is the user, or whose actor is
\* an agent of the user; "actor": one whose actor is the user.
Items == {"session", "visit", "apiKey", "personal", "emailed", "named", "actor", "owned"}

ASSUME AgentsAssumption == Born \subseteq Agents /\ None \notin Agents \cup Rows
ASSUME RowsAssumption ==
  Legacy \subseteq Old /\ Old \subseteq Rows /\ On \in [Rows -> Born \cup {None}]
ASSUME NoteAssumption ==
  Linked \subseteq Born /\ Note \in [Linked -> Rows \ Old] /\ \A a \in Linked : On[Note[a]] = a
ASSUME OffersAssumption ==
  Offers \subseteq SUBSET [keep : BOOLEAN, orgs : BOOLEAN] /\ None \notin [keep : BOOLEAN, orgs : BOOLEAN]
ASSUME BoundsAssumption == MaxFailures \in Nat /\ MaxActs \in Nat

VARIABLES
  user,    \* the user row exists
  owner,   \* of each agent
  active,  \* agents whose status is active, as long as they are not deleted
  link,    \* agents that a link names by their own id
  live,    \* agents whose link is active
  rows,    \* each audit row
  records, \* erasure records, each a set of the rows it names
  left,    \* other rows of the user
  orgs,    \* who owns the user's organization
  marker,  \* the progress marker, in the metadata of the tombstone user
  call,    \* the local variables of each call
  born,    \* the agents the user owns before the erasure
  options, \* keepAuditLogs and deleteOrganizations, as the calls may have them
  failures, acts,
  asked    \* history: options of the erasures begun

data == <<user, owner, active, link, live, rows, records, left, orgs>>
vars == <<data, marker, call, born, options, failures, acts, asked>>

--------------------------------------------------------------------------------
Option == [keep : BOOLEAN, orgs : BOOLEAN]
Marker == [completed : 0..9, done : BOOLEAN, ids : SUBSET Agents, option : Option]
NoMarker == [completed |-> 0, done |-> FALSE, ids |-> {}, option |-> None]

\* The first statement of each step, and what follows the last step.
Entry == <<"revoke", "session", "repoint", "audit", "blank", "email", "orgs", "agents", "user", "finish">>
Inner == {"cascade", "note", "flip", "apiKey", "move", "rewrite", "rest", "legacy", "record", "scrub",
          "sign", "drop", "personal", "emailed", "owners"}
Lookup == {"owned", "marker", "reread", "first"}
Saving == {"save", "write"}
Steps == {Entry[i] : i \in 1..10} \cup Inner

Call == [pc : {"idle"} \cup Lookup \cup Steps \cup Saving,
         seen : BOOLEAN,                 \* userExists, later whether an email was read
         m : Marker \cup {NoMarker},     \* the marker in memory
         agent : Agents \cup {None},
         todo : SUBSET Agents,           \* agents still to be worked on
         sets : SUBSET SUBSET Rows]      \* erasure records still to be written

Idle == [pc |-> "idle", seen |-> FALSE, m |-> NoMarker, agent |-> None, todo |-> {}, sets |-> {}]

TypeOK ==
  /\ user \in BOOLEAN
  /\ owner \in [Agents -> {"none", "user", "tombstone", "deleted"}]
  /\ active \subseteq Agents /\ link \subseteq Agents /\ live \subseteq Agents
  /\ rows \in [Rows -> {"none", "raw", "anonymous", "deleted"}]
  /\ records \subseteq SUBSET Rows
  /\ left \subseteq Items
  /\ orgs \in {"user", "tombstone", "deleted"}
  /\ marker \in Marker \cup {NoMarker}
  /\ call \in [Calls -> Call]
  /\ failures \in 0..MaxFailures /\ acts \in 0..MaxActs
  /\ born \subseteq Born /\ options \in Offers /\ asked \subseteq options

Init ==
  /\ user = TRUE
  /\ born \in SUBSET Born
  /\ owner = [a \in Agents |-> IF a \in born THEN "user" ELSE "none"]
  /\ active = born /\ link = Linked \cap born /\ live = Linked \cap born
  /\ rows = [r \in Rows |-> IF r \in Old /\ On[r] \in born \cup {None} THEN "raw" ELSE "none"]
  /\ records = {}
  /\ left = Items \ {"visit"}
  /\ orgs = "user"
  /\ marker = NoMarker
  /\ call = [c \in Calls |-> Idle]
  /\ options \in Offers
  /\ failures = 0 /\ acts = 0 /\ asked = {}

--------------------------------------------------------------------------------
Owned == {a \in Agents : owner[a] = "user"}
Raw == {r \in Rows : rows[r] = "raw"}
NamedIn(r) == {s \in records : r \in s}
ByAgent(R) == {{r \in R : On[r] = a} : a \in {On[r] : r \in R}}

\* Foreign keys that are not cascades: to users.id, and to agents.id.
UserRefs == Owned # {} \/ Raw # {} \/ orgs = "user" \/ left \cap {"session", "visit", "apiKey", "personal", "owned"} # {}
AgentRefs(a) == a \in link \/ \E r \in Raw : On[r] = a

At(c, pc) == call[c].pc = pc
Sets(c, h) == call' = [call EXCEPT ![c] = h]
Goes(c, pc) == Sets(c, [call[c] EXCEPT !.pc = pc])
Returns(c) == Sets(c, Idle)
\* The step that follows the finished ones of a marker.
Resumes(c, m) ==
  Sets(c, [Idle EXCEPT !.pc = Entry[m.completed + 1], !.m = m])
Ends(c) == Sets(c, [Idle EXCEPT !.pc = "save", !.m = call[c].m])

Stays == UNCHANGED <<born, options, failures, acts, asked>>
MarkerStays == Stays /\ UNCHANGED marker
DataStays == MarkerStays /\ UNCHANGED data

\* deleteUser(): the user row, then the agents, then the marker are read.
Begin(c, o) ==
  /\ At(c, "idle")
  /\ Sets(c, [Idle EXCEPT !.pc = "owned", !.seen = user, !.m = [NoMarker EXCEPT !.option = o]])
  /\ DataStays

ReadOwned(c) ==
  /\ At(c, "owned")
  /\ Sets(c, [call[c] EXCEPT !.pc = "marker", !.m.ids = Owned])
  /\ DataStays

\* A marker without an end is taken for another call at work.
BugReadMarker(c) ==
  /\ At(c, "marker")
  /\ \/ marker # NoMarker /\ Returns(c)
     \/ marker = NoMarker /\ Goes(c, "reread")
  /\ DataStays

ReadMarker(c) ==
  /\ At(c, "marker")
  /\ \/ marker # NoMarker /\ ~marker.done /\ Resumes(c, marker)
     \/ marker.done /\ ~call[c].seen /\ Returns(c)
     \/ (marker = NoMarker \/ (marker.done /\ call[c].seen)) /\ Goes(c, "reread")
  /\ DataStays

\* The tombstone is there now; another call may have begun since.
Reread(c) ==
  /\ At(c, "reread")
  /\ \/ marker # NoMarker /\ ~marker.done /\ Resumes(c, marker)
     \/ marker.done /\ Sets(c, [call[c] EXCEPT !.pc = "first", !.m = marker])
     \/ marker = NoMarker /\ Goes(c, "first")
  /\ DataStays

SaveFirst(c) ==
  /\ At(c, "first")
  /\ marker' = call[c].m
  /\ \/ call[c].m.done /\ Returns(c) /\ asked' = asked
     \/ ~call[c].m.done /\ Resumes(c, call[c].m) /\ asked' = asked \cup {call[c].m.option}
  /\ UNCHANGED <<data, born, options, failures, acts>>

--------------------------------------------------------------------------------
\* Step 0: the agents, then the links of each, with an audit row before the flip.
\* The select before the update tells only if there is one, and whom to push.
Revoke(c) ==
  /\ At(c, "revoke")
  /\ active' = active \ Owned
  /\ Sets(c, [call[c] EXCEPT !.pc = "cascade", !.todo = call[c].m.ids])
  /\ MarkerStays /\ UNCHANGED <<user, owner, link, live, rows, records, left, orgs>>

Cascade(c) ==
  /\ At(c, "cascade")
  /\ \/ call[c].todo = {} /\ Ends(c)
     \/ \E a \in call[c].todo :
          Sets(c, [call[c] EXCEPT !.agent = a, !.todo = @ \ {a},
                     !.pc = IF a \notin live THEN "cascade"
                            ELSE IF rows[Note[a]] = "none" /\ owner[a] = "user" THEN "note" ELSE "flip"])
  /\ DataStays

\* Best effort: the insert fails if the user or the agent is gone by now.
WriteNote(c) ==
  /\ At(c, "note")
  /\ rows' = IF user /\ owner[call[c].agent] # "deleted"
             THEN [rows EXCEPT ![Note[call[c].agent]] = "raw"] ELSE rows
  /\ Goes(c, "flip")
  /\ MarkerStays /\ UNCHANGED <<user, owner, active, link, live, records, left, orgs>>

Flip(c) ==
  /\ At(c, "flip")
  /\ live' = live \ {call[c].agent}
  /\ Goes(c, "cascade")
  /\ MarkerStays /\ UNCHANGED <<user, owner, active, link, rows, records, left, orgs>>

\* A deletion of rows by the user's id or address, then the next statement.
Deletes(c, pc, items, next) ==
  /\ At(c, pc)
  /\ left' = left \ items
  /\ IF next = "save" THEN Ends(c) ELSE Goes(c, next)
  /\ MarkerStays /\ UNCHANGED <<user, owner, active, link, live, rows, records, orgs>>

\* Step 1: the credentials.
DeleteSessions(c) == Deletes(c, "session", {"session", "visit"}, "apiKey")
DeleteKeys(c) == Deletes(c, "apiKey", {"apiKey"}, "save")

\* Step 2: links move to tombstone agents, if the agents are to be deleted.
Repoint(c) ==
  /\ At(c, "repoint")
  /\ IF call[c].m.option.keep \/ call[c].m.ids \cap link = {} THEN Ends(c)
     ELSE Sets(c, [call[c] EXCEPT !.pc = "move", !.todo = call[c].m.ids])
  /\ DataStays

Move(c) ==
  /\ At(c, "move")
  /\ \E a \in call[c].todo :
       /\ link' = link \ {a}
       /\ IF call[c].todo = {a} THEN Ends(c) ELSE Sets(c, [call[c] EXCEPT !.todo = @ \ {a}])
  /\ MarkerStays /\ UNCHANGED <<user, owner, active, live, rows, records, left, orgs>>

--------------------------------------------------------------------------------
\* Step 3, eraseAuditIdentity(): rows are rewritten and then recorded, or
\* recorded and then deleted.
BugAudit(c) ==
  /\ At(c, "audit")
  /\ LET h == call[c] IN
     IF Raw = {} THEN Ends(c)
     ELSE IF h.m.option.keep THEN Sets(c, [h EXCEPT !.pc = "rewrite", !.todo = {On[r] : r \in Raw} \cap h.m.ids])
     ELSE Sets(c, [h EXCEPT !.pc = "sign", !.sets = ByAgent(Raw)])
  /\ DataStays

Audit(c) ==
  /\ At(c, "audit")
  /\ LET h == call[c] IN
     \/ /\ h.m.option.keep
        /\ IF Raw = {} THEN Goes(c, "legacy")
           ELSE Sets(c, [h EXCEPT !.pc = "rewrite", !.todo = {On[r] : r \in Raw} \cap h.m.ids])
     \/ /\ ~h.m.option.keep
        /\ IF Raw = {} THEN Ends(c) ELSE Sets(c, [h EXCEPT !.pc = "sign", !.sets = ByAgent(Raw)])
  /\ DataStays

Rewrites(R) == rows' = [r \in Rows |-> IF r \in R \cap Raw THEN "anonymous" ELSE rows[r]]

Rewrite(c) ==
  /\ At(c, "rewrite")
  /\ \/ call[c].todo = {} /\ Goes(c, "rest") /\ UNCHANGED rows
     \/ \E a \in call[c].todo :
          /\ Rewrites({r \in Rows : On[r] = a})
          /\ Sets(c, [call[c] EXCEPT !.todo = @ \ {a}])
  /\ MarkerStays /\ UNCHANGED <<user, owner, active, link, live, records, left, orgs>>

\* Rows of other agents lose the user; that they go on naming their own agent
\* matters only to calls whose options differ (AgentRefs).
RewriteRest(c) ==
  /\ At(c, "rest")
  /\ Rewrites(Rows)
  /\ Goes(c, "legacy")
  /\ MarkerStays /\ UNCHANGED <<user, owner, active, link, live, records, left, orgs>>

\* Rewritten rows whose hash no longer matches and that no record names.
FindLegacy(c) ==
  /\ At(c, "legacy")
  /\ Sets(c, [call[c] EXCEPT !.pc = "record",
                !.sets = ByAgent({r \in Legacy : rows[r] = "anonymous" /\ NamedIn(r) = {}})])
  /\ DataStays

\* The id of a record is made from the rows it names: a second one finds it.
WriteRecord(c, pc, next) ==
  /\ At(c, pc)
  /\ \/ call[c].sets = {} /\ Goes(c, next) /\ UNCHANGED records
     \/ \E s \in call[c].sets :
          /\ records' = records \cup {s}
          /\ Sets(c, [call[c] EXCEPT !.sets = @ \ {s}])
  /\ MarkerStays /\ UNCHANGED <<user, owner, active, link, live, rows, left, orgs>>

Scrub(c) == Deletes(c, "scrub", {"named"}, "save")

DropRows(c) ==
  /\ At(c, "drop")
  /\ rows' = [r \in Rows |-> IF r \in Raw THEN "deleted" ELSE rows[r]]
  /\ Ends(c)
  /\ MarkerStays /\ UNCHANGED <<user, owner, active, link, live, records, left, orgs>>

--------------------------------------------------------------------------------
\* Step 4: accountability ids on other people's rows.
Blank(c) == Deletes(c, "blank", IF call[c].m.option.keep THEN {} ELSE {"named", "actor"}, "save")

\* Step 5: personal rows, by the address too as long as there is a user row.
ReadEmail(c) ==
  /\ At(c, "email")
  /\ Sets(c, [call[c] EXCEPT !.pc = "personal", !.seen = user])
  /\ DataStays

BugDeletePersonal(c) == Deletes(c, "personal", {"personal"}, "save")
DeletePersonal(c) == Deletes(c, "personal", {"personal"}, IF call[c].seen THEN "emailed" ELSE "save")
DeleteEmailed(c) == Deletes(c, "emailed", {"emailed"}, "save")

\* Step 6: the organization, if asked.
DeleteOrgs(c) ==
  /\ At(c, "orgs")
  /\ orgs' = IF call[c].m.option.orgs /\ orgs = "user" THEN "deleted" ELSE orgs
  /\ Ends(c)
  /\ MarkerStays /\ UNCHANGED <<user, owner, active, link, live, rows, records, left>>

\* Step 7: agents, unless there were none, and what else outlives the user.
MoveAgents(c) ==
  /\ At(c, "agents")
  /\ LET m == call[c].m IN
     \/ m.ids = {} /\ UNCHANGED owner
     \/ /\ m.ids # {}
        /\ m.option.keep \/ \A a \in Owned : ~AgentRefs(a)
        /\ owner' = [a \in Agents |-> IF a \notin Owned THEN owner[a]
                                      ELSE IF m.option.keep THEN "tombstone" ELSE "deleted"]
  /\ Goes(c, "owners")
  /\ MarkerStays /\ UNCHANGED <<user, active, link, live, rows, records, left, orgs>>

MoveOwned(c) ==
  /\ At(c, "owners")
  /\ orgs' = IF orgs = "user" THEN "tombstone" ELSE orgs
  /\ left' = left \ {"owned"}
  /\ Ends(c)
  /\ MarkerStays /\ UNCHANGED <<user, owner, active, link, live, rows, records>>

\* Step 8: the user row, last.
BugDeleteUserRow(c) ==
  /\ At(c, "user")
  /\ user' = (user /\ UserRefs)
  /\ Ends(c)
  /\ MarkerStays /\ UNCHANGED <<owner, active, link, live, rows, records, left, orgs>>

DeleteUserRow(c) ==
  /\ At(c, "user")
  /\ user => ~UserRefs
  /\ user' = FALSE
  /\ Ends(c)
  /\ MarkerStays /\ UNCHANGED <<owner, active, link, live, rows, records, left, orgs>>

\* A foreign key refuses the deletion: the exception ends the call.
Throws(c) ==
  /\ \/ At(c, "user") /\ user /\ UserRefs
     \/ At(c, "agents") /\ ~call[c].m.option.keep /\ call[c].m.ids # {} /\ \E a \in Owned : AgentRefs(a)
  /\ Returns(c)
  /\ DataStays

--------------------------------------------------------------------------------
\* saveErasureMarker() after a step: it reads, and does not go backwards.
Save(c) ==
  /\ At(c, "save")
  /\ LET m == [call[c].m EXCEPT !.completed = @ + 1]
         h == [Idle EXCEPT !.m = m]
     IN Sets(c, IF marker.done \/ marker.completed > m.completed
                THEN [h EXCEPT !.pc = Entry[m.completed + 1]] ELSE [h EXCEPT !.pc = "write"])
  /\ DataStays

BugSaveWrite(c) ==
  /\ At(c, "write")
  /\ marker' = [call[c].m EXCEPT !.completed = IF @ = 9 THEN 9 ELSE @ + 1]
  /\ Resumes(c, call[c].m)
  /\ Stays /\ UNCHANGED data

SaveWrite(c) ==
  /\ At(c, "write")
  /\ marker' = call[c].m
  /\ Resumes(c, call[c].m)
  /\ Stays /\ UNCHANGED data

Finish(c) ==
  /\ At(c, "finish")
  /\ marker' = [call[c].m EXCEPT !.done = TRUE, !.ids = {}]
  /\ Returns(c)
  /\ Stays /\ UNCHANGED data

Continue(c) ==
  \/ ReadOwned(c) \/ ReadMarker(c) \/ Reread(c) \/ SaveFirst(c)
  \/ Revoke(c) \/ Cascade(c) \/ WriteNote(c) \/ Flip(c)
  \/ DeleteSessions(c) \/ DeleteKeys(c)
  \/ Repoint(c) \/ Move(c)
  \/ Audit(c) \/ Rewrite(c) \/ RewriteRest(c) \/ FindLegacy(c)
  \/ WriteRecord(c, "record", "scrub") \/ Scrub(c) \/ WriteRecord(c, "sign", "drop") \/ DropRows(c)
  \/ Blank(c) \/ ReadEmail(c) \/ DeletePersonal(c) \/ DeleteEmailed(c)
  \/ DeleteOrgs(c) \/ MoveAgents(c) \/ MoveOwned(c) \/ DeleteUserRow(c) \/ Throws(c)
  \/ Save(c) \/ SaveWrite(c) \/ Finish(c)

\* A statement throws, or the process dies.
Fails(c) ==
  /\ ~At(c, "idle") /\ failures < MaxFailures
  /\ failures' = failures + 1
  /\ Returns(c)
  /\ UNCHANGED <<data, marker, born, options, acts, asked>>

\* What goes on once the erasure has begun, as long as the foreign keys let it: a
\* sign-in, a new agent, an audit row of a call by an agent of the user.
Acts ==
  /\ marker # NoMarker /\ user /\ acts < MaxActs
  /\ acts' = acts + 1
  /\ UNCHANGED <<user, link, live, records, orgs, marker, call, born, options, failures, asked>>

SignIn ==
  /\ Acts
  /\ left' = left \cup {"visit"}
  /\ UNCHANGED <<owner, active, rows>>

CreateAgent(a) ==
  /\ Acts
  /\ owner[a] = "none"
  /\ owner' = [owner EXCEPT ![a] = "user"]
  /\ active' = active \cup {a}
  /\ UNCHANGED <<rows, left>>

AgentActs(r) ==
  /\ Acts
  /\ rows[r] = "none" /\ On[r] # None /\ r \notin Old /\ \A a \in Linked : r # Note[a]
  /\ owner[On[r]] \in {"user", "tombstone"}
  /\ rows' = [rows EXCEPT ![r] = "raw"]
  /\ UNCHANGED <<owner, active, left>>

Next ==
  \/ \E c \in Calls : (\E o \in options : Begin(c, o)) \/ Continue(c) \/ Fails(c)
  \/ SignIn \/ (\E a \in Agents : CreateAgent(a)) \/ (\E r \in Rows : AgentActs(r))

Spec == Init /\ [][Next]_vars

\* Whoever wants the user erased calls again until the answer is no error.
FairSpec ==
  /\ Spec
  /\ \A c \in Calls : WF_vars(Continue(c)) /\ WF_vars(marker # NoMarker /\ ~marker.done /\ \E o \in options : Begin(c, o))
--------------------------------------------------------------------------------
\* What a finished step leaves behind of what was there before the erasure.
StepDone(i, option) ==
  /\ i = 1 => active \cap born = {} /\ live = {}
  /\ i = 2 => left \cap {"session", "apiKey"} = {}
  /\ i = 3 => option.keep \/ link = {}
  /\ i = 4 => Raw \cap Old = {} /\ (option.keep => "named" \notin left)
  /\ i = 5 => option.keep \/ left \cap {"named", "actor"} = {}
  /\ i = 6 => left \cap {"personal", "emailed"} = {}
  /\ i = 7 => (option.orgs => orgs # "user")
  /\ i = 8 => Owned \cap born = {} /\ orgs # "user" /\ "owned" \notin left
  /\ i = 9 => ~user

\* A step that the marker counts as finished did run, whatever two calls that
\* write the marker and a crash between any two statements make of it
\* (gdpr-progress.ts: a stale or regressed marker makes a retry redo steps,
\* never skip one that did not run).
NoStepSkipped == \A i \in 1..9 : marker.completed >= i => StepDone(i, marker.option)

\* Once the user row is gone, what the foreign keys do not guard is gone too: no
\* agent is active, no link is live, no address is left, and other people's rows
\* name the user nowhere but as the actor, which only an erasure that keeps the
\* audit rows leaves in place (step 8 comes last, and only then).
GoneIsClean ==
  ~user => /\ active \cap born = {} /\ live = {}
           /\ "emailed" \notin left /\ "named" \notin left
           /\ \A a \in born : owner[a] \in {"tombstone", "deleted"}
           /\ "actor" \in left => \E o \in asked : o.keep

\* The audit chains still verify: an erasure record names every old row that is
\* deleted, and every rewritten one of version 1 before the step counts as
\* finished, and only one does unless rows were added meanwhile (erasure.ts:
\* records before deletion, rewriting before records).
RecordsTell ==
  \A r \in Old :
    /\ rows[r] = "deleted" => NamedIn(r) # {}
    /\ Cardinality(asked) = 1 /\ marker.completed >= 4 /\ r \in Legacy /\ rows[r] = "anonymous"
         => NamedIn(r) # {}
    /\ Cardinality(asked) = 1 /\ acts = 0 => Cardinality(NamedIn(r)) <= 1

\* A finished erasure leaves what an uninterrupted one leaves, if all calls that
\* began it had the same options (docs/gdpr.mdx: the end state is the same as
\* an uninterrupted run).
EndsAsAsked ==
  marker.done =>
    /\ ~user
    /\ \A o \in options : asked = {o} =>
         /\ \A a \in born : owner[a] = IF o.keep THEN "tombstone" ELSE "deleted"
         /\ \A r \in Old : rows[r] \in {"none", IF o.keep THEN "anonymous" ELSE "deleted"}
         /\ orgs = IF o.orgs THEN "deleted" ELSE "tombstone"
         /\ left \subseteq IF o.keep THEN {"actor"} ELSE {}

\* A row that was added after the step that removes its kind, and that keeps the
\* last steps from ever succeeding.
Blocked ==
  /\ marker # NoMarker /\ ~marker.done /\ user
  /\ \/ marker.completed = 8 /\ ("visit" \in left \/ Raw \ Old # {} \/ Owned \ born # {})
     \/ marker.completed = 7 /\ ~marker.option.keep /\ Raw \ Old # {}

\* An erasure that has begun and is called again ends with the user row gone;
\* only a row added too late can prevent it.
RetryFinishes == asked # {} ~> ~user \/ Blocked

================================================================================

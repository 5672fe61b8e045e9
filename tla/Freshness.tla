-------------------------------- MODULE Freshness --------------------------------
(***************************************************************************)
(* Freshness of MCP access tokens (mcp/freshness.ts, revocation-bus.ts,    *)
(* stores-db-revocation.ts, revocation.ts): what a resource server answers *)
(* for one token while that token is being revoked.  Instances share the   *)
(* denylist and the agent rows; each keeps verdicts in memory, joins reads *)
(* in flight, and polls a fingerprint of the denylist.  A revocation       *)
(* clears the verdicts of the instance it runs on, pushes its row, once    *)
(* more when that fails, and clears again.                                 *)
(*                                                                         *)
(* Left out: offline mode, expiry of tokens, agents and denylist rows,     *)
(* watermarks of sub rows (every row here denies the token), parents.      *)
(*                                                                         *)
(* Joined, FreshAlways and Shrunk are not the code: each is a plausible    *)
(* mistake in the definition it precedes, used in its place to confirm     *)
(* that the properties notice it.                                          *)
(***************************************************************************)
EXTENDS Naturals, FiniteSets

CONSTANTS Instances,    \* processes with a cache of their own
          Serving,      \* those whose checks are modelled; the others revoke
          Checks,       \* checkFreshness() calls
          Revokers,     \* revocations, each of which runs once
          None,
          MaxStaleness, \* maxStalenessMs
          PollInterval, \* pollIntervalMs
          MaxTime, MaxFaults  \* bounds: clock; failed statements and crashes

ASSUME NoneAssumption == None \notin Checks \cup Instances \cup Nat
ASSUME ServingAssumption == Serving \subseteq Instances
ASSUME CodeAssumption == MaxStaleness \in Nat \ {0} /\ PollInterval \in Nat \ {0}
ASSUME BoundAssumption == MaxTime \in Nat \ {0} /\ MaxFaults \in Nat

VARIABLES
  rows,      \* the denylist
  authority, \* the agent behind the token is active
  cache,     \* entries of each instance, for the token
  flying,    \* inflight of each instance: the check whose read new ones join
  print,     \* lastFingerprint of each instance
  polled,    \* lastPollAt of each instance, 0 before the first
  poll,      \* the poll in progress of each instance
  check,     \* the local variables of each check,
  revoke,    \* the local variables of each revocation
  clock,
  faults,
  deadSince, \* history: when the token died, 0 before
  settled,   \* history: instances where a revocation has ended since then
  knew,      \* history: those with a fingerprint from before the first row
  noticed,   \* history: those of them that have polled since
  accepted   \* history: how the token was accepted when it should not have been

store == <<rows, authority>>
memory == <<cache, flying, print, polled, poll>>
obligations == <<deadSince, settled, knew, noticed>>
history == <<obligations, accepted>>
vars == <<store, memory, check, revoke, clock, faults, history>>

--------------------------------------------------------------------------------
\* A row that denies the token (kind agent, sub or jti), and one that does not.
Rows == {"own", "other"}
Stores == {"denylist", "agents"}
Time == 0..MaxTime
Entry == [verdict : {"none", "live", "dead"}, computed : Time]
NoEntry == [verdict |-> "none", computed |-> 0]
\* A fingerprint is told by its count: a row is inserted with a stamp of its own, and none is pruned.
Fingerprints == 0..Cardinality(Rows)
Poll == [pc : {"none", "read", "compare"}, new : Fingerprints, saw : BOOLEAN]
NoPoll == [pc |-> "none", new |-> 0, saw |-> FALSE]
\* overtaken: the generation has moved on since the read of the leader began.
\* owes (history): why the answer had to be no when the check began.
Reasons == {"dead", "stale", "settled", "noticed"}
\* How an answer came about: from the cache, from a read joined, from its own, from a second one.
Ways == {"cached", "joined", "read", "again"}
Check == [pc : {"idle", "poll", "lookup", "await", "resume", "again"}, at : Instances \cup {None},
          leader : Checks \cup {None}, overtaken : BOOLEAN, started : Time, unread : SUBSET Stores,
          how : Ways, verdict : {"none", "live", "dead", "error"}, owes : SUBSET Reasons]
NoCheck == [pc |-> "idle", at |-> None, leader |-> None, overtaken |-> FALSE, started |-> 0, unread |-> {},
            how |-> "read", verdict |-> "none", owes |-> {}]
Revoke == [pc : {"idle", "publish", "push", "retry", "settle", "end"}, at : Instances \cup {None}]
Ended(pc) == [pc |-> pc, at |-> None]

TypeOK ==
  /\ rows \subseteq Rows /\ authority \in BOOLEAN
  /\ cache \in [Instances -> Entry]
  /\ flying \in [Instances -> Checks \cup {None}]
  /\ print \in [Instances -> Fingerprints \cup {None}]
  /\ polled \in [Instances -> Time]
  /\ poll \in [Instances -> Poll]
  /\ check \in [Checks -> Check]
  /\ revoke \in [Revokers -> Revoke]
  /\ clock \in Time /\ faults \in 0..MaxFaults
  /\ deadSince \in Time
  /\ settled \subseteq Instances /\ knew \subseteq Instances /\ noticed \subseteq Instances
  /\ accepted \subseteq Ways \X Reasons

Init ==
  /\ rows = {} /\ authority = TRUE
  /\ cache = [i \in Instances |-> NoEntry]
  /\ flying = [i \in Instances |-> None]
  /\ print = [i \in Instances |-> None]
  /\ polled = [i \in Instances |-> 0]
  /\ poll = [i \in Instances |-> NoPoll]
  /\ check = [c \in Checks |-> NoCheck]
  /\ revoke = [r \in Revokers |-> Ended("idle")]
  /\ clock = 1 /\ faults = 0
  /\ deadSince = 0 /\ settled = {} /\ knew = {} /\ noticed = {} /\ accepted = {}

--------------------------------------------------------------------------------
Denied == "own" \in rows
Dead == Denied \/ ~authority
Fault == faults < MaxFaults /\ faults' = faults + 1
\* history
Dies == deadSince' = IF deadSince = 0 THEN clock ELSE deadSince

\* Drops the positive verdict, and with it every read in flight.
DropLive(i) == cache' = [cache EXCEPT ![i] = IF @.verdict = "live" THEN NoEntry ELSE @]
Overtake(i) == [c \in Checks |->
  IF check[c].at = i /\ check[c].pc \in {"await", "resume"} THEN [check[c] EXCEPT !.overtaken = TRUE] ELSE check[c]]
clearPositive(i) ==
  /\ DropLive(i)
  /\ flying' = [flying EXCEPT ![i] = None]
  /\ check' = Overtake(i)

--------------------------------------------------------------------------------
(* Revocations: publish() of the bus, denylistJti(), and their callers *)

\* agent.revoke(): the agent row comes first.
RevokeAgent(r, i) ==
  /\ revoke[r].pc = "idle"
  /\ authority' = FALSE
  /\ revoke' = [revoke EXCEPT ![r] = [pc |-> "publish", at |-> i]]
  /\ Dies
  /\ UNCHANGED <<rows, memory, check, clock, faults, settled, knew, noticed, accepted>>

\* session.revokeAll(): the sessions it deletes are not read here.
RevokeUser(r, i) ==
  /\ revoke[r].pc = "idle"
  /\ revoke' = [revoke EXCEPT ![r] = [pc |-> "publish", at |-> i]]
  /\ UNCHANGED <<store, memory, check, clock, faults, history>>

\* denylistJti() as the revocation endpoint calls it: one attempt, no clear before
\* it, and one after it also when it fails.  The refresh grant does not clear then.
RevokeToken(r, i) ==
  /\ revoke[r].pc = "idle"
  /\ revoke' = [revoke EXCEPT ![r] = [pc |-> "retry", at |-> i]]
  /\ UNCHANGED <<store, memory, check, clock, faults, history>>

Publish(r) ==
  /\ revoke[r].pc = "publish"
  /\ clearPositive(revoke[r].at)
  /\ revoke' = [revoke EXCEPT ![r].pc = "push"]
  /\ UNCHANGED <<store, print, polled, poll, clock, faults, history>>

\* upsert: a row that is there already stays.
Upsert(r) ==
  /\ rows' = rows \cup {"own"}
  /\ Dies
  /\ knew' = IF ~Denied THEN {i \in Instances : print[i] # None} ELSE knew

Push(r) ==
  /\ revoke[r].pc \in {"push", "retry"}
  /\ Upsert(r)
  /\ revoke' = [revoke EXCEPT ![r].pc = "settle"]
  /\ UNCHANGED <<authority, memory, check, clock, faults, settled, noticed, accepted>>

\* The statement throws before it has had its effect, or after.
AfterFailure(r) == IF revoke[r].pc = "push" THEN "retry" ELSE "settle"
PushFails(r) ==
  /\ revoke[r].pc \in {"push", "retry"}
  /\ Fault
  /\ Upsert(r) \/ UNCHANGED <<rows, deadSince, knew>>
  /\ revoke' = [revoke EXCEPT ![r].pc = AfterFailure(r)]
  /\ UNCHANGED <<authority, memory, check, clock, settled, noticed, accepted>>

\* The caller learns the outcome only after the second clear.
Settle(r) ==
  LET i == revoke[r].at IN
  /\ revoke[r].pc = "settle"
  /\ clearPositive(i)
  /\ revoke' = [revoke EXCEPT ![r] = Ended("end")]
  /\ settled' = IF Dead THEN settled \cup {i} ELSE settled
  /\ UNCHANGED <<store, print, polled, poll, clock, faults, deadSince, knew, noticed, accepted>>

\* Something else is revoked, in a process of its own.
RevokeElsewhere ==
  /\ rows' = rows \cup {"other"}
  /\ UNCHANGED <<authority, memory, check, revoke, clock, faults, history>>

--------------------------------------------------------------------------------
(* checkCached().  Live mode is a check that starts at ReadsStores. *)

Owes(i) ==
  {why \in Reasons :
     CASE why = "dead" -> Dead
       [] why = "stale" -> Dead /\ clock >= deadSince + MaxStaleness
       [] why = "settled" -> i \in settled
       [] why = "noticed" -> i \in noticed}

Due(i) == polled[i] = 0 \/ clock - polled[i] >= PollInterval

ReadsStores(i, owes) ==
  [NoCheck EXCEPT !.pc = "again", !.at = i, !.unread = Stores, !.verdict = "live", !.owes = owes]

\* Cached mode polls first when a poll is due, or waits for the one in progress.
checkCached(c, i) ==
  /\ check[c].pc = "idle"
  /\ check' = [check EXCEPT ![c] = [NoCheck EXCEPT !.pc = IF Due(i) THEN "poll" ELSE "lookup",
                                      !.at = i, !.owes = Owes(i)]]
  /\ poll' = [poll EXCEPT ![i] = IF Due(i) /\ @.pc = "none" THEN [NoPoll EXCEPT !.pc = "read"] ELSE @]
  /\ UNCHANGED <<store, cache, flying, print, polled, revoke, clock, faults, history>>

\* Being late is no wrong in itself, except for a check that read the stores;
\* a check that has not read them twice answers for what happened meanwhile.
Wrong(how, c) ==
  LET i == check[c].at
      late == IF how \in {"read", "again"} THEN {} ELSE {"dead"}
      meanwhile == IF how = "again" THEN {} ELSE Owes(i) \cap {"settled", "noticed"} IN
  {how} \X ((check[c].owes \cup meanwhile) \ late)
Answer(c, verdict, how) ==
  /\ check' = [check EXCEPT ![c] = NoCheck]
  /\ accepted' = IF verdict = "live" THEN accepted \cup Wrong(how, c) ELSE accepted

FreshAlways(entry) == entry.verdict # "none"
Usable(entry) ==
  \/ entry.verdict = "dead"
  \/ entry.verdict = "live" /\ clock - entry.computed < MaxStaleness

LookupHit(c) ==
  LET entry == cache[check[c].at] IN
  /\ check[c].pc = "lookup" /\ Usable(entry)
  /\ Answer(c, entry.verdict, "cached")
  /\ UNCHANGED <<store, memory, revoke, clock, faults, obligations>>

\* Join the read in flight.
LookupJoin(c) ==
  LET i == check[c].at IN
  /\ check[c].pc = "lookup" /\ ~Usable(cache[i]) /\ flying[i] # None
  /\ check' = [check EXCEPT ![c] = [@ EXCEPT !.pc = "await", !.how = "joined", !.leader = flying[i],
                                             !.overtaken = check[flying[i]].overtaken]]
  /\ UNCHANGED <<store, memory, revoke, clock, faults, history>>

LookupRead(c) ==
  LET i == check[c].at IN
  /\ check[c].pc = "lookup" /\ ~Usable(cache[i]) /\ flying[i] = None
  /\ check' = [check EXCEPT ![c] = [@ EXCEPT !.pc = "await", !.leader = c, !.started = clock,
                                             !.unread = Stores, !.verdict = "live"]]
  /\ flying' = [flying EXCEPT ![i] = c]
  /\ UNCHANGED <<store, cache, print, polled, poll, revoke, clock, faults, history>>

\* computeVerdict(): the denylist and the agent are read side by side.
Reading(c) == (check[c].pc = "await" /\ check[c].leader = c) \/ check[c].pc = "again"
ReadStore(c, which, dead) ==
  /\ Reading(c) /\ which \in check[c].unread
  /\ check' = [check EXCEPT ![c] = [@ EXCEPT !.unread = check[c].unread \ {which},
                                             !.verdict = IF dead THEN "dead" ELSE check[c].verdict]]
  /\ UNCHANGED <<store, memory, revoke, clock, faults, history>>
ReadDenylist(c) == ReadStore(c, "denylist", Denied)
ReadAgents(c) == ReadStore(c, "agents", ~authority)

HasRead(c) == Reading(c) /\ check[c].unread = {}
\* Everybody who waits for the read of c resumes.
Wake(c, verdict) ==
  check' = [d \in Checks |->
    IF check[d].leader = c
    THEN [NoCheck EXCEPT !.pc = "resume", !.verdict = verdict, !.at = check[d].at, !.overtaken = check[d].overtaken,
                         !.how = check[d].how, !.owes = check[d].owes]
    ELSE check[d]]
Land(c) ==
  LET i == check[c].at IN flying' = [flying EXCEPT ![i] = IF @ = c THEN None ELSE @]

\* A live verdict is kept unless the cache was cleared since the read began.
Keeps(c) == check[c].verdict = "dead" \/ ~check[c].overtaken
Resolve(c) ==
  LET i == check[c].at IN
  /\ check[c].pc = "await" /\ HasRead(c)
  /\ cache' = [cache EXCEPT ![i] = IF Keeps(c) THEN [verdict |-> check[c].verdict, computed |-> check[c].started] ELSE @]
  /\ Wake(c, check[c].verdict)
  /\ Land(c)
  /\ UNCHANGED <<store, print, polled, poll, revoke, clock, faults, history>>

\* A clear overtook the read this check waited for: it reads once more, for itself.
Joined(c) == FALSE
Overtaken(c) == check[c].verdict = "live" /\ check[c].overtaken
Resume(c) ==
  /\ check[c].pc = "resume"
  /\ \/ /\ ~Overtaken(c)
        /\ Answer(c, check[c].verdict, check[c].how)
     \/ /\ Overtaken(c)
        /\ check' = [check EXCEPT ![c] = ReadsStores(check[c].at, check[c].owes)]
        /\ UNCHANGED accepted
  /\ UNCHANGED <<store, memory, revoke, clock, faults, obligations>>

ReadAgain(c) ==
  /\ check[c].pc = "again" /\ HasRead(c)
  /\ Answer(c, check[c].verdict, "again")
  /\ UNCHANGED <<store, memory, revoke, clock, faults, obligations>>

\* A store error refuses the token, for everybody who waits.
ReadFails(c) ==
  /\ Reading(c) /\ ~HasRead(c) /\ Fault
  /\ \/ /\ check[c].pc = "again"
        /\ Answer(c, "error", "again")
        /\ UNCHANGED flying
     \/ /\ check[c].pc = "await"
        /\ Wake(c, "error")
        /\ Land(c)
        /\ UNCHANGED accepted
  /\ UNCHANGED <<store, cache, print, polled, poll, revoke, clock, obligations>>

\* Other tokens fill the cache and this one's entry is the oldest.
Evict(i) ==
  /\ cache[i] # NoEntry
  /\ cache' = [cache EXCEPT ![i] = NoEntry]
  /\ UNCHANGED <<store, flying, print, polled, poll, check, revoke, clock, faults, history>>

--------------------------------------------------------------------------------
(* maybePoll() *)

\* Everybody who waits for the poll of i goes on.
EndPoll(i) ==
  /\ poll' = [poll EXCEPT ![i] = NoPoll]
  /\ polled' = [polled EXCEPT ![i] = clock]
Waiting(c, i) == check[c].pc = "poll" /\ check[c].at = i
Proceed(checks, i) == check' = [c \in Checks |-> IF Waiting(c, i) THEN [check[c] EXCEPT !.pc = "lookup"] ELSE checks[c]]

\* The newest row and the count below it, read as one.
fingerprint(i) ==
  /\ poll[i].pc = "read"
  /\ poll' = [poll EXCEPT ![i] = [pc |-> "compare", new |-> Cardinality(rows), saw |-> Denied]]
  /\ UNCHANGED <<store, cache, flying, print, polled, check, revoke, clock, faults, history>>

\* A fingerprint other than the last one clears.  The first one does not.
Shrunk(i) == print[i] # None /\ poll[i].new < print[i]
Changed(i) == print[i] # None /\ poll[i].new # print[i]
Compare(i) ==
  /\ poll[i].pc = "compare"
  /\ \/ /\ Changed(i)
        /\ DropLive(i)
        /\ flying' = [flying EXCEPT ![i] = None]
        /\ Proceed(Overtake(i), i)
     \/ /\ ~Changed(i)
        /\ UNCHANGED <<cache, flying>>
        /\ Proceed(check, i)
  /\ print' = [print EXCEPT ![i] = poll[i].new]
  /\ noticed' = IF poll[i].saw /\ i \in knew THEN noticed \cup {i} ELSE noticed
  /\ EndPoll(i)
  /\ UNCHANGED <<store, revoke, clock, faults, deadSince, settled, knew, accepted>>

PollFails(i) ==
  /\ poll[i].pc # "none" /\ Fault
  /\ EndPoll(i)
  /\ Proceed(check, i)
  /\ UNCHANGED <<store, cache, flying, print, revoke, clock, history>>

--------------------------------------------------------------------------------
\* A process dies with its memory, its checks and its revocations.
Crash(i) ==
  /\ Fault
  /\ cache' = [cache EXCEPT ![i] = NoEntry]
  /\ flying' = [flying EXCEPT ![i] = None]
  /\ print' = [print EXCEPT ![i] = None]
  /\ polled' = [polled EXCEPT ![i] = 0]
  /\ poll' = [poll EXCEPT ![i] = NoPoll]
  /\ check' = [c \in Checks |-> IF check[c].at = i THEN NoCheck ELSE check[c]]
  /\ revoke' = [r \in Revokers |-> IF revoke[r].at = i THEN Ended("end") ELSE revoke[r]]
  /\ knew' = knew \ {i} /\ noticed' = noticed \ {i}
  /\ UNCHANGED <<store, clock, deadSince, settled, accepted>>

Tick ==
  /\ clock < MaxTime
  /\ clock' = clock + 1
  /\ UNCHANGED <<store, memory, check, revoke, faults, history>>

Begin ==
  \E i \in Instances :
    \/ \E r \in Revokers : RevokeAgent(r, i) \/ RevokeUser(r, i) \/ RevokeToken(r, i)
    \/ i \in Serving /\ \E c \in Checks : checkCached(c, i)

RevokeStep(r) == Publish(r) \/ Push(r) \/ Settle(r)
CheckStep(c) ==
  \/ LookupHit(c) \/ LookupJoin(c) \/ LookupRead(c)
  \/ ReadDenylist(c) \/ ReadAgents(c) \/ Resolve(c) \/ Resume(c) \/ ReadAgain(c)
PollStep(i) == fingerprint(i) \/ Compare(i)

Next ==
  \/ Tick \/ RevokeElsewhere \/ Begin
  \/ \E r \in Revokers : RevokeStep(r) \/ PushFails(r)
  \/ \E c \in Checks : CheckStep(c) \/ ReadFails(c)
  \/ \E i \in Instances : PollStep(i) \/ PollFails(i) \/ Evict(i) \/ Crash(i)

Spec == Init /\ [][Next]_vars

--------------------------------------------------------------------------------
(* Properties *)

\* On the instance where a revocation ran, whether or not its push succeeded,
\* no check accepts a token that is dead in the stores once it has returned
\* (publish(), or the revocation endpoint, which clears after a failed push):
\* neither from the cache, nor from a read that was in flight, its own or
\* another's.  Only a second read may have been under way.
RevokerRefuses == \A how \in Ways : <<how, "settled">> \notin accepted

\* So does an instance that knew the denylist before the first row, once it has
\* polled the row.
PollRefuses == \A how \in Ways : <<how, "noticed">> \notin accepted

\* However polls, pushes and processes fail, the cache outlives the token by
\* less than maxStalenessMs, and a check that reads for itself never accepts
\* a token that was dead when it began.
StalenessBounded ==
  <<"cached", "stale">> \notin accepted /\ {<<"read", "dead">>, <<"again", "dead">>} \cap accepted = {}

\* A negative verdict is terminal: no late read that still saw the token alive
\* takes its place.
NegativeStays ==
  [][\A i \in Instances : cache[i].verdict = "dead" => cache'[i].verdict # "live"]_vars

\* What docs/mcp-revocation.mdx:55 says of cached mode: other instances are
\* "never longer than `maxStalenessMs`" behind a revoke.
NeverStaler == \A how \in Ways : <<how, "stale">> \notin accepted
================================================================================

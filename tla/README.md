# TLA+ models of theAuth

theAuth gives identities, permissions, delegation and audit to AI agents and to
the people they act for. It is a TypeScript monorepo; the logic lives in
`packages/core/src`. Every function of it is `async` and keeps its state in a
SQL database that several processes may share, and almost nothing runs in a
transaction. So the question this project asks everywhere is the same: **what
still holds when the statements of concurrent calls interleave, when a call
stops after any of them, and when what a call read is no longer so by the time
it writes?**

Run a model with `tlc -workers 2 -config <run>.cfg <module>` and a proof with
`tlapm <module>.tla`, in this directory. `PROJECT.json` lists components, runs,
the source lines behind every definition, hazards, findings and theorems.

## 1. The system

Paths are below `packages/core/src`. `M` = modelled, `m` = modelled in part
(section 6 says which), `-` = not modelled.

| | Component | State | Operations | Hard behaviour | What makes it correct |
|-|-|-|-|-|-|
| M | Approvals `approval/` | `approval_requests`, `approval_votes`, audit rows | request, approve, deny, vote, cleanup, consume | votes race each other, a denial and the sweep; clock read once per call; audit after the decision | a quorum is distinct people, never the requester; settled once; spent once; the trail agrees |
| M | Refresh families `session/token-family.ts`, `refresh.ts` | `refresh_token_families`, `refresh_tokens` | login, refresh, reuse, logout | two tabs, a replay, a retry after a lost answer; seconds against milliseconds | one chain of tokens; reuse kills the family; the grace window is never longer than it says |
| M | Delegation `delegation/` | `delegation_chains`, agents, permissions | delegate, revoke, revoke all of an agent, liveness walk | authority read before the insert; cascades row by row; loops; crash half way | what is lent was held; nothing survives below a revocation; every call ends |
| m | Audit chain `audit/` | `audit_logs` hash chain, gap counter in memory | append, gap marker, retention, verify | racing appends, failed writes, deletion of a prefix | a chain never forks; retention spares what has not expired; a lost write is told of; verify accepts what the code wrote |
| m | Authorization `authorize/`, `permission/`, `policy/` | none of its own | authorize, authorizeByToken, delegated fallback, constraints | reads an agent that is revoked, updated or expires meanwhile; spends an approval and a rate slot, with denials after | a revoked agent gets nothing; what is spent on a refusal is only what is meant to be; one row per decision |
| M | Rate limits `db/store/single-use.ts` | counter rows | reserve | increment, sum, take back, each a statement; collisions of first calls; a crash leaks a count | never admits more than the maximum |
| m | Agents `agent/agent.ts` | agents, permissions | create, update, rotate, revoke, resolveToken | delete-then-insert permissions; expiry flip on a stale row | a revoked agent stays refused; permissions are replaced, not mixed |
| m | MCP freshness `mcp/freshness.ts`, `revocation-bus.ts` | denylist rows; verdicts, reads in flight and a fingerprint in memory | check (live, cached), publish, poll | joined reads that predate a clear; a push that fails; polls that overlap rows | a revoked token is refused at once here, and after the next poll or `maxStalenessMs` elsewhere |
| m | MCP grants `mcp/token.ts`, `grant-refresh-token.ts`, `revocation.ts` | codes, token rows, families, denylist | redeem, refresh, revoke | claims race; rows deleted before their jti is denied; a sign-out between check and mint | no fork; a revoked grant mints nothing; a rotated or revoked access token is denied |
| m | GDPR erasure `auth/gdpr-delete.ts`, `gdpr-progress.ts`, `audit/erasure.ts` | every row of the user; a progress marker in the metadata of a tombstone user; erasure records | deleteUser, called again until it ends | nine steps without a transaction; two calls and one marker; what the user's agents still write; foreign keys | no step is skipped; nothing unguarded is left behind; every erased row has its record; the end state of an uninterrupted run |
| m | Password sign-in `auth/login-lockout.ts`, `username.ts`, `email-password.ts` | counters and locks with an expiry in a shared store | check, recordFailure, recordSuccess, unlock | guesses in parallel; a counter forgotten and a lock set by two calls of the store; a store that fails open | passwords checked are paid for with strikes, strikes and delays with failures |
| - | Budgets, sessions, other human sign-in, OAuth/OIDC provider, vault | rows of their own | | | |
| - | Database kernel and adapters, HTTP, admin API, UI, CLI, SDKs | | | input and output | |

The parts meet through rows, not messages. `authorize()` reads an agent's
permissions and, through `delegation/liveness.ts`, the links that lend it more;
a constraint may count the call against a rate limit or ask for a human
approval, which `authorize()` then spends. `agent.revoke()` flips the agent,
publishes to the revocation bus and then walks delegation's cascades. MCP tokens
carry no state a resource server reads but the denylist, so every revocation
must end in a denied jti, subject or agent. `deleteUser()` goes
through the rows of all of them, in an order that foreign keys make it keep. All
of them write audit rows, after the fact and best effort, except that the cascade
audits a link *before* it flips it so that a retry can tell what is done.

## 2. How the models are built

One step is one database statement (with the local computation up to the next
`await`); `call[c]` holds the local variables of call `c` between its steps,
`pc` naming the statement it runs next. Conditional updates
(`UPDATE ... WHERE`) are the only atomic test-and-set, as in
`db/store/single-use.ts`. `Crash(c)` ends a call anywhere, leaving what it
wrote. `Tick` is the clock of the server; a call that reads the clock once
carries it in `now`. Refusals that change nothing are simply calls that take no
step. Variables under *history* are not in the code; they remember what a
property needs and no guard reads them.

Some definitions sit before the one they would replace and are used nowhere:
each is a plausible mistake, listed in `PROJECT.json` under `mutants`, and
putting it in place of the real definition makes the named property fail. They
show that a property notices something. In `Erasure` their names begin with
`Bug`.

### Modules

| Module | Models | |
|-|-|-|
| `ApprovalLifecycle` | what an approval promises | abstract |
| `Approvals` | `approval/approval.ts`, `quorum.ts`, `consume.ts` | implements `ApprovalLifecycle` |
| `ApprovalsProofs` | theorems about `Approvals` | TLAPS |
| `TokenFamily` | `session/token-family.ts`, `session/refresh.ts` | |
| `Lockout` | `auth/login-lockout.ts`, `signIn()` of `username.ts` up to the password, `storage/memory.ts` | |
| `TokenFamilyProofs` | theorems about `TokenFamily` and about `Lockout` | TLAPS |
| `Delegations` | `delegation/delegation.ts`, `liveness.ts`, `agent.revoke()` | |
| `DelegationsProofs` | theorems about `Delegations` | TLAPS |
| `DelegationRetries` | `Delegations` with a memory of interrupted revocations | composed |
| `AuditChain` | `audit/chain.ts`, `record.ts`, `audit.ts` (cleanup), `verify.ts` | |
| `AuditChainProofs` | theorems about `AuditChain` | TLAPS |
| `Freshness` | `mcp/freshness.ts`, `revocation-bus.ts`, `stores-db-revocation.ts` | |
| `FreshnessProofs` | theorems about `Freshness` | TLAPS |
| `McpGrants` | `mcp/token.ts`, `grant-refresh-token.ts`, `revocation.ts`, `stores-db-tokens.ts` | |
| `McpGrantsProofs` | theorems about `McpGrants` | TLAPS |
| `RateSlots` | `checkRateLimit()`, `rateLimits.reserve()` | |
| `Authorize` | `authorize/pipeline.ts`, `permission/engine.ts`, `agent.update()`, `revoke()`, `resolveToken()` | composed: extends `RateSlots`, whose steps are its own |
| `AuthorizeProofs` | theorems about `RateSlots` and `Authorize`, and that the latter implements the former | TLAPS |
| `Erasure` | `auth/gdpr-delete.ts`, `gdpr-progress.ts`, `audit/erasure.ts`, `auth/user-revocation.ts` | |
| `ErasureProofs` | theorems about `Erasure` | TLAPS |
| `MC...` | instances for TLC: symmetry, named links, agents and grants | |

**Approvals.** `status`, `required`, `expiresAt`, `consumed` are the columns of
a request, `votes` its vote rows, `audit` the rows written about it. `request()`
is `Request` then `Audit`; `resolve()` reads the row and becomes
`ResolveOverdue`, `ResolveOne` or `ResolveQuorum`; `castApproval` is `ListVotes`,
`InsertVote`, `CountVotes`, then `Flip` on a full quorum (`ReadAfter` and
`Withdraw` when somebody was faster) or `ReadFresh`; `cleanup()` and
`markExpired` are `Cleanup` and `ExpireRow`; `consumeApproval()` is
`ConsumeRead` and `Spend`. Step-up proofs, argument hashes and webhooks are left
out: they refuse a call or are fire-and-forget.

**TokenFamily.** `Login`/`Sign`/`Issue` open a family; `Present`, `ReadFamily`,
`ClaimToken`, `Reread`, `Revoke` are `consumeToken`; `Sign` and
`AbsoluteTimeout` are the check before `buildRefreshResult`. Time counts ticks,
`Second` of them to a second, so that the whole-second `used` column and the
millisecond window keep their difference.

**Lockout.** One account: two share no key, and `changePassword()` guards itself
the same way under a key of its own. `fail`, `attempt`, `strike`, `lock` are its
entries in the store, `ipFail` and `ipLock` those of the account and each client;
`Incremented`, `Stored` and `LockEntry` say what the store does with an expiry.
`ReadLock`, `ReadIpLock` and `Reserve` are `check()`; `Fail`, `Strike`,
`ForgetFailures`, `ForgetSlots`, `SetLock`, then `FailPair` and `SetIpLock` are
`recordFailure()`; `recordSuccess` and `unlock` with `UnlockStep` the other two.
Whether a password is right is anybody's guess. `StoreFails` is a call of the
store that throws, before or after it counted: `check()` then lets the sign-in
through, or refuses it where `failClosed` is set; the others give up. `checked`
are all whose password is looked at, also those whom a failing store let through
without a slot. What the nth lock and the nth delay last are the sequences
`LockFor` and `DelayFor`.

**Delegations.** `Delegate`, `ReadAuthority`, `InsertLink`, `RecheckInbound`,
`Rollback` are `delegate()`; `RevokeAgent` and `ListRows` the agent's
revocation; `ReadLink`, `LookupAudit`, `WriteAudit`, `FlipLink`,
`ListChildren` are `revokeLink`, whose recursion is the stack `todo` of loops
still to run (`NextLink`). `Lends` and `LinkLive` are the liveness walk. Each
link id is asked for at most once, with the input `Wanted` gives it; delegators
are agents; permissions are a set, so `isPermissionSubset` is `\subseteq` and
constraints on permissions are left out. The reads of one liveness walk are one
step: it reads only, and what a link's delegator may do between two of its reads
it may also do after the walk.

**AuditChain.** A row is known by its place in `rows`, the history of inserts,
which also stands for its hash; `table` holds the rows not deleted. One agent is
enough, as agents have chains of their own. `Record`, `RecordFails` and
`RecordEvent` are `recordAuditEvent()` with its gap row; `ReadHead`,
`AppendRow`, `AppendRefused`, `GiveUp` and `StatementFails` are
`insertAuditRow()`, behind the `queue` of its process; `Cleanup`, `ListExpired`
and `Delete` are retention, which appends its checkpoint between the last two;
`Verify`, `ReadStop`, `ReadPred`, `ReadFirst`, `ReadAnchors` and `ReadPage` are
the verifier, a statement each. A statement may throw before or after its
effect; `Crash` takes a process with its calls, queue and counter. Two history
variables mark what the properties leave out, and why. `late`: a writer that
slept between head and insert while its number was taken *and* deleted gets the
number again, and forks the chain; the row that took it must expire during the
sleep. `docs/audit-trail.mdx:78` ("a single unique index ... is enough to stop a
fork") does not mention it. `disturbed`: rows deleted during a verification may
make it report a break. Erasure, the anchors of `checkpoint()`, rows written
before the chain was enabled and date ranges of the verifier are left out.

**Freshness.** One token, several instances of a resource server. `rows` and
`authority` are shared, `cache`, `flying` (the read new checks join), `print`,
`polled` and `poll` the memory of each. `checkCached()` is `checkCached`,
`LookupHit`, `LookupJoin` or `LookupRead`, then `ReadDenylist` and `ReadAgents`
in any order, `Resolve`, and `Resume`, which reads once more (`ReadAgain`) when
a clear overtook the read; `maybePoll()` is `fingerprint` and `Compare`;
`publish()` is `Publish`, `Push` and `Settle`, with one retry in
`AfterFailure`. The generation counter of the code is the flag `overtaken` of
each read in flight: only its difference is ever looked at. History variables
record what a check owed its caller when it began. Live mode is a check that
starts with the second read.

**McpGrants.** A pair is an access token with its refresh token; a family is
known by the code it began with. `consumeAuthorizationCode` or `Refresh`,
`checkGrantLive`, `consumeToken`, `Claim`, `Mint`, `denylistJti`,
`issueRefreshToken`, `storeToken`, `Deliver` are the statements of the two
grants; `revokeFamily`, `revokeTokenFamily`, `DeleteRows`, `DenyOne`,
`revokeStoredAccessToken`, `DenyOwn` those of `revokeFamilyAndTokens()`, which
the revocation endpoint, a reuse and a dead grant share. `epoch` counts the
sign-outs of the user: a grant is older than the watermark or not. The reads
inside `consumeToken()` are `TokenFamily`'s subject and one step here.

*Taken as one step.* A statement of the code is a step of a model, with these
exceptions. `ConsumeRead` reads the clock and the row (`consume.ts:173-174`): a clock
read before only lets an approval be spent that was alive when the call began.
`fingerprint` is two statements (`stores-db-revocation.ts:158-169`): a row that lands
in between makes this print differ, or the next one. `Erasure!Revoke` is a select
and an update (`user-revocation.ts:18-26`): the select only tells whether there is
an agent, and whose revocation to push. Three are coarser. `RewriteRest` makes a row anonymous
where `erasure.ts:129-132` sets only its `user_id`: its agent stays named, which
`AgentRefs` would see if a later call with other options deleted the agents.
`Lends` knows whether an agent is active, and not that an agent still marked so
may be past its own expiry (`liveness.ts:87`). And `Settle` clears the cache
after a failed push, as `handleRevocation()` has it (`revocation.ts:77-87`): the
refresh grant (`grant-refresh-token.ts:72`, `:89`, `:192`) denies through the same bus
without that clear, and `RevokerRefuses` says nothing of it.

**RateSlots.** `rows` are the buckets that have a row and `slot` says which
bucket counts a reservation, so that a count is told by who makes it up.
`Bump`, `Insert`, `Rebump`, `Sum`, `Undo` are the statements of `reserve()`.

**Authorize.** `load` reads the agent and its permissions, side by side for
`get()`, one after the other for `resolveToken()`; `Match` picks a grant,
`Reserve` and `Limited` are its rate limit, `Inspect` its other constraints (any
may fail), `consumeApproval` its approval; a denial of the own permissions goes
to `Delegated` and through the same steps again. Audit rows are written in three
places: `RecordAllowed` is the engine's row for what it allows, `recordDenial` the
row for an agent that may not act at all, and `auditDenial` the row the pipeline
writes for a denial of both paths, which the engine left to it (`Defers`). A row
carries the id of the path or place it is about. Each write may fail with or
without its row and is swallowed; without `auditAll` there are none.
`update()` and `revoke()` run beside it. The steps of `reserve()` are
`RateSlots`' own actions, one reservation per call and path.

**Erasure.** One user. `owner` and `active` are the columns of the agents, `link`
the agents that a delegation still names by their own id, `live` those whose link
is active; `rows` tells of each audit row whether it names the user (`raw`), was
rewritten or deleted, and `records` which rows each erasure record names. All
other rows are items of `left`, one for each way the code treats them. `Begin`
to `SaveFirst` read the user, the agents and the `marker` and write the first
one; `Entry` names the first statement of each step; `Save`, `SaveWrite` and
`Finish` are `saveErasureMarker()`, a read and a write. A batch is several
statements, as on a backend without batches. `Repoint` and `Move` are step 2,
`Audit` to `DropRows` `eraseAuditIdentity()` in both its modes, `MoveAgents` and
`MoveOwned` step 7, and `Throws` the foreign keys: `UserRefs` and `AgentRefs`
are those that do not cascade. The cascade writes the row of its revocation
(`WriteNote`) before it flips the link, so step 0 makes a row step 3 has to find.
`SignIn`, `CreateAgent` and `AgentActs` are what the user and the agents still do
once the erasure has begun; before, they are part of the initial state. Rows of
the tombstones are not variables: each is inserted, if it is missing, before
anything refers to it. `Legacy` rows are those whose hash covers the raw ids.

## 3. The runs

| Run | Instance | Shows |
|-|-|-|
| `approvals` | one request of quorum 1 or 2, two voters and the requester, three calls, one crash, expiry after one of two ticks, fair | `QuorumBehindApproval`, `SpentAtMostOnce`, `AuditTellsOutcome`, `AuditedVotesStand`, that the code implements `ApprovalLifecycle`, and `FullQuorumSettles`: unless a call is cut short, a full quorum does not leave a request pending |
| `token_family` | one family, three tokens, two calls, half-second ticks, grace of zero and of half a second, one crash | `OneLiveToken`, `ReuseRevokes`, `NoRefreshAfterRevocation`, `GraceNotExceeded` |
| `delegations` | boss lends to lead, lead to worker, worker back to lead; two calls, one failure, one expiry | `LiveMeansRooted`, `NothingStranded`, `RevokedIsAudited` |
| `delegations_live` | the same loop, no failure, fair | `CallsEnd`: cascades end on loops and when they meet |
| `delegations_rollback` | a line of three links | finding 1 |
| `delegations_retry` | a line of three links, one crash, one retry | finding 2 |
| `audit_chain` | two processes, two calls in either, three inserts, two attempts, pages of one row, two ticks, two failures or crashes | `OneChain`, `NoFalseAlarm`, `FailuresAreTold`, `RetentionSparesYoung` |
| `freshness` | two instances, one of which serves checks; two checks, one revocation, one failed statement or crash, three ticks, staleness of two, a poll every tick | `RevokerRefuses`, `PollRefuses`, `StalenessBounded` |
| `mcp_grants` | one code, three pairs, two requests, one sign-out, one request that stops | `NoFork`, `RevokedMintsNothing`, `KillIsWhole`, `OneAccess`, `AnswerIsTrue` |
| `authorize` | two calls on two paths, two updates or revocations, a grant of one call an hour and one of two with approval, one failure, two moments an hour apart | `NeverOver`, `RevokedRefuses`, `SpentIsAllowed`, `TrailTellsAnswer`, `AllowedIsCounted`, `UpdateIsWhole` |
| `lockout` | three sign-ins with or without a client, a threshold of two, a grace of one; two of an `unlock()`, a failure of the store and the end of all windows | `ChecksArePaid`: a burst of guesses costs a strike, but for one guess per failing call of an open store; `StrikesAreEarned`, `DelaysAreEarned` |
| `erasure` | two calls that keep or that delete, one failed statement or crash, a user with one linked agent or none, two old audit rows; meanwhile one sign-in, new agent or audit row; fair | `NoStepSkipped`, `GoneIsClean` (what is left of a user who is gone: at most their id as actor, in rows that were to be kept), `RecordsTell`, `EndsAsAsked`, and `RetryFinishes`: an erasure called again ends |

Every type invariant is proved (section 4).

*Bounds.* The races are between calls about one row, so one request, one family,
one chain and three links suffice to have each pair of statements meet; a call
that ends starts anew, so two are a winner and a loser, and the three of
approvals make room for one more that settles, denies or sweeps. With a third
voter, who casts a vote that is not needed, the safety properties hold as well
(without fairness and with the calls symmetric, 1.1 million states); liveness
takes too long there.
Three links are the smallest loop below a root, and the smallest chain whose
middle may be undone. Three rows are a gap row and its event, or a row, the
checkpoint that lets it go and a successor; `MaxAttempts` 2 has a retry and a
give-up, and a page of one row has a verifier turn pages. Two ticks put every statement before, at and after a
deadline. Four links were tried and do not finish in reasonable time.
Two checks are a read and one that joins it; the revocation may run on the
instance that serves them or on the other, which is all an instance can be to a
check. Three pairs are two rotations, so a family has a middle; two requests
that start anew are any two of a redemption, a rotation, a replay and a
revocation. Two calls with two paths are four reservations against limits of one
and two. Three sign-ins against a threshold of two are one that crosses it, one past it,
and one that arrives while the counters are forgotten; two that fail are one
past a grace of one. `TwoAtMost` keeps the failure, `unlock()` and the end of the
windows from all coming together; without it the run passes too (10 million
states). The store of the run fails open, and one failure is one guess nobody pays
for; the theorems hold for either `failClosed`. Two erasures and one failure are a call that dies and one that resumes,
or a slow call that meets the marker of a faster one; the two old rows lie on an
agent of the user and on somebody else's, in two chains, and both are of version
1, the only one whose rewriting needs a record. The invariants of `erasure`
also hold when the two calls may have different options (`Offers` with the set
of both, 8.1 million states), a check too long to keep as a run.

*Deadlock* is checked in `erasure`, where somebody can always call again. It is
not in the other runs: clocks, ids and crashes are bounded and nobody is obliged
to call, so every one of those instances may stop.

*Fairness.* `FairSpec` adds `WF_vars(Continue(c))` for each call: the runtime
resumes a call whose awaited statement has returned. It says nothing of a call
that crashed, never obliges anybody to start a call, and does not choose among
the calls. Nothing in the code would justify more. The one exception is
`erasure`, whose `FairSpec` also has somebody begin a call while a marker is not
done: `docs/gdpr.mdx` tells whoever asked for the erasure to call `deleteUser`
again after an error, and an erasure nobody repeats cannot end.

## 4. What is proved

`ApprovalsProofs` holds, for every set of requests, people, requesters and
calls, every set of quorums, and every bound on time and crashes:

* `TypeCorrect`, `QuorumTheorem`, `SpendTheorem`, `TrailTheorem`: `TypeOK`,
  `QuorumBehindApproval`, `SpentAtMostOnce` and `AuditTellsOutcome` are invariants;
* `VotesStandTheorem`: `AuditedVotesStand` is one;
* `Implements`: `Spec => LifecycleSpec`.

From the assumptions named in `Approvals`, which TLC evaluates: people are
numbers (the vote list is sorted by id), `None` is none of the ids, quorums are
positive, the lifetime is positive.

None of those invariants is inductive alone: what makes `Flip` right is what the
call counted before. `IInv` adds per row (`RowOK`) that votes are one per person
and each voter a backer, none a requester, and that `spends` counts `consumed`;
and per call (`CallOK`) what the call may rely on at each `pc`: the row exists,
a voter is not a requester, a call about to flip counted a full quorum of
backers, a call about to write an outcome's row sees that outcome. The lemma
`CallFrame` shows once that a call that does not move keeps all that, because
`Forward` holds of every step: outcomes, quorums and backers are never undone.
Each group of actions then has its lemma, and the refinement is the same case
split, every step mapping to a step of `ApprovalLifecycle` or to a stutter.

That a vote the trail tells of stays on record needs to know who may withdraw
it: only the call that inserted it, which the primary key makes one. `CastOK` says
that a call which may still withdraw its vote (`Casting`) is alone with it among
those that cast or are about to tell (`Telling`), and that no row of the trail
names the vote yet: a call withdraws or tells, never both.

`AuditChainProofs` holds for any processes and calls and every bound on
attempts, page, rows, time and failures, from the assumptions that the calls are
finitely many, the attempts and the page positive and the bounds numbers:

* `TypeCorrect`: `TypeOK` is an invariant;
* `RowsAreOneChain`: `OneChain` is one;
* `YoungRowsStay`: `Spec => RetentionSparesYoung`;
* `AlarmsAreReal`: `NoFalseAlarm` is an invariant;
* `FailuresStayTold`: `FailuresAreTold` is one.

`OneChain` speaks of the table only and is not inductive. `IInv` adds, while no
writer was late, that every row ever inserted has its place as its number and
the row before as its predecessor, that the table is a suffix of that history,
that its first row is the first ever or follows a checkpoint in the table, and
what a call `Held` between its statements: a writer, a number behind some row of
the history; a cleanup, a prefix all of which has expired and, before it
deletes, the checkpoint beyond it. The heart is the lemma `NextPlace`: a number
whose row is present the index refuses, one whose row was deleted makes the
writer late, so the row goes to the next place or nowhere. A cut is then a
suffix that starts behind the checkpoint it left.

No false alarm rests on `OnTrack`, what each statement of a walk that saw no
deletion may rely on: its cursor is a row of the table, the lowest until the first
page is read; its end is one too, not below the cursor; the row it compares a
page with is the one before the cursor, or none. A page is then all the numbers
from the cursor to its end (`PageLinked`), what others insert comes behind the
end, and a deletion disturbs the walk, which is then nobody's promise.

That failures are told of is about a sum over the calls of a process. `SumIs`
shows that the fold of the property is the number of pairs of a call and a
failure it tells of: that number solves the fold's recursion, and a smallest set
of calls where the fold differed shows that nothing else does. What a step adds
to the sum then follows from theorems on finite sets (`TotalChanges`). The
invariant adds (`Blank`) that only gap rows tell of failures, so a row that
fails loses nothing but what its process counts again.

`TokenFamilyProofs` holds for any users, families, tokens, calls, set of grace
windows, resolution of the clock and bounds, from the assumptions that a second,
the lifetimes and the bound on time are positive numbers and `None` is no id:

* `TypeCorrect`; `ReuseTheorem`, `RevocationTheorem`, `GraceTheorem`:
  `ReuseRevokes`, `NoRefreshAfterRevocation` and `GraceNotExceeded` are
  invariants. They rest on `Known`, what the snapshots of a call are still good
  for: a used column and a revoked flag never go back (`Forward`), so a call
  that saw a token used knows when, and a reported token has a dead family;
* `OneTokenTheorem`: `OneLiveToken`, from `Tickets`: a family has one ticket, an
  unused token or the right of a call to issue one, which login makes, a claim
  turns into the right and issuing turns back. A family that does not exist yet
  has neither (`Rooted`).

The second half of the module is about `Lockout`, whose names are all different,
and uses nothing of the first. It holds for finitely many sign-ins, any clients,
thresholds, windows, locks, delays and bounds, from the assumptions that these
are positive numbers (`positive()` in the code refuses others) and that `NoIp` is
no client:

* `LockoutTypeCorrect`: `LockoutTypeOK` is an invariant;
* `ChecksArePaidTheorem`, `StrikesAreEarnedTheorem`, `DelaysAreEarnedTheorem`:
  `ChecksArePaid`, `StrikesAreEarned` and `DelaysAreEarned` are.

They rest on `Ordered`: a sign-in that counted a failure or a strike is past that
statement, so it counts none again. Each is then a budget that every step keeps.
`Paid`: the passwords checked are no more than `MaxFailures` for each round of
slots that was given out, plus the slots taken of this round, plus what a store
that fails open let through (`Unpaid`, one for each failing call); a strike pays when
its slots are forgotten, or never will be (`Cleared`), and the slot counter may be
over the threshold without a password checked (`Within`). `Earned`: behind each
sign-in that struck, or has crossed the threshold and is about to (`Crossing`),
stand `MaxFailures` failures of its own, and those beyond the threshold earn
nothing (`Beyond`), whether or not the counter was ever forgotten. `Delays`: the
counter of a client is no more than the sign-ins counted against it, which never
become fewer (`Missed`), and a delay is set only after that passed the grace. What
the products do (`Scaled`) and the sets count (`Sizes`) is shown once.

`DelegationsProofs` holds for any agents, permissions, graph of links, calls and
bounds:

* `RevokedIsAuditedTheorem`: `RevokedIsAudited` is an invariant, from none of the
  assumptions on the constants. The status is flipped several statements after it
  was read, so it is not inductive. `IInv` adds that a link due to be flipped is
  `Settled` (audited, its failed write seen, or ended by somebody else), that what
  a call is revoking or has still to revoke was inserted before, and that what a
  call is inserting is fresh and its own (`InsertedOnce`): a link that was found
  ended never becomes active again between the read and the flip. `StepKeeps`
  shows once that the calls that do not move keep what they rely on;
* `DelegationsTyped`, `RetriesWriteNoRow`, `NothingIsStranded`: `TypeOK`,
  `RetryWritesNoRow` and `NothingStranded` are invariants, for finitely many links
  and calls and numbers as limits and bounds. They rest on `Rests` (`DelegationsRest`). An active link that its delegator does not cover is
  `Fed` by an active link that expires no sooner, or `Due`: the call that inserted
  it has still to re-check, or a cascade has still to come to it. Whatever ends the
  feeding link lists its children after it has, so a link inserted before is
  found, and one inserted later finds on its re-check what is left. Rows are few
  because a call about to write one found none, so the rows and the calls about to
  write never outnumber the calls (`FewRows`). What `Min` and `Max` choose
  (`MinIs`, `MaxIs`) is shown by a least counterexample;
* `OnlyTheRootedAreLive`, `LiveMeansRootedTheorem`: with finitely many agents, a
  link that the liveness walk takes for live is connected to authority by a chain
  of usable links, however far the walk may go; and with no more agents than
  `MaxWalk`, `LiveMeansRooted` is an invariant, so the walk misses no chain either.
  (A longer chain is cut off at `MaxWalk` agents: the walk then fails closed, and
  the second theorem needs its hypothesis.) Neither needs anything of the state:
  they say what `Lends` computes on any rows. Both recursions, that of the walk and
  that of `Rooted`, are shown to have a solution, by applying each to itself often
  enough (`WalkEnds`, `RootedIs`). That a walk which avoids its own trail misses
  nothing is `DetoursLend`: an agent that does not lend is not needed by those that
  do. That the rounds of `Rooted` find everybody is a count (`RootedCloses`).

`AuthorizeProofs` begins with `RateSlots`, for any finite set of reservations,
limits, lengths of bucket and hour, from the assumptions that these are positive
numbers:

* `RateTypesHold`, `DenialsAreFree` (`DeniedLeavesNothing`: a refusal leaves no
  count);
* `LimitHolds`: `NeverOver`. The reservation that summed *last* among those
  admitted in a window saw all of them, since each had counted before it
  summed; the invariant says so for every set of admitted reservations, and a
  window shorter than an hour by a bucket is wholly inside what it saw.

It goes on with `Authorize`, for any calls, administrators, grants and limits:

* `AuthorizeReserves`: `Spec => RateSpec`, each step being one of the rate
  limiter's or a stutter, from which `CallsKeepToTheLimit` follows;
* `TypesHold`, `RevocationHolds`, `SpendingAllows`, `DecisionsAreAudited`,
  `LimitsAreApplied`, `UpdatesReplace`: the invariants of the run. A late call is
  one that still has to read an agent which is not active, or has found it dead
  (nothing reactivates an agent: `MarkExpired` writes another dead status); a
  spender is at `record` or done, and nothing between its spend and its answer
  refuses it; a call that has not reached one of the three places that write has
  no row, which is what makes the deferred denial the only one; a grant's reservation is admitted before its
  call can be allowed.

`FreshnessProofs` holds for any instances, checks and revocations and every bound
on time and failures, from the assumptions that `None` is no id and no number,
that the instances which serve checks are among the instances, and that the
staleness, the interval of polls and the bound on time are positive:

* `FreshnessTyped`; `RevokersRefuse`, `PollersRefuse`, `StalenessIsBounded`:
  `TypeOK`, `RevokerRefuses`, `PollRefuses` and `StalenessBounded` are invariants.

What an instance owes its callers it owes from a moment on: that of a clear, or of
the end of the staleness. `FreshnessInvariant` says what is true of everything
that may still answer then. A read that began after the token died, or on an
instance that has cleared and was not overtaken, will see it dead (`Sees`,
`Reads`); whoever joined a read is overtaken with it (`Leads`), and new checks join
only reads that nothing has overtaken (`Flies`); those it told that the token
lives are owed nothing, or will look again (`Told`); a positive verdict in the
cache is from before the death and of an instance that has not cleared
(`Cached`). A poll clears because the fingerprint it compares with is from before
the row (`Polls`), with another revocation's row or without it.

`McpGrantsProofs` holds for any codes, pairs, requests and bounds, from the
assumption that `None` is none of the ids and codes and pairs are disjoint:

* `TypesHold`, `FamiliesNeverFork`, `RevocationBars`, `RevocationIsWhole`,
  `RotationReplaces` and `AnswersAreTrue`: the six invariants of the run. The
  inductive invariant is a conjunction. `Requested` says what each statement of
  a request may rely on; `Lineage` that a pair's parent is a pair of its family
  or its code; `Sole` that whoever is about to mint is the only one to take what
  it mints from, and that it was taken; `Bars` that a barred request is caught
  before it mints; `Replaced` that a parent's jti is denied or owed, `Rowless`
  that a held pair without a row is; `Sweeps` and `Answers` what a revocation
  has covered at each of its statements.
* `OneAccess` is about counting: two pairs alive are two pairs without a
  successor in a family where every other pair has one, and a finite family
  with one root has as many parents as pairs but one (`OneIsLast`, by the
  pigeonhole principle).

`ErasureProofs` holds for any calls, agents, rows, links, failures and acts, and
for calls with the same options or with different ones. It rests on
`AgentsAssumption`, `RowsAssumption` and `NoteAssumption` (which say what the
parameters are), `OffersAssumption` (`None` is not a set of options) and
`BoundsAssumption`:

* `ErasureTyped`: `TypeOK`; `NoStepIsSkipped`: `NoStepSkipped`;
  `GoneLeavesNothing`: `GoneIsClean`; `RecordsAreKept`: `RecordsTell`;
  `EndsTheSame`: `EndsAsAsked`.

That a step is done when the marker says so is not inductive: the marker is
written from the memory of a call, statements after the work. What makes it hold
is that no step is ever undone (`Shrinks`: the rows the user had only become
fewer), so it is enough that every marker, stored or in memory, tells the truth
when it is made (`MarkerOK`), and that a call in the middle of a step is tied to
the part it has done (`Placed`, `Halfway`). A marker that goes backwards, or that
a slower call overwrites with its own options, tells the truth too. That the
agents it lists are all the old ones is `Handed`: an agent has left the user only
when there is a marker, and the agents are read first. Each statement has a lemma
that it keeps `Shrinks` and leaves its own call all right; `CallStaysOK` is
the frame for the other calls.

What the erasure says of itself has an invariant of its own (`ErasureTells`).
`Traces` ties each change to an option that somebody asked for, so that calls that
agree leave one kind; that the actor of a row outlives the user only where rows
were to be kept is one of these ties, so `GoneLeavesNothing` needs both
invariants. `Told` and `CallTells` follow a row from the list it is on,
through the record that names it, to its deletion. `Grouped` says that the records
of calls that agree are the same sets, because what they are made from is settled
when they are made: in one mode no row is listed before all are rewritten, in the
other none has gone before all were listed. `Later` is what every step does at
most to all this, and the frame for the calls that do not move.

Only model-checked: the liveness properties, which are outside the prover's reach:
`FullQuorumSettles`, `CallsEnd` and `RetryFinishes`. Every other property of a passing
run is stated by a theorem.

## 5. Findings

Each is a run that fails with a short trace.

1. `delegations_rollback` - `delegate()` deletes a link that another call has
   built on, and the agent in the middle then looks as if it never received
   anything, which makes it an authority of its own.
2. `delegations_retry` - a cascade descends through active links only, so after
   a crash below a link that had flipped, revoking the agent again does not
   reach what is below. `LiveMeansRooted` says what readers make of such rows.

### Counterexamples without a run of their own

Each of these formulas is in its module, states what a document, test or comment
says, and fails when checked with the constants given here.

* `Approvals!ApprovedListsItsQuorum` (`tests/approval-quorum.test.ts:201`; quorum
  of two, two voters, no failure): a voter that counted too few votes re-reads
  the row, finds it approved by a quorum that includes its own vote, and
  withdraws the vote, so the approved request lists fewer approvers than it
  needed. `QuorumBehindApproval` still holds: the person did vote.
* `TokenFamily!GraceHonoured` (`token-family.ts:53`; two calls, three ticks to a
  second, grace of one second): the time of use is rounded down to a second, so
  the grace window is up to a second shorter than configured;
  `GraceNotExceeded` shows it is never longer.
* `Delegations!NoOrphanGrant` (`delegation.ts:180-183`), a second way: the
  re-check after an insert is satisfied by *any* inbound link that is still
  active, not by those that cover what is lent (two delegators of one agent).
* `Freshness!NeverStaler` (`docs/mcp-revocation.mdx:55`; `freshness.cfg`): a
  check that joins a read in flight, or reads for itself, is answered from a
  read that may have begun before the revocation, however long it takes; only
  the cache is bounded by `maxStalenessMs`.
* `Freshness!NegativeStays` (comment at `freshness.ts:232`; `freshness.cfg`): a
  negative verdict is not terminal in the cache: a read that saw the token alive
  and was not overtaken by a clear *on this instance* may land after one that
  saw it dead, and takes its place until the next poll or `maxStalenessMs`.
* `RateSlots!RollingHour` (`docs/permissions.mdx:109`; any bucket longer than a
  tick): a bucket leaves the sum an hour after it *started*, so the limit holds
  over 55 minutes, not over a rolling hour.
* `Lockout!BurstIsCapped` (`login-lockout.ts:8`, `tests/login-lockout-burst.test.ts:35`;
  no client, three wrong passwords, a threshold of two): the failure that locks an
  account deletes the reserved slots and then sets the lock, so a guess that
  arrives in between, or read the lock before, starts on a fresh count, and more
  than `maxFailures` passwords of one burst are checked. `ChecksArePaid` is what
  holds instead: every further `maxFailures` cost a strike, but for one guess per
  call of the store that fails where `failClosed` is off (`login-lockout.ts:211-214`).
* `Lockout!RepeatIsLonger` (`login-lockout.ts:5`; no client, two wrong passwords, a
  threshold of one): the lock is written without a condition, so of two lockouts at
  once the one that struck first may set its shorter lock last, over the longer one.
* `McpGrants!RetryRecords` (`docs/mcp-revocation.mdx:134`; one code, two pairs,
  two requests, one that stops): a revocation deletes the rows of a family before
  it denies their jtis. If a denial fails the client is told to retry, and the
  retry finds no row, denies nothing and answers success.
* `Erasure!RetryFinishes` without `Blocked` (`docs/gdpr.mdx:74`: "call
  `deleteUser` again"; `erasure.cfg`): a sign-in after step 1, an audit row after
  step 3, or a new agent of a user who had none, leaves a row with a foreign key
  to the user. Step 8, or step 7 where agents are deleted, then throws, and so
  does every call after it, as none goes back to an earlier step.

* `Erasure!GoneIsClean` without the exception for the actor (comments at
  `erasure.ts:135` and `gdpr-delete.ts:178`; `erasure.cfg`): with `keepAuditLogs`
  only actors that are agents of the user are blanked (`erasure.ts:137-144`), so a
  row keeps `actorId` = the erased user where `admin-api/plugin.ts:157` or
  `admin-api/approval-decisions.ts:181` wrote it.
* `Authorize!TrailTellsAnswer` with "no id, no row" for "no id or that of the row"
  (comment at `engine.ts:163`; `authorize.cfg`): an insert that throws after it
  took effect leaves a row while `recordDenial()` answers that there is none. The
  other two places answer with an id that points at no row when their insert fails
  (comment at `engine.ts:201`), and swallow the error, where
  `docs/audit-trail.mdx:47-49` has it propagate.

### What the models show about the code, without a claim it breaks

* Reservations that overlap count each other before either is admitted, so
  concurrent calls at the limit may all be refused; one cut short between its
  increment and its decrement takes a slot for up to an hour.
* A call denied by its own permissions and allowed by delegated ones is counted
  twice against the same rows.
* Two `update()` calls that overlap leave the union of both permission lists
  (`mixed` in `UpdateIsWhole`), and each writes back the expiry it read, over
  what the other had set. `resolveToken()` marks an agent expired on the row it
  read: a revoked agent becomes an expired one, and one whose expiry was just
  extended becomes expired. It is never active again either way.
* A refresh past its checks when its family is revoked stores its pair
  afterwards, and its jti is denied by nobody (`raced`); the pair's refresh
  token is refused, its access token lives until it expires. Rows stored
  between the list and the delete of a revocation are deleted undenied.
* A refresh refused for its scope or resource has already claimed its token; a
  client that corrects the request and repeats it is taken for a thief.
* An agent created after step 0 of an erasure that keeps its rows goes to the
  tombstone user with status `active` (`born` in `GoneIsClean`), where
  `docs/gdpr.mdx:68` says that kept agents are revoked.
* Two first calls of `deleteUser()` with different options both read no marker
  and both write one: steps run under either, some rows are rewritten and others
  deleted, and a row of version 1 may be named by two records. `NoStepSkipped`
  holds all the same; `EndsAsAsked` speaks of calls that agree.
* In delete mode a row that names the user and is written after the list was read
  (`erasure.ts:209`) is deleted by `:247` without a record: `RecordsTell` speaks
  of the rows that were there before. By reading, outside the model: the agent of
  a registered device is held by `db/schema/devices.ts:16`, which no step removes.

## 6. What is not modelled

* *Agents*: `create()` counts the active agents of an owner and then inserts,
  with no condition on the insert, so the cap does not hold when two overlap and
  there is nothing more to check; `rotate()` writes one column.
* *Budgets* (`policies/budget.ts:233`): counters are read, added to and written
  back without a condition. Overlapping calls lose usage; no document says
  otherwise.
* *Authorization*: what each constraint computes, hooks, proofs of possession
  and the role policies of `policy/engine.ts`, which read only.
* *Audit*: where an erasure record stands in a chain (which rows it names is in
  `Erasure`), the anchors of `checkpoint()`, rows from before the
  chain was enabled, external receipts.
* *MCP*: offline mode, token exchange, client credentials and bearer assertions
  (they mint without a code or a refresh token), DPoP, client authentication,
  registration, consent.
* *GDPR*: `exportUserData()`, which reads only, and `anonymizeUser()`; the push
  of step 0 to the revocation bus, which never throws (`Freshness`), and the
  cascade below the links of an agent (`Delegations`); the counts returned.
* *Password sign-in*: hashing and re-hashing, sign-up, the sign-in gate and the
  session made after a right password.
* *Sessions, other human sign-in, identity provider, vault*: formats, hashes,
  signatures and mail; their concurrency is the single-use claim modelled here
  twice.
* *Adapters and the kernel*: each of their statements is a step. *Routes, admin
  API, UI, CLI, SDKs, examples*: input and output.

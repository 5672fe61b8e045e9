-------------------------------- MODULE McpGrants --------------------------------
(***************************************************************************)
(* The token endpoint and the revocation endpoint of the MCP server        *)
(* (mcp/token.ts, grant-refresh-token.ts, token-issue.ts, revocation.ts,   *)
(* stores-db-tokens.ts): authorization codes are redeemed, refresh tokens  *)
(* rotated and families revoked by requests that interleave at every       *)
(* statement they await, and may stop at any of them.                      *)
(*                                                                         *)
(* A pair is an access token, told by its jti, with its refresh token.     *)
(* The family of a pair is told by the code its first pair came from.      *)
(*                                                                         *)
(* Left out: expiry, DPoP keys, agents (Freshness), tokens without a       *)
(* family, grants without offline_access, the statements inside            *)
(* consumeToken() up to its claim (TokenFamily), reads of clients.         *)
(*                                                                         *)
(* ClaimBlind, LiveBlind, NoJti and NotReturned are not the code: each is  *)
(* a plausible mistake in the definition it precedes, used in its place to *)
(* confirm that the properties notice it.                                  *)
(***************************************************************************)
EXTENDS Naturals, FiniteSets

CONSTANTS Codes, Pairs, Requests, None,
          MaxEpoch, MaxFaults  \* bounds: sign-outs of the user; requests that stop

ASSUME NoneAssumption ==
  /\ None \notin Pairs \cup Codes \cup Nat \cup [family : Codes, parent : Pairs \cup Codes]
  /\ Pairs \cap Codes = {}
ASSUME BoundAssumption == MaxEpoch \in Nat /\ MaxFaults \in Nat

VARIABLES
  codes,     \* oauth authorization codes
  rows,      \* oauth access tokens: createdAt of the row of each pair
  refreshes, \* refresh tokens of the families
  revoked,   \* families whose flag is set
  denied,    \* jtis on the denylist
  epoch,     \* the watermark of the user's sub row: moments are told apart by it only
  request,   \* the local variables of each request
  faults,
  pair,      \* the family of each pair, and what it was minted from
  held,      \* pairs that a response has delivered
  lost,      \* history: families a request of which stopped with a jti to deny, and its kind
  raced,     \* history: families listed for revocation while a request was about to mint
  ended,     \* history: families whose revocation has been carried out
  answered,  \* history: pairs whose client was told that they are revoked
  barred     \* history: requests barred when they began that minted all the same

store == <<codes, rows, refreshes, revoked, denied, epoch>>
history == <<lost, raced, ended, answered, barred>>
vars == <<store, request, faults, pair, held, history>>

--------------------------------------------------------------------------------
Epochs == 0..MaxEpoch
Code == [state : {"unissued", "issued", "spent"}, created : Epochs]
Pair == [family : Codes, parent : Pairs \cup Codes]
Kinds == {"code", "refresh", "revoke", "access"}
Idle == [pc |-> "idle", kind |-> "code", family |-> None, token |-> None, created |-> None, next |-> None,
         todo |-> {}, bar |-> FALSE]
\* created: createdAt of the row the request has found; next: the pair it mints;
\* todo: the jtis it has still to deny; bar (history): it had to be refused.
Request == [pc : {"idle", "live", "find", "claim", "mint", "deny", "issue", "store", "answer",
                  "flag", "list", "delete", "denyAll", "remove", "denyOwn"},
            kind : Kinds, family : Codes \cup {None}, token : Pairs \cup {None},
            created : Epochs \cup {None}, next : Pairs \cup {None}, todo : SUBSET Pairs, bar : BOOLEAN]

TypeOK ==
  /\ codes \in [Codes -> Code]
  /\ rows \in [Pairs -> Epochs \cup {None}]
  /\ refreshes \in [Pairs -> {"none", "unused", "used"}]
  /\ revoked \subseteq Codes /\ denied \subseteq Pairs
  /\ epoch \in Epochs
  /\ request \in [Requests -> Request]
  /\ faults \in 0..MaxFaults
  /\ pair \in [Pairs -> Pair \cup {None}]
  /\ held \subseteq Pairs
  /\ lost \subseteq Codes \X Kinds /\ raced \subseteq Codes /\ ended \subseteq Codes
  /\ answered \subseteq Pairs /\ barred \subseteq Requests

Init ==
  /\ codes = [k \in Codes |-> [state |-> "unissued", created |-> 0]]
  /\ rows = [p \in Pairs |-> None]
  /\ refreshes = [p \in Pairs |-> "none"]
  /\ revoked = {} /\ denied = {} /\ epoch = 0
  /\ request = [q \in Requests |-> Idle]
  /\ faults = 0
  /\ pair = [p \in Pairs |-> None]
  /\ held = {} /\ lost = {} /\ raced = {} /\ ended = {} /\ answered = {} /\ barred = {}

--------------------------------------------------------------------------------
Minted == {p \in Pairs : pair[p] # None}
Family(f) == {p \in Minted : pair[p].family = f}
FamilyRows(f) == {p \in Family(f) : rows[p] # None}
At(q, pc) == request[q].pc = pc
Goto(q, pc) == request' = [request EXCEPT ![q].pc = pc]
Ends(q) == request' = [request EXCEPT ![q] = Idle]
\* History: a request is past every check, and its pair has no row yet.
AboutToMint(f) == \E q \in Requests :
  request[q].family = f /\ request[q].pc \in {"claim", "mint", "deny", "issue", "store"}
\* History: a request has taken a row away, or is about to, and has its jti to deny.
Owes(q, p) == p \in request[q].todo \/ (request[q].pc \in {"deny", "denyOwn"} /\ request[q].token = p)
Intact(f, kinds) == f \notin raced /\ \A kind \in kinds : <<f, kind>> \notin lost
Owed(p) == \E q \in Requests : Owes(q, p)

--------------------------------------------------------------------------------
(* The authorization code grant *)

storeAuthorizationCode(k) ==
  /\ codes[k].state = "unissued"
  /\ codes' = [codes EXCEPT ![k] = [state |-> "issued", created |-> epoch]]
  /\ UNCHANGED <<rows, refreshes, revoked, denied, epoch, request, faults, pair, held, history>>

\* DELETE ... RETURNING; a code that is gone is refused.
consumeAuthorizationCode(q, k) ==
  /\ At(q, "idle") /\ codes[k].state = "issued"
  /\ codes' = [codes EXCEPT ![k].state = "spent"]
  /\ request' = [request EXCEPT ![q] = [Idle EXCEPT !.pc = "live", !.family = k, !.created = codes[k].created,
                                         !.bar = codes[k].created < epoch]]
  /\ UNCHANGED <<rows, refreshes, revoked, denied, epoch, faults, pair, held, history>>

--------------------------------------------------------------------------------
(* The refresh token grant *)

\* Anybody who holds a refresh token may present it, used or not.
findTokenByRefreshToken(q, kind, p) ==
  [Idle EXCEPT !.kind = kind, !.family = pair[p].family, !.token = p, !.created = rows[p]]

\* History: this request must not mint.
Bar(p) == pair[p].family \in revoked \/ p \in denied \/ refreshes[p] = "used" \/ (rows[p] # None /\ rows[p] < epoch)
Refresh(q, p) ==
  /\ At(q, "idle") /\ p \in held
  /\ request' = [request EXCEPT ![q] = [findTokenByRefreshToken(q, "refresh", p) EXCEPT
                   !.pc = IF rows[p] = None THEN "find" ELSE "live", !.bar = Bar(p)]]
  /\ UNCHANGED <<store, faults, pair, held, history>>

\* checkGrantLive(): the jti of the old access token, and the watermark.
LiveBlind(q) == request[q].token \notin denied
GrantLive(q) == request[q].token \notin denied /\ ~(request[q].created < epoch)
checkGrantLive(q) ==
  /\ At(q, "live")
  /\ \/ GrantLive(q) /\ Goto(q, IF request[q].kind = "code" THEN "mint" ELSE "find")
     \/ ~GrantLive(q) /\ request[q].kind = "code" /\ Ends(q)
     \/ /\ ~GrantLive(q) /\ request[q].kind = "refresh"
        \* revokeFamilyAndTokens(family, null)
        /\ request' = [request EXCEPT ![q].pc = "flag", ![q].created = None, ![q].bar = FALSE]
  /\ UNCHANGED <<store, faults, pair, held, history>>

\* revokeFamilyAndTokens(family, existingToken)
Reused(q) == request' = [request EXCEPT ![q].pc = "flag", ![q].bar = FALSE]

\* consumeToken(): reads the token and its family.
consumeToken(q) ==
  /\ At(q, "find")
  /\ \/ /\ request[q].family \notin revoked /\ refreshes[request[q].token] = "unused"
        /\ Goto(q, "claim")
     \/ /\ request[q].family \in revoked \/ refreshes[request[q].token] = "used"
        /\ Reused(q)
  /\ UNCHANGED <<store, faults, pair, held, history>>

\* One of two callers claims the token.  A token without a row is refused once
\* it is claimed.
ClaimBlind(p) == TRUE
Unclaimed(p) == refreshes[p] = "unused"
Claim(q) ==
  LET p == request[q].token IN
  /\ At(q, "claim")
  /\ \/ /\ Unclaimed(p)
        /\ refreshes' = [refreshes EXCEPT ![p] = "used"]
        /\ IF request[q].created = None THEN Ends(q) ELSE Goto(q, "mint")
     \/ /\ ~Unclaimed(p)
        /\ Reused(q)
        /\ UNCHANGED refreshes
  /\ UNCHANGED <<codes, rows, revoked, denied, epoch, faults, pair, held, history>>

\* A scope or a resource that the grant does not have, a wrong client or
\* verifier: refused, with the code or the token spent.
Refuse(q) ==
  /\ At(q, "mint") \/ (At(q, "live") /\ request[q].kind = "code")
  /\ Ends(q)
  /\ UNCHANGED <<store, faults, pair, held, history>>

--------------------------------------------------------------------------------
(* Both: mint, and for a refresh revoke the old access token *)

Parent(q) == IF request[q].kind = "code" THEN request[q].family ELSE request[q].token
\* revokeToken() of the old row comes right after the JWT is signed.
Mint(q, n) ==
  LET refresh == request[q].kind = "refresh" IN
  /\ At(q, "mint") /\ n \notin Minted
  /\ pair' = [pair EXCEPT ![n] = [family |-> request[q].family, parent |-> Parent(q)]]
  /\ rows' = IF refresh THEN [rows EXCEPT ![request[q].token] = None] ELSE rows
  /\ request' = [request EXCEPT ![q].pc = IF refresh THEN "deny" ELSE "issue", ![q].next = n,
                 ![q].created = None, ![q].bar = FALSE]
  /\ barred' = IF request[q].bar THEN barred \cup {q} ELSE barred
  /\ UNCHANGED <<codes, refreshes, revoked, denied, epoch, faults, held, lost, raced, ended, answered>>

NoJti(q) == {}
OldJti(q) == {request[q].token}
denylistJti(q) ==
  /\ At(q, "deny")
  /\ denied' = denied \cup OldJti(q)
  /\ Goto(q, "issue")
  /\ UNCHANGED <<codes, rows, refreshes, revoked, epoch, faults, pair, held, history>>

\* createFamily() and issueToken(): the flag of the family is not read.
issueRefreshToken(q) ==
  /\ At(q, "issue")
  /\ refreshes' = [refreshes EXCEPT ![request[q].next] = "unused"]
  /\ Goto(q, "store")
  /\ UNCHANGED <<codes, rows, revoked, denied, epoch, faults, pair, held, history>>

storeToken(q) ==
  /\ At(q, "store")
  /\ rows' = [rows EXCEPT ![request[q].next] = epoch]
  /\ Goto(q, "answer")
  /\ UNCHANGED <<codes, refreshes, revoked, denied, epoch, faults, pair, held, history>>

Deliver(q) ==
  /\ At(q, "answer")
  /\ held' = held \cup {request[q].next}
  /\ Ends(q)
  /\ UNCHANGED <<store, faults, pair, history>>

--------------------------------------------------------------------------------
(* handleRevocation(), and revokeFamilyAndTokens() of all who call it *)

\* if (record.familyId)
FirstStep(family) == IF family = None THEN "remove" ELSE "flag"

\* A refresh token that has no row is answered like one that has been revoked.
RevokeRefresh(q, p) ==
  /\ At(q, "idle") /\ p \in held
  /\ \/ /\ rows[p] # None
        /\ request' = [request EXCEPT ![q] = [findTokenByRefreshToken(q, "revoke", p) EXCEPT
                         !.pc = FirstStep(pair[p].family)]]
        /\ UNCHANGED answered
     \/ /\ rows[p] = None
        /\ answered' = answered \cup {p}
        /\ UNCHANGED request
  /\ UNCHANGED <<store, faults, pair, held, lost, raced, ended, barred>>

\* An access token: revokeStoredAccessToken() alone.
RevokeAccess(q, p) ==
  /\ At(q, "idle") /\ p \in held
  /\ request' = [request EXCEPT ![q] = [findTokenByRefreshToken(q, "access", p) EXCEPT
                   !.pc = FirstStep(None), !.family = None, !.created = None]]
  /\ UNCHANGED <<store, faults, pair, held, history>>

revokeFamily(q) ==
  /\ At(q, "flag")
  /\ revoked' = revoked \cup {request[q].family}
  /\ Goto(q, "list")
  /\ UNCHANGED <<codes, rows, refreshes, denied, epoch, faults, pair, held, history>>

\* revokeTokenFamily() reads the rows, then deletes what there is.
NotReturned(f) == {}
Listed(f) == FamilyRows(f)
revokeTokenFamily(q) ==
  LET f == request[q].family IN
  /\ At(q, "list")
  /\ request' = [request EXCEPT ![q].pc = "delete", ![q].todo = Listed(f)]
  /\ raced' = IF AboutToMint(f) THEN raced \cup {f} ELSE raced
  /\ UNCHANGED <<store, faults, pair, held, lost, ended, answered, barred>>

DeleteRows(q) ==
  /\ At(q, "delete")
  /\ rows' = [p \in Pairs |-> IF p \in FamilyRows(request[q].family) THEN None ELSE rows[p]]
  /\ Goto(q, "denyAll")
  /\ UNCHANGED <<codes, refreshes, revoked, denied, epoch, faults, pair, held, history>>

\* The revocation is complete, and a client that asked for it is told.
Finish(q) ==
  /\ Ends(q)
  /\ ended' = IF request[q].family = None THEN ended ELSE ended \cup {request[q].family}
  /\ answered' = IF request[q].kind \in {"revoke", "access"} THEN answered \cup {request[q].token} ELSE answered
  /\ UNCHANGED <<lost, raced, barred>>

DenyOne(q) ==
  /\ At(q, "denyAll")
  /\ \E p \in request[q].todo :
       /\ denied' = denied \cup {p}
       /\ request' = [request EXCEPT ![q].todo = @ \ {p}]
  /\ UNCHANGED <<codes, rows, refreshes, revoked, epoch, faults, pair, held, history>>

FamilyDone(q) ==
  /\ At(q, "denyAll") /\ request[q].todo = {}
  /\ IF request[q].created = None THEN Finish(q) ELSE Goto(q, "remove") /\ UNCHANGED history
  /\ UNCHANGED <<store, faults, pair, held>>

\* revokeStoredAccessToken() of the row the request had found.
revokeStoredAccessToken(q) ==
  /\ At(q, "remove")
  /\ rows' = [rows EXCEPT ![request[q].token] = None]
  /\ Goto(q, "denyOwn")
  /\ UNCHANGED <<codes, refreshes, revoked, denied, epoch, faults, pair, held, history>>

DenyOwn(q) ==
  /\ At(q, "denyOwn")
  /\ denied' = denied \cup OldJti(q)
  /\ Finish(q)
  /\ UNCHANGED <<codes, rows, refreshes, revoked, epoch, faults, pair, held>>

--------------------------------------------------------------------------------
\* session.revokeAll(), a ban, an erasure: the watermark of the sub row.
RevokeUser ==
  /\ epoch < MaxEpoch
  /\ epoch' = epoch + 1
  /\ UNCHANGED <<codes, rows, refreshes, revoked, denied, request, faults, pair, held, history>>

\* A statement throws, or the process dies: the request ends where it is, and
\* its client is told to retry or hears nothing.
Stops(q) ==
  /\ ~At(q, "idle") /\ faults < MaxFaults
  /\ faults' = faults + 1
  /\ Ends(q)
  /\ lost' = lost \cup {f \in Codes : \E p \in Family(f) : Owes(q, p)} \X {request[q].kind}
  /\ UNCHANGED <<store, pair, held, raced, ended, answered, barred>>

Begin(q) ==
  \/ \E k \in Codes : consumeAuthorizationCode(q, k)
  \/ \E p \in Pairs : Refresh(q, p) \/ RevokeRefresh(q, p) \/ RevokeAccess(q, p)
Grant(q) ==
  \/ checkGrantLive(q) \/ consumeToken(q) \/ Claim(q) \/ Refuse(q)
  \/ \E n \in Pairs : Mint(q, n)
  \/ denylistJti(q) \/ issueRefreshToken(q) \/ storeToken(q) \/ Deliver(q)
Kill(q) ==
  \/ revokeFamily(q) \/ revokeTokenFamily(q) \/ DeleteRows(q)
  \/ DenyOne(q) \/ FamilyDone(q) \/ revokeStoredAccessToken(q) \/ DenyOwn(q)

Next ==
  \/ RevokeUser
  \/ \E k \in Codes : storeAuthorizationCode(k)
  \/ \E q \in Requests : Begin(q) \/ Grant(q) \/ Kill(q) \/ Stops(q)

Spec == Init /\ [][Next]_vars

--------------------------------------------------------------------------------
(* Properties *)

\* However requests race or stop, no code and no refresh token has two
\* successors: a family never forks.
NoFork == \A p, r \in Minted : p # r => pair[p].parent # pair[r].parent

\* A code or a refresh token issued before a sign-out everywhere, a token whose
\* family has been revoked, one used before and one whose access token is
\* denied mint nothing for a request that begins afterwards.
RevokedMintsNothing == barred = {}

\* Once a family has been revoked, by reuse of a token or by its client, every
\* access token of it that anybody holds is denied, or is being denied: unless a
\* request about to mint overlapped the revocation, or one stopped between a
\* delete and its denial.
KillIsWhole == \A f \in ended : Intact(f, Kinds) => \A p \in Family(f) \cap held : p \in denied \/ Owed(p)

\* Rotation replaces: a family has one access token that is neither denied nor
\* being denied, whoever raced whom, unless a request stopped between a delete
\* and its denial.
Alive(f) == {p \in Family(f) \cap held : p \notin denied /\ ~Owed(p)}
OneAccess == \A f \in Codes : (\A kind \in Kinds : <<f, kind>> \notin lost) => Cardinality(Alive(f)) <= 1

\* A client that is told its token is revoked can rely on it, with the same two
\* exceptions.
AnswerIsTrue == \A p \in answered : Intact(pair[p].family, Kinds) => p \in denied \/ Owed(p)

\* What docs/mcp-revocation.mdx:134 says of a revocation that answered 503: "other
\* instances learn about it only after a successful retry, so the client should
\* retry".  A retry that succeeds has recorded it.
RetryRecords == \A p \in answered : Intact(pair[p].family, Kinds \ {"revoke"}) => p \in denied \/ Owed(p)

================================================================================

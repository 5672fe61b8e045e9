----------------------------- MODULE McpGrantsProofs -----------------------------
(***************************************************************************)
(* The safety invariants of McpGrants for every number of codes, pairs and *)
(* requests, every epoch and every number of stops.  The inductive         *)
(* invariant follows three things through the interleavings: who has taken *)
(* a code or a refresh token and will mint from it (Sole), who owes the    *)
(* denylist which jti (Replaced, Rowless, Answers), and when a revocation  *)
(* has left a family without rows and without anybody to add one (Sweeps). *)
(***************************************************************************)
EXTENDS McpGrants, FiniteSetTheorems, TLAPS

\* What a request knows of the pairs and families it works on.
Formed(r) ==
  /\ r \in Request
  /\ r.todo # {} => r.pc \in {"delete", "denyAll"}
  /\ r.pc # "idle" => (r.family = None <=> r.kind = "access")
  /\ r.kind = "code" => r.pc \in {"idle", "live", "mint", "issue", "store", "answer"}
  /\ r.kind = "refresh" => r.pc # "idle"
  /\ r.kind = "revoke" => r.pc \in {"flag", "list", "delete", "denyAll", "remove", "denyOwn"}
  /\ r.kind = "access" => r.pc \in {"remove", "denyOwn"}
  /\ r.kind # "code" => r.token \in held /\ (r.family # None => pair[r.token].family = r.family)
  /\ r.pc = "live" \/ r.kind = "revoke" => r.created # None
  /\ r.pc \in {"deny", "issue", "store", "answer"} =>
       r.next \in Minted /\ pair[r.next].family = r.family
  /\ r.pc = "deny" => r.kind = "refresh"
  /\ r.pc \in {"list", "delete", "denyAll"} => r.family \in revoked
  /\ r.pc \in {"remove", "denyOwn"} /\ r.kind # "access" => r.family \in revoked
Requested ==
  /\ request \in [Requests -> Request]
  /\ \A q \in Requests : Formed(request[q])

\* Each pair comes from its family's code or from a pair of its family.
Lineage ==
  /\ held \subseteq Minted /\ answered \subseteq held
  /\ \A p \in Minted :
       \/ pair[p].parent = pair[p].family
       \/ pair[p].parent \in Minted /\ pair[pair[p].parent].family = pair[p].family
  /\ \A f \in revoked : Family(f) # {}
  /\ IsFiniteSet(Minted)

\* Two requests never work on the same new pair, whose refresh token is new.
Making(r) == r.pc \in {"deny", "issue", "store", "answer"}
NewPairs ==
  /\ \A p \in Pairs \ Minted : refreshes[p] = "none"
  /\ \A q, x \in Requests : q # x /\ Making(request[q]) /\ Making(request[x]) => request[q].next # request[x].next
  /\ \A q \in Requests : request[q].pc \in {"deny", "issue"} => refreshes[request[q].next] = "none"

\* A request that has taken x, a code or a refresh token, and will mint from it.
Takes(r, x) ==
  \/ r.kind = "code" /\ r.pc \in {"live", "mint"} /\ r.family = x
  \/ r.kind = "refresh" /\ r.pc = "mint" /\ r.token = x
Taken(x) == (x \in Codes /\ codes[x].state = "spent") \/ (x \in Pairs /\ refreshes[x] = "used")
Sole ==
  /\ \A q \in Requests, x \in Codes \cup Pairs : Takes(request[q], x) => Taken(x) /\ \A p \in Minted : pair[p].parent # x
  /\ \A q, y \in Requests, x \in Codes \cup Pairs : Takes(request[q], x) /\ Takes(request[y], x) => q = y
  /\ \A p \in Minted : Taken(pair[p].parent) /\ Taken(pair[p].family)
  /\ \A q \in Requests : request[q].kind = "code" /\ request[q].pc \in {"live", "mint"} => Family(request[q].family) = {}
  /\ NoFork

\* Why a request that is barred will be refused.
MustEnd(r) ==
  \/ r.pc = "live" /\ r.created < epoch
  \/ r.pc = "live" /\ r.token \in denied
  \/ r.pc \in {"live", "find"} /\ r.kind = "refresh" /\ r.family \in revoked
  \/ r.pc \in {"live", "find", "claim"} /\ r.kind = "refresh" /\ refreshes[r.token] = "used"
  \/ r.pc \in {"find", "claim"} /\ r.created = None
Bars == barred = {} /\ \A q \in Requests : request[q].bar => MustEnd(request[q])

\* The jti of p is denied, or will be unless the request stops that has to.
Lost(f) == \E kind \in Kinds : <<f, kind>> \in lost
Settled(p) == p \in denied \/ Owed(p) \/ Lost(pair[p].family)
Replaced == \A p \in Minted : pair[p].parent \in Pairs => Settled(pair[p].parent)

Out(p) == p \in held \/ \E q \in Requests : request[q].pc = "answer" /\ request[q].next = p
Rowless == \A p \in Minted : Out(p) => rows[p] # None \/ Settled(p) \/ pair[p].family \in raced

\* The family has no row left, and no request can give it one.
Swept(f) == FamilyRows(f) = {} /\ ~AboutToMint(f)
SweptBy(r) ==
  r.family # None /\ r.family \notin raced =>
    /\ r.pc = "delete" => FamilyRows(r.family) \subseteq r.todo /\ ~AboutToMint(r.family)
    /\ r.pc \in {"denyAll", "remove", "denyOwn"} => Swept(r.family)
Sweeps ==
  /\ \A q \in Requests : SweptBy(request[q])
  /\ \A f \in ended : f \in revoked /\ (f \in raced \/ Swept(f))

Answers == \A p \in answered : Settled(p) \/ pair[p].family \in raced

--------------------------------------------------------------------------------
(* What the steps of a request do to its local variables. *)

Moved(q) ==
  /\ request' \in [Requests -> Request]
  /\ \A x \in Requests \ {q} : request'[x] = request[x]
Keeps(q) ==
  /\ Moved(q)
  /\ request'[q].kind = request[q].kind /\ request'[q].family = request[q].family
  /\ request'[q].token = request[q].token
\* Only the place in the code changes.
GoesOn(q, pc) ==
  /\ Keeps(q)
  /\ request'[q].pc = pc
  /\ request'[q].created = request[q].created /\ request'[q].next = request[q].next
  /\ request'[q].todo = request[q].todo /\ request'[q].bar = request[q].bar
\* The request turns into a revocation of its family.
Flags(q) ==
  /\ Keeps(q)
  /\ request'[q].pc = "flag" /\ request'[q].bar = FALSE
  /\ request'[q].next = request[q].next /\ request'[q].todo = request[q].todo
IsOver(q) == Moved(q) /\ request'[q] = Idle
\* A request begins.
Fresh(q) ==
  /\ Moved(q)
  /\ request'[q].next = None /\ request'[q].todo = {}

PCs == {"idle", "live", "find", "claim", "mint", "deny", "issue", "store", "answer",
        "flag", "list", "delete", "denyAll", "remove", "denyOwn"}

LEMMA IdleTyped ==
  /\ Idle \in Request /\ Idle.pc = "idle" /\ Idle.kind = "code" /\ Idle.todo = {} /\ Idle.bar = FALSE
  /\ Idle.family = None /\ Idle.next = None /\ Idle.token = None /\ Idle.created = None
<1> QED BY DEF Idle, Request, Kinds

LEMMA PairsAreReal == None \notin Pair
<1> QED BY NoneAssumption DEF Pair

LEMMA RowMoves ==
  ASSUME TypeOK, NEW q \in Requests, NEW k \in Request, request' = [request EXCEPT ![q] = k]
  PROVE  Moved(q) /\ request'[q] = k
<1> QED BY DEF TypeOK, Moved

LEMMA GotoMoves ==
  ASSUME TypeOK, NEW q \in Requests, NEW pc \in PCs, Goto(q, pc)
  PROVE  GoesOn(q, pc)
<1> PICK h, k : h = request[q] /\ k = [h EXCEPT !.pc = pc]
  OBVIOUS
<1>1. h \in Request
  BY DEF TypeOK
<1>2. /\ k \in Request /\ k.pc = pc /\ k.kind = h.kind /\ k.family = h.family /\ k.token = h.token
      /\ k.created = h.created /\ k.next = h.next /\ k.todo = h.todo /\ k.bar = h.bar
  BY <1>1 DEF Request, PCs
<1>3. request' = [request EXCEPT ![q] = k]
  BY DEF Goto, TypeOK
<1> QED BY <1>2, <1>3, RowMoves DEF GoesOn, Keeps

LEMMA EndsMoves ==
  ASSUME TypeOK, NEW q \in Requests, Ends(q)
  PROVE  IsOver(q)
<1> QED BY IdleTyped, RowMoves DEF Ends, IsOver

LEMMA ReusedMoves ==
  ASSUME TypeOK, NEW q \in Requests, Reused(q)
  PROVE  Flags(q)
<1> PICK h, k : h = request[q] /\ k = [h EXCEPT !.pc = "flag", !.bar = FALSE]
  OBVIOUS
<1>1. h \in Request
  BY DEF TypeOK
<1>2. /\ k \in Request /\ k.pc = "flag" /\ k.kind = h.kind /\ k.family = h.family /\ k.token = h.token
      /\ k.next = h.next /\ k.todo = h.todo /\ k.bar = FALSE
  BY <1>1 DEF Request
<1>3. request' = [request EXCEPT ![q] = k]
  BY DEF Reused, TypeOK
<1> QED BY <1>2, <1>3, RowMoves DEF Flags, Keeps

LEMMA CodeMoves ==
  ASSUME TypeOK, NEW q \in Requests, NEW k \in Codes, consumeAuthorizationCode(q, k)
  PROVE  /\ Fresh(q) /\ request[q].pc = "idle"
         /\ request'[q].pc = "live" /\ request'[q].kind = "code" /\ request'[q].family = k /\ request'[q].token = None
         /\ request'[q].created = codes[k].created /\ codes[k].created \in Nat
         /\ request'[q].bar => request'[q].created < epoch
<1> PICK created, bar, r : /\ created = codes[k].created /\ bar = (codes[k].created < epoch)
                           /\ r = [Idle EXCEPT !.pc = "live", !.family = k, !.created = created, !.bar = bar]
  OBVIOUS
<1>1. created \in Epochs /\ created \in Nat /\ bar \in BOOLEAN /\ (bar => created < epoch)
  <2>1. created \in Epochs
    BY DEF TypeOK, Code
  <2>2. created \in Nat
    BY <2>1, BoundAssumption DEF Epochs
  <2>3. bar \in BOOLEAN
    OBVIOUS
  <2>4. bar => created < epoch
    OBVIOUS
  <2> QED BY <2>1, <2>2, <2>3, <2>4
<1>2. /\ r \in Request /\ r.pc = "live" /\ r.kind = "code" /\ r.family = k /\ r.token = None
      /\ r.created = created /\ r.next = None /\ r.todo = {} /\ r.bar = bar
  BY <1>1 DEF Idle, Request, Kinds
<1>3. request' = [request EXCEPT ![q] = r] /\ request[q].pc = "idle"
  BY DEF consumeAuthorizationCode, At
<1> QED BY <1>1, <1>2, <1>3, RowMoves DEF Fresh

LEMMA HeldPairs ==
  ASSUME TypeOK, Lineage, NEW p \in held
  PROVE  p \in Pairs /\ p \in Minted /\ pair[p].family \in Codes /\ pair[p].family # None
<1> QED BY NoneAssumption DEF TypeOK, Lineage, Minted, Pair

LEMMA RefreshMoves ==
  ASSUME TypeOK, Lineage, NEW q \in Requests, NEW p \in Pairs, Refresh(q, p)
  PROVE  /\ Fresh(q) /\ request[q].pc = "idle" /\ p \in held
         /\ request'[q].kind = "refresh" /\ request'[q].family = pair[p].family /\ request'[q].token = p
         /\ request'[q].created = rows[p] /\ request'[q].pc = IF rows[p] = None THEN "find" ELSE "live"
         /\ request'[q].bar => Bar(p)
<1> PICK pc, r : /\ pc = IF rows[p] = None THEN "find" ELSE "live"
                 /\ r = [findTokenByRefreshToken(q, "refresh", p) EXCEPT !.pc = pc, !.bar = Bar(p)]
  OBVIOUS
<1>1. rows[p] \in Epochs \cup {None} /\ p \in held /\ pair[p].family \in Codes /\ Bar(p) \in BOOLEAN
  BY HeldPairs DEF TypeOK, Refresh, Bar
<1>2. /\ r \in Request /\ r.pc = pc /\ r.kind = "refresh" /\ r.family = pair[p].family /\ r.token = p
      /\ r.created = rows[p] /\ r.next = None /\ r.todo = {} /\ r.bar = Bar(p)
  BY <1>1 DEF Idle, Request, Kinds, findTokenByRefreshToken
<1>3. request' = [request EXCEPT ![q] = r] /\ request[q].pc = "idle"
  BY DEF Refresh, At
<1> QED BY <1>1, <1>2, <1>3, RowMoves DEF Fresh

LEMMA RevokeRefreshMoves ==
  ASSUME TypeOK, Lineage, NEW q \in Requests, NEW p \in Pairs, RevokeRefresh(q, p)
  PROVE  /\ p \in held /\ request[q].pc = "idle"
         /\ \/ /\ rows[p] # None /\ Fresh(q) /\ answered' = answered
               /\ request'[q].kind = "revoke" /\ request'[q].family = pair[p].family /\ request'[q].token = p
               /\ request'[q].created = rows[p] /\ request'[q].pc = "flag" /\ request'[q].bar = FALSE
            \/ rows[p] = None /\ UNCHANGED request /\ answered' = answered \cup {p}
<1>1. p \in held /\ request[q].pc = "idle"
  BY DEF RevokeRefresh, At
<1>2. CASE rows[p] # None
  <2> PICK r : r = [findTokenByRefreshToken(q, "revoke", p) EXCEPT !.pc = FirstStep(pair[p].family)]
    OBVIOUS
  <2>1. rows[p] \in Epochs \cup {None} /\ pair[p].family \in Codes /\ FirstStep(pair[p].family) = "flag"
    BY <1>1, HeldPairs DEF TypeOK, FirstStep
  <2>2. /\ r \in Request /\ r.pc = "flag" /\ r.kind = "revoke" /\ r.family = pair[p].family /\ r.token = p
        /\ r.created = rows[p] /\ r.next = None /\ r.todo = {} /\ r.bar = FALSE
    BY <2>1 DEF Idle, Request, Kinds, findTokenByRefreshToken
  <2>3. request' = [request EXCEPT ![q] = r] /\ answered' = answered
    BY <1>2 DEF RevokeRefresh
  <2> QED BY <1>1, <1>2, <2>2, <2>3, RowMoves DEF Fresh
<1>3. CASE rows[p] = None
  BY <1>1, <1>3 DEF RevokeRefresh
<1> QED BY <1>2, <1>3

LEMMA RevokeAccessMoves ==
  ASSUME TypeOK, Lineage, NEW q \in Requests, NEW p \in Pairs, RevokeAccess(q, p)
  PROVE  /\ Fresh(q) /\ request[q].pc = "idle" /\ p \in held
         /\ request'[q].kind = "access" /\ request'[q].family = None /\ request'[q].token = p
         /\ request'[q].pc = "remove" /\ request'[q].bar = FALSE
<1> PICK r : r = [findTokenByRefreshToken(q, "access", p) EXCEPT !.pc = FirstStep(None), !.family = None, !.created = None]
  OBVIOUS
<1>1. rows[p] \in Epochs \cup {None} /\ p \in held /\ pair[p].family \in Codes
  BY HeldPairs DEF TypeOK, RevokeAccess
<1>2. /\ r \in Request /\ r.pc = "remove" /\ r.kind = "access" /\ r.family = None /\ r.token = p
      /\ r.next = None /\ r.todo = {} /\ r.bar = FALSE
  BY <1>1 DEF Idle, Request, Kinds, findTokenByRefreshToken, FirstStep
<1>3. request' = [request EXCEPT ![q] = r] /\ request[q].pc = "idle"
  BY DEF RevokeAccess, At
<1> QED BY <1>1, <1>2, <1>3, RowMoves DEF Fresh

LEMMA LiveMoves ==
  ASSUME TypeOK, NEW q \in Requests, checkGrantLive(q)
  PROVE  /\ request[q].pc = "live"
         /\ \/ GrantLive(q) /\ request[q].kind = "code" /\ GoesOn(q, "mint")
            \/ GrantLive(q) /\ request[q].kind # "code" /\ GoesOn(q, "find")
            \/ request[q].kind = "code" /\ IsOver(q)
            \/ request[q].kind = "refresh" /\ Flags(q)
<1>1. request[q].pc = "live"
  BY DEF checkGrantLive, At
<1>2. CASE GrantLive(q) /\ Goto(q, IF request[q].kind = "code" THEN "mint" ELSE "find")
  BY <1>1, <1>2, GotoMoves DEF PCs
<1>3. CASE request[q].kind = "code" /\ Ends(q)
  BY <1>1, <1>3, EndsMoves
<1>4. CASE request[q].kind = "refresh" /\ request' = [request EXCEPT ![q].pc = "flag", ![q].created = None, ![q].bar = FALSE]
  <2> PICK h, k : h = request[q] /\ k = [h EXCEPT !.pc = "flag", !.created = None, !.bar = FALSE]
    OBVIOUS
  <2>1. h \in Request
    BY DEF TypeOK
  <2>2. /\ k \in Request /\ k.pc = "flag" /\ k.kind = h.kind /\ k.family = h.family /\ k.token = h.token
        /\ k.next = h.next /\ k.todo = h.todo /\ k.bar = FALSE
    BY <2>1 DEF Request
  <2>3. request' = [request EXCEPT ![q] = k]
    BY <1>4 DEF TypeOK
  <2>4. Flags(q)
    BY <2>2, <2>3, RowMoves DEF Flags, Keeps
  <2> QED BY <1>1, <1>4, <2>4
<1> QED BY <1>2, <1>3, <1>4 DEF checkGrantLive

LEMMA FindMoves ==
  ASSUME TypeOK, NEW q \in Requests, consumeToken(q)
  PROVE  /\ request[q].pc = "find"
         /\ \/ request[q].family \notin revoked /\ refreshes[request[q].token] = "unused" /\ GoesOn(q, "claim")
            \/ Flags(q)
<1> QED BY GotoMoves, ReusedMoves DEF consumeToken, At, PCs

LEMMA ClaimMoves ==
  ASSUME TypeOK, NEW q \in Requests, Claim(q)
  PROVE  /\ request[q].pc = "claim"
         /\ \/ /\ refreshes[request[q].token] = "unused"
               /\ refreshes' = [refreshes EXCEPT ![request[q].token] = "used"]
               /\ \/ request[q].created = None /\ IsOver(q)
                  \/ request[q].created # None /\ GoesOn(q, "mint")
            \/ Flags(q) /\ UNCHANGED refreshes
<1> QED BY GotoMoves, EndsMoves, ReusedMoves DEF Claim, At, PCs, Unclaimed

LEMMA RefuseMoves ==
  ASSUME TypeOK, NEW q \in Requests, Refuse(q)
  PROVE  IsOver(q) /\ request[q].pc \in {"mint", "live"}
<1> QED BY EndsMoves DEF Refuse, At

LEMMA MintMoves ==
  ASSUME TypeOK, NEW q \in Requests, NEW n \in Pairs, Mint(q, n)
  PROVE  /\ Keeps(q) /\ request[q].pc = "mint"
         /\ request'[q].pc = IF request[q].kind = "refresh" THEN "deny" ELSE "issue"
         /\ request'[q].next = n /\ request'[q].todo = request[q].todo /\ request'[q].bar = FALSE
<1> PICK h, pc, k : /\ h = request[q] /\ pc = IF request[q].kind = "refresh" THEN "deny" ELSE "issue"
                    /\ k = [h EXCEPT !.pc = pc, !.next = n, !.created = None, !.bar = FALSE]
  OBVIOUS
<1>1. h \in Request /\ pc \in {"deny", "issue"}
  BY DEF TypeOK
<1>2. /\ k \in Request /\ k.pc = pc /\ k.kind = h.kind /\ k.family = h.family /\ k.token = h.token
      /\ k.next = n /\ k.todo = h.todo /\ k.bar = FALSE
  BY ZenonT(60), <1>1 DEF Request
<1>3. request' = [request EXCEPT ![q] = k] /\ request[q].pc = "mint"
  BY DEF Mint, At, TypeOK
<1> QED BY <1>2, <1>3, RowMoves DEF Keeps

LEMMA ListMoves ==
  ASSUME TypeOK, NEW q \in Requests, revokeTokenFamily(q)
  PROVE  /\ Keeps(q) /\ request[q].pc = "list" /\ request'[q].pc = "delete"
         /\ request'[q].todo = FamilyRows(request[q].family)
         /\ request'[q].created = request[q].created /\ request'[q].next = request[q].next
         /\ request'[q].bar = request[q].bar
<1> PICK h, todo, k : /\ h = request[q] /\ todo = FamilyRows(request[q].family)
                      /\ k = [h EXCEPT !.pc = "delete", !.todo = todo]
  OBVIOUS
<1>1. h \in Request /\ todo \subseteq Pairs
  BY DEF TypeOK, FamilyRows, Family, Minted
<1>2. /\ k \in Request /\ k.pc = "delete" /\ k.kind = h.kind /\ k.family = h.family /\ k.token = h.token
      /\ k.next = h.next /\ k.todo = todo /\ k.bar = h.bar /\ k.created = h.created
  BY <1>1 DEF Request
<1>3. request' = [request EXCEPT ![q] = k] /\ request[q].pc = "list"
  BY DEF revokeTokenFamily, At, TypeOK, Listed
<1> QED BY <1>2, <1>3, RowMoves DEF Keeps

LEMMA DenyOneMoves ==
  ASSUME TypeOK, NEW q \in Requests, DenyOne(q)
  PROVE  /\ Keeps(q) /\ request[q].pc = "denyAll" /\ request'[q].pc = "denyAll"
         /\ request'[q].created = request[q].created /\ request'[q].next = request[q].next
         /\ request'[q].bar = request[q].bar
         /\ \E p \in request[q].todo : denied' = denied \cup {p} /\ request'[q].todo = request[q].todo \ {p}
<1>1. PICK p \in request[q].todo : denied' = denied \cup {p} /\ request' = [request EXCEPT ![q].todo = @ \ {p}]
  BY DEF DenyOne
<1> PICK h, k : h = request[q] /\ k = [h EXCEPT !.todo = @ \ {p}]
  OBVIOUS
<1>2. h \in Request /\ h.pc = "denyAll"
  BY DEF TypeOK, DenyOne, At
<1>3. /\ k \in Request /\ k.pc = h.pc /\ k.kind = h.kind /\ k.family = h.family /\ k.token = h.token
      /\ k.next = h.next /\ k.todo = h.todo \ {p} /\ k.bar = h.bar /\ k.created = h.created
  BY <1>2 DEF Request
<1>4. request' = [request EXCEPT ![q] = k]
  BY <1>1 DEF TypeOK
<1> QED BY <1>1, <1>2, <1>3, <1>4, RowMoves DEF Keeps

LEMMA FamilyDoneMoves ==
  ASSUME TypeOK, NEW q \in Requests, FamilyDone(q)
  PROVE  /\ request[q].pc = "denyAll" /\ request[q].todo = {}
         /\ \/ request[q].created = None /\ Finish(q) /\ IsOver(q)
            \/ request[q].created # None /\ GoesOn(q, "remove") /\ UNCHANGED history
<1> QED BY GotoMoves, EndsMoves DEF FamilyDone, At, PCs, Finish

\* The other steps go on from one place to the next.
LEMMA StepsGoOn ==
  ASSUME TypeOK, NEW q \in Requests
  PROVE  /\ denylistJti(q) => request[q].pc = "deny" /\ GoesOn(q, "issue")
         /\ issueRefreshToken(q) => request[q].pc = "issue" /\ GoesOn(q, "store")
         /\ storeToken(q) => request[q].pc = "store" /\ GoesOn(q, "answer")
         /\ revokeFamily(q) => request[q].pc = "flag" /\ GoesOn(q, "list")
         /\ DeleteRows(q) => request[q].pc = "delete" /\ GoesOn(q, "denyAll")
         /\ revokeStoredAccessToken(q) => request[q].pc = "remove" /\ GoesOn(q, "denyOwn")
         /\ Deliver(q) => request[q].pc = "answer" /\ IsOver(q)
         /\ DenyOwn(q) => request[q].pc = "denyOwn" /\ IsOver(q)
         /\ Stops(q) => request[q].pc # "idle" /\ IsOver(q)
<1> QED BY GotoMoves, EndsMoves DEF PCs, At, Finish, denylistJti, issueRefreshToken, storeToken, revokeFamily,
           DeleteRows, revokeStoredAccessToken, Deliver, DenyOwn, Stops

--------------------------------------------------------------------------------
(* What no step takes back. *)

Grows ==
  /\ held \subseteq held' /\ denied \subseteq denied' /\ revoked \subseteq revoked'
  /\ lost \subseteq lost' /\ raced \subseteq raced' /\ epoch <= epoch' /\ epoch' \in Nat
  /\ Minted \subseteq Minted' /\ \A p \in Minted : pair'[p] = pair[p]
  /\ \A x \in Codes \cup Pairs : Taken(x) => Taken(x)'

\* A refresh token that has been used stays used: only new ones are issued.
LEMMA StepGrows ==
  ASSUME TypeOK, Requested, NewPairs, [Next]_vars
  PROVE  Grows
<1>1. ASSUME NEW q \in Requests, NEW k \in Codes, consumeAuthorizationCode(q, k)  PROVE Grows
  BY <1>1, BoundAssumption DEF TypeOK, Epochs, Grows, Taken, Minted, consumeAuthorizationCode, store, history
<1>2. ASSUME NEW q \in Requests, NEW p \in Pairs, Refresh(q, p)  PROVE Grows
  BY <1>2, BoundAssumption DEF TypeOK, Epochs, Grows, Taken, Minted, Refresh, store, history
<1>3. ASSUME NEW q \in Requests, NEW p \in Pairs, RevokeRefresh(q, p)  PROVE Grows
  BY <1>3, BoundAssumption DEF TypeOK, Epochs, Grows, Taken, Minted, RevokeRefresh, store, history
<1>4. ASSUME NEW q \in Requests, NEW p \in Pairs, RevokeAccess(q, p)  PROVE Grows
  BY <1>4, BoundAssumption DEF TypeOK, Epochs, Grows, Taken, Minted, RevokeAccess, store, history
<1>5. ASSUME NEW q \in Requests, checkGrantLive(q)  PROVE Grows
  BY <1>5, BoundAssumption DEF TypeOK, Epochs, Grows, Taken, Minted, checkGrantLive, store, history
<1>6. ASSUME NEW q \in Requests, consumeToken(q)  PROVE Grows
  BY <1>6, BoundAssumption DEF TypeOK, Epochs, Grows, Taken, Minted, consumeToken, store, history
<1>7. ASSUME NEW q \in Requests, Claim(q)  PROVE Grows
  BY <1>7, BoundAssumption DEF TypeOK, Epochs, Grows, Taken, Minted, Claim, store, history
<1>8. ASSUME NEW q \in Requests, Refuse(q)  PROVE Grows
  BY <1>8, BoundAssumption DEF TypeOK, Epochs, Grows, Taken, Minted, Refuse, store, history
<1>9. ASSUME NEW q \in Requests, NEW n \in Pairs, Mint(q, n)  PROVE Grows
  BY <1>9, BoundAssumption DEF TypeOK, Epochs, Grows, Taken, Minted, Mint, store, history
<1>10. ASSUME NEW q \in Requests, denylistJti(q)  PROVE Grows
  BY <1>10, BoundAssumption DEF TypeOK, Epochs, Grows, Taken, Minted, denylistJti, store, history
<1>11. ASSUME NEW q \in Requests, issueRefreshToken(q)  PROVE Grows
  <2>1. epoch \in Nat /\ refreshes \in [Pairs -> {"none", "unused", "used"}]
    BY BoundAssumption DEF TypeOK, Epochs
  <2>2. UNCHANGED <<held, denied, revoked, lost, raced, epoch, pair, codes>>
    BY <1>11 DEF issueRefreshToken, history
  <2>3. refreshes' = [refreshes EXCEPT ![request[q].next] = "unused"] /\ refreshes[request[q].next] = "none"
    BY <1>11 DEF issueRefreshToken, NewPairs, At
  <2>4. \A x \in Pairs : refreshes[x] = "used" => refreshes'[x] = "used"
    BY <2>1, <2>3
  <2> QED BY <2>1, <2>2, <2>4 DEF Grows, Taken, Minted
<1>12. ASSUME NEW q \in Requests, storeToken(q)  PROVE Grows
  BY <1>12, BoundAssumption DEF TypeOK, Epochs, Grows, Taken, Minted, storeToken, store, history
<1>13. ASSUME NEW q \in Requests, Deliver(q)  PROVE Grows
  BY <1>13, BoundAssumption DEF TypeOK, Epochs, Grows, Taken, Minted, Deliver, store, history
<1>14. ASSUME NEW q \in Requests, revokeFamily(q)  PROVE Grows
  BY <1>14, BoundAssumption DEF TypeOK, Epochs, Grows, Taken, Minted, revokeFamily, store, history
<1>15. ASSUME NEW q \in Requests, revokeTokenFamily(q)  PROVE Grows
  BY <1>15, BoundAssumption DEF TypeOK, Epochs, Grows, Taken, Minted, revokeTokenFamily, store, history
<1>16. ASSUME NEW q \in Requests, DeleteRows(q)  PROVE Grows
  BY <1>16, BoundAssumption DEF TypeOK, Epochs, Grows, Taken, Minted, DeleteRows, store, history
<1>17. ASSUME NEW q \in Requests, DenyOne(q)  PROVE Grows
  BY <1>17, BoundAssumption DEF TypeOK, Epochs, Grows, Taken, Minted, DenyOne, store, history
<1>18. ASSUME NEW q \in Requests, FamilyDone(q)  PROVE Grows
  BY <1>18, BoundAssumption DEF TypeOK, Epochs, Grows, Taken, Minted, FamilyDone, Finish, store, history
<1>19. ASSUME NEW q \in Requests, revokeStoredAccessToken(q)  PROVE Grows
  BY <1>19, BoundAssumption DEF TypeOK, Epochs, Grows, Taken, Minted, revokeStoredAccessToken, store, history
<1>20. ASSUME NEW q \in Requests, DenyOwn(q)  PROVE Grows
  BY <1>20, BoundAssumption DEF TypeOK, Epochs, Grows, Taken, Minted, DenyOwn, Finish, store, history
<1>21. ASSUME NEW q \in Requests, Stops(q)  PROVE Grows
  BY <1>21, BoundAssumption DEF TypeOK, Epochs, Grows, Taken, Minted, Stops, store, history
<1>22. ASSUME NEW k \in Codes, storeAuthorizationCode(k)  PROVE Grows
  BY <1>22, BoundAssumption DEF TypeOK, Epochs, Grows, Taken, Minted, storeAuthorizationCode, store, history
<1>23. ASSUME RevokeUser  PROVE Grows
  BY <1>23, BoundAssumption DEF TypeOK, Epochs, Grows, Taken, Minted, RevokeUser, store, history
<1>24. ASSUME UNCHANGED vars  PROVE Grows
  <2>1. epoch \in Nat
    BY BoundAssumption DEF TypeOK, Epochs
  <2>2. UNCHANGED <<held, denied, revoked, lost, raced, epoch, pair, codes, refreshes>>
    BY <1>24 DEF vars, store, history
  <2> QED BY <2>1, <2>2 DEF Grows, Taken, Minted
<1> QED BY <1>1, <1>2, <1>3, <1>4, <1>5, <1>6, <1>7, <1>8, <1>9, <1>10, <1>11, <1>12, <1>13, <1>14, <1>15, <1>16,
           <1>17, <1>18, <1>19, <1>20, <1>21, <1>22, <1>23, <1>24 DEF Next, Begin, Grant, Kill


LEMMA FormedStays ==
  ASSUME NEW r, Formed(r), Lineage, Grows
  PROVE  Formed(r)'
<1> QED BY DEF Formed, Lineage, Grows

LEMMA OneFormed ==
  ASSUME Requested, Lineage, Grows, NEW q \in Requests, Moved(q), Formed(request[q])'
  PROVE  Requested'
<1> SUFFICES ASSUME NEW x \in Requests, x # q  PROVE Formed(request[x])'
  BY DEF Requested, Moved
<1>1. request'[x] = request[x]
  BY DEF Moved
<1> PICK r : r = request[x]
  OBVIOUS
<1>2. Formed(r)
  BY DEF Requested
<1>3. Formed(r)'
  BY <1>2, FormedStays
<1> QED BY <1>1, <1>3 DEF Formed

LEMMA OverFormed ==
  ASSUME NEW q \in Requests, IsOver(q)
  PROVE  Formed(request[q])'
<1> QED BY IdleTyped DEF Formed, IsOver

LEMMA FlagsFormed ==
  ASSUME NEW q \in Requests, Formed(request[q]), Lineage, Grows, Flags(q), request[q].pc \in {"live", "find", "claim"},
         request[q].pc = "live" => request[q].kind = "refresh"
  PROVE  Formed(request[q])'
<1>1. request[q].kind = "refresh" /\ request[q].todo = {}
  BY DEF Formed, Request, Kinds
<1>2. request'[q].pc = "flag" /\ request'[q].kind = "refresh" /\ request'[q].todo = {} /\ request'[q] \in Request
  BY <1>1 DEF Flags, Keeps, Moved
<1>3. request'[q].family = request[q].family /\ request'[q].token = request[q].token
  BY DEF Flags, Keeps
<1>4. request[q].token \in held /\ request[q].family # None /\ pair[request[q].token].family = request[q].family
  BY <1>1 DEF Formed
<1>5. request[q].token \in held' /\ pair'[request[q].token].family = request[q].family
  BY <1>4 DEF Lineage, Grows
<1> QED BY <1>2, <1>3, <1>4, <1>5 DEF Formed

\* A request that goes on where a grant does.
LEMMA GrantFormed ==
  ASSUME NEW q \in Requests, Formed(request[q]), Lineage, Grows,
         NEW pc \in {"find", "claim", "mint"}, GoesOn(q, pc),
         request[q].pc \in {"live", "find", "claim"},
         request[q].kind = "code" => pc = "mint"
  PROVE  Formed(request[q])'
<1>1. request[q].kind \in {"code", "refresh"} /\ request[q].todo = {}
  BY DEF Formed, Request, Kinds
<1>2. request'[q].pc = pc /\ request'[q].kind = request[q].kind /\ request'[q].todo = {} /\ request'[q] \in Request
  BY <1>1 DEF GoesOn, Keeps, Moved
<1>3. request'[q].family = request[q].family /\ request'[q].token = request[q].token
  BY DEF GoesOn, Keeps
<1>4. request[q].family # None
  BY <1>1 DEF Formed
<1>5. request[q].kind = "refresh" => request[q].token \in held' /\ pair'[request[q].token].family = request[q].family
  BY <1>4 DEF Formed, Lineage, Grows
<1> QED BY <1>1, <1>2, <1>3, <1>4, <1>5 DEF Formed

LEMMA IdleRequests ==
  ASSUME Requested, Lineage, Grows, UNCHANGED request
  PROVE  Requested'
<1> SUFFICES ASSUME NEW x \in Requests  PROVE Formed(request[x])'
  BY DEF Requested
<1> PICK r : r = request[x]
  OBVIOUS
<1>1. Formed(r)'
  BY FormedStays DEF Requested
<1> QED BY <1>1 DEF Formed

\* A request that goes on still works on the family and the pairs it found.
LEMMA RequestedKept ==
  ASSUME TypeOK, Lineage, Requested, Grows, [Next]_vars
  PROVE  Requested'
<1>1. ASSUME NEW q \in Requests, NEW k \in Codes, consumeAuthorizationCode(q, k)  PROVE Requested'
  <2>1. Formed(request[q])
    BY <1>1 DEF Requested
  <2>2. Formed(request[q])'
    BY <1>1, <2>1, HeldPairs, NoneAssumption, IdleTyped, CodeMoves DEF Formed, Grows, Lineage, Moved, Fresh
  <2>3. Moved(q)
    BY <1>1, CodeMoves DEF Fresh
  <2> QED BY <2>2, <2>3, OneFormed
<1>2. ASSUME NEW q \in Requests, NEW p \in Pairs, Refresh(q, p)  PROVE Requested'
  <2>1. Formed(request[q])
    BY <1>2 DEF Requested
  <2>2. Formed(request[q])'
    BY <1>2, <2>1, HeldPairs, NoneAssumption, IdleTyped, RefreshMoves DEF Formed, Grows, Lineage, Moved, Fresh
  <2>3. Moved(q)
    BY <1>2, RefreshMoves DEF Fresh
  <2> QED BY <2>2, <2>3, OneFormed
<1>3. ASSUME NEW q \in Requests, NEW p \in Pairs, RevokeRefresh(q, p)  PROVE Requested'
  <2>1. CASE rows[p] = None
    BY <1>3, <2>1, RevokeRefreshMoves, IdleRequests
  <2>2. CASE rows[p] # None
    <3>1. p \in held' /\ pair'[p] = pair[p] /\ pair[p].family # None /\ Moved(q)
      BY <1>3, <2>2, HeldPairs, RevokeRefreshMoves DEF Grows, Lineage, Fresh
    <3>2. /\ request'[q].kind = "revoke" /\ request'[q].family = pair[p].family /\ request'[q].token = p
          /\ request'[q].created # None /\ request'[q].pc = "flag" /\ request'[q].todo = {}
      BY <1>3, <2>2, RevokeRefreshMoves DEF Fresh
    <3>3. Formed(request[q])'
      BY <3>1, <3>2 DEF Formed, Moved
    <3> QED BY <3>1, <3>3, OneFormed
  <2> QED BY <2>1, <2>2
<1>4. ASSUME NEW q \in Requests, NEW p \in Pairs, RevokeAccess(q, p)  PROVE Requested'
  <2>1. p \in held' /\ Moved(q)
    BY <1>4, RevokeAccessMoves DEF Grows, Fresh
  <2>2. Formed(request[q])'
    BY <1>4, <2>1, RevokeAccessMoves DEF Formed, Moved, Fresh
  <2> QED BY <2>1, <2>2, OneFormed
<1>5. ASSUME NEW q \in Requests, checkGrantLive(q)  PROVE Requested'
  <2>1. Formed(request[q]) /\ request[q].pc = "live"
    BY <1>5, LiveMoves DEF Requested
  <2>2. CASE request[q].kind = "refresh" /\ Flags(q)
    BY <2>1, <2>2, FlagsFormed, OneFormed DEF Flags, Keeps
  <2>3. CASE IsOver(q)
    BY <2>3, OverFormed, OneFormed DEF IsOver
  <2>4. CASE GoesOn(q, "mint") \/ (request[q].kind # "code" /\ GoesOn(q, "find"))
    BY <2>1, <2>4, GrantFormed, OneFormed DEF GoesOn, Keeps
  <2> QED BY <1>5, <2>2, <2>3, <2>4, LiveMoves
<1>6. ASSUME NEW q \in Requests, consumeToken(q)  PROVE Requested'
  <2>1. Formed(request[q]) /\ request[q].pc = "find"
    BY <1>6, FindMoves DEF Requested
  <2>2. request[q].kind # "code"
    BY <2>1 DEF Formed
  <2>3. Formed(request[q])' /\ Moved(q)
    BY <1>6, <2>1, <2>2, FindMoves, FlagsFormed, GrantFormed DEF GoesOn, Keeps, Flags
  <2> QED BY <2>3, OneFormed
<1>7. ASSUME NEW q \in Requests, Claim(q)  PROVE Requested'
  <2>1. Formed(request[q]) /\ request[q].pc = "claim"
    BY <1>7, ClaimMoves DEF Requested
  <2>2. CASE Flags(q)
    BY <2>1, <2>2, FlagsFormed, OneFormed DEF Flags, Keeps
  <2>3. CASE IsOver(q)
    BY <2>3, OverFormed, OneFormed DEF IsOver
  <2>4. CASE GoesOn(q, "mint")
    BY <2>1, <2>4, GrantFormed, OneFormed DEF GoesOn, Keeps
  <2> QED BY <1>7, <2>2, <2>3, <2>4, ClaimMoves
<1>8. ASSUME NEW q \in Requests, Refuse(q)  PROVE Requested'
  <2>1. Formed(request[q])
    BY <1>8 DEF Requested
  <2>2. Formed(request[q])'
    BY <1>8, <2>1, HeldPairs, NoneAssumption, IdleTyped, RefuseMoves DEF Formed, Grows, Lineage, Moved, IsOver
  <2>3. Moved(q)
    BY <1>8, RefuseMoves DEF IsOver
  <2> QED BY <2>2, <2>3, OneFormed
<1>9. ASSUME NEW q \in Requests, NEW n \in Pairs, Mint(q, n)  PROVE Requested'
  <2>1. Formed(request[q]) /\ request[q].pc = "mint"
    BY <1>9, MintMoves DEF Requested
  <2>2. request[q].kind \in {"code", "refresh"} /\ request[q].todo = {} /\ request[q].family # None
    BY <2>1 DEF Formed, Request, Kinds
  <2>3. n \in Minted' /\ pair'[n].family = request[q].family
    <3>1. request[q].family \in Codes /\ Parent(q) \in Pairs \cup Codes
      BY <2>1, <2>2 DEF Parent, Formed, Request, TypeOK
    <3>2. pair'[n] = [family |-> request[q].family, parent |-> Parent(q)]
      BY <1>9 DEF Mint, TypeOK
    <3>3. pair'[n] \in Pair
      BY <3>1, <3>2 DEF Pair
    <3> QED BY <3>2, <3>3, PairsAreReal DEF Minted
  <2>4. request[q].kind = "refresh" => request[q].token \in held' /\ pair'[request[q].token].family = request[q].family
    BY <2>1, <2>2 DEF Formed, Lineage, Grows
  <2>5. Formed(request[q])'
    BY <1>9, <2>2, <2>3, <2>4, MintMoves DEF Formed, Keeps, Moved
  <2> QED BY <1>9, <2>5, MintMoves, OneFormed DEF Keeps
<1>10. ASSUME NEW q \in Requests, denylistJti(q)  PROVE Requested'
  <2>1. Formed(request[q])
    BY <1>10 DEF Requested
  <2>2. Formed(request[q])'
    BY <1>10, <2>1, HeldPairs, NoneAssumption, IdleTyped, StepsGoOn DEF Formed, Grows, Lineage, Moved, GoesOn, Keeps
  <2>3. Moved(q)
    BY <1>10, StepsGoOn DEF GoesOn, Keeps
  <2> QED BY <2>2, <2>3, OneFormed
<1>11. ASSUME NEW q \in Requests, issueRefreshToken(q)  PROVE Requested'
  <2>1. Formed(request[q])
    BY <1>11 DEF Requested
  <2>2. Formed(request[q])'
    BY <1>11, <2>1, HeldPairs, NoneAssumption, IdleTyped, StepsGoOn DEF Formed, Grows, Lineage, Moved, GoesOn, Keeps
  <2>3. Moved(q)
    BY <1>11, StepsGoOn DEF GoesOn, Keeps
  <2> QED BY <2>2, <2>3, OneFormed
<1>12. ASSUME NEW q \in Requests, storeToken(q)  PROVE Requested'
  <2>1. Formed(request[q])
    BY <1>12 DEF Requested
  <2>2. Formed(request[q])'
    BY <1>12, <2>1, HeldPairs, NoneAssumption, IdleTyped, StepsGoOn DEF Formed, Grows, Lineage, Moved, GoesOn, Keeps
  <2>3. Moved(q)
    BY <1>12, StepsGoOn DEF GoesOn, Keeps
  <2> QED BY <2>2, <2>3, OneFormed
<1>13. ASSUME NEW q \in Requests, Deliver(q)  PROVE Requested'
  <2>1. Formed(request[q])
    BY <1>13 DEF Requested
  <2>2. Formed(request[q])'
    BY <1>13, <2>1, HeldPairs, NoneAssumption, IdleTyped, StepsGoOn DEF Formed, Grows, Lineage, Moved, IsOver
  <2>3. Moved(q)
    BY <1>13, StepsGoOn DEF IsOver
  <2> QED BY <2>2, <2>3, OneFormed
<1>14. ASSUME NEW q \in Requests, revokeFamily(q)  PROVE Requested'
  <2>1. Formed(request[q])
    BY <1>14 DEF Requested
  <2>2. Formed(request[q])'
    BY <1>14, <2>1, HeldPairs, NoneAssumption, IdleTyped, StepsGoOn DEF Formed, Grows, Lineage, Moved, GoesOn, Keeps,
       revokeFamily
  <2>3. Moved(q)
    BY <1>14, StepsGoOn DEF GoesOn, Keeps
  <2> QED BY <2>2, <2>3, OneFormed
<1>15. ASSUME NEW q \in Requests, revokeTokenFamily(q)  PROVE Requested'
  <2>1. Formed(request[q])
    BY <1>15 DEF Requested
  <2>2. Formed(request[q])'
    BY <1>15, <2>1, HeldPairs, NoneAssumption, IdleTyped, ListMoves DEF Formed, Grows, Lineage, Moved, Keeps
  <2>3. Moved(q)
    BY <1>15, ListMoves DEF Keeps
  <2> QED BY <2>2, <2>3, OneFormed
<1>16. ASSUME NEW q \in Requests, DeleteRows(q)  PROVE Requested'
  <2>1. Formed(request[q])
    BY <1>16 DEF Requested
  <2>2. Formed(request[q])'
    BY <1>16, <2>1, HeldPairs, NoneAssumption, IdleTyped, StepsGoOn DEF Formed, Grows, Lineage, Moved, GoesOn, Keeps
  <2>3. Moved(q)
    BY <1>16, StepsGoOn DEF GoesOn, Keeps
  <2> QED BY <2>2, <2>3, OneFormed
<1>17. ASSUME NEW q \in Requests, DenyOne(q)  PROVE Requested'
  <2>1. Formed(request[q])
    BY <1>17 DEF Requested
  <2>2. Formed(request[q])'
    BY <1>17, <2>1, HeldPairs, NoneAssumption, IdleTyped, DenyOneMoves DEF Formed, Grows, Lineage, Moved, Keeps
  <2>3. Moved(q)
    BY <1>17, DenyOneMoves DEF Keeps
  <2> QED BY <2>2, <2>3, OneFormed
<1>18. ASSUME NEW q \in Requests, FamilyDone(q)  PROVE Requested'
  <2>1. Formed(request[q])
    BY <1>18 DEF Requested
  <2>2. Formed(request[q])'
    BY <1>18, <2>1, HeldPairs, NoneAssumption, IdleTyped, FamilyDoneMoves DEF Formed, Grows, Lineage, Moved, GoesOn,
       Keeps, IsOver
  <2>3. Moved(q)
    BY <1>18, FamilyDoneMoves DEF GoesOn, Keeps, IsOver
  <2> QED BY <2>2, <2>3, OneFormed
<1>19. ASSUME NEW q \in Requests, revokeStoredAccessToken(q)  PROVE Requested'
  <2>1. Formed(request[q])
    BY <1>19 DEF Requested
  <2>2. Formed(request[q])'
    BY <1>19, <2>1, HeldPairs, NoneAssumption, IdleTyped, StepsGoOn DEF Formed, Grows, Lineage, Moved, GoesOn, Keeps
  <2>3. Moved(q)
    BY <1>19, StepsGoOn DEF GoesOn, Keeps
  <2> QED BY <2>2, <2>3, OneFormed
<1>20. ASSUME NEW q \in Requests, DenyOwn(q)  PROVE Requested'
  <2>1. Formed(request[q])
    BY <1>20 DEF Requested
  <2>2. Formed(request[q])'
    BY <1>20, <2>1, HeldPairs, NoneAssumption, IdleTyped, StepsGoOn DEF Formed, Grows, Lineage, Moved, IsOver
  <2>3. Moved(q)
    BY <1>20, StepsGoOn DEF IsOver
  <2> QED BY <2>2, <2>3, OneFormed
<1>21. ASSUME NEW q \in Requests, Stops(q)  PROVE Requested'
  <2>1. Formed(request[q])
    BY <1>21 DEF Requested
  <2>2. Formed(request[q])'
    BY <1>21, <2>1, HeldPairs, NoneAssumption, IdleTyped, StepsGoOn DEF Formed, Grows, Lineage, Moved, IsOver
  <2>3. Moved(q)
    BY <1>21, StepsGoOn DEF IsOver
  <2> QED BY <2>2, <2>3, OneFormed
<1>22. ASSUME NEW k \in Codes, storeAuthorizationCode(k)  PROVE Requested'
  <2>1. UNCHANGED request
    BY <1>22 DEF storeAuthorizationCode
  <2> QED BY <2>1, IdleRequests
<1>23. ASSUME RevokeUser  PROVE Requested'
  <2>1. UNCHANGED request
    BY <1>23 DEF RevokeUser
  <2> QED BY <2>1, IdleRequests
<1>24. ASSUME UNCHANGED vars  PROVE Requested'
  <2>1. UNCHANGED request
    BY <1>24 DEF vars
  <2> QED BY <2>1, IdleRequests
<1> QED BY <1>1, <1>2, <1>3, <1>4, <1>5, <1>6, <1>7, <1>8, <1>9, <1>10, <1>11, <1>12, <1>13, <1>14, <1>15, <1>16,
           <1>17, <1>18, <1>19, <1>20, <1>21, <1>22, <1>23, <1>24 DEF Next, Begin, Grant, Kill

\* TypeOK without the requests.
RowsTyped ==
  /\ codes \in [Codes -> Code]
  /\ rows \in [Pairs -> Epochs \cup {None}]
  /\ refreshes \in [Pairs -> {"none", "unused", "used"}]
  /\ revoked \subseteq Codes /\ denied \subseteq Pairs
  /\ epoch \in Epochs
  /\ faults \in 0..MaxFaults
  /\ pair \in [Pairs -> Pair \cup {None}]
  /\ held \subseteq Pairs
  /\ lost \subseteq Codes \X Kinds /\ raced \subseteq Codes /\ ended \subseteq Codes
  /\ answered \subseteq Pairs /\ barred \subseteq Requests

\* The rows and the history keep their types.
LEMMA RowsKept ==
  ASSUME TypeOK, RowsTyped, Requested, Lineage, [Next]_vars
  PROVE  RowsTyped'
<1>1. ASSUME NEW q \in Requests, NEW k \in Codes, consumeAuthorizationCode(q, k)  PROVE RowsTyped'
  <2>1. codes' \in [Codes -> Code]
    BY <1>1 DEF RowsTyped, Code, consumeAuthorizationCode
  <2> QED BY <1>1, <2>1 DEF RowsTyped, consumeAuthorizationCode, history
<1>2. ASSUME NEW q \in Requests, NEW p \in Pairs, Refresh(q, p)  PROVE RowsTyped'
  <2>1. request[q] \in Request /\ Formed(request[q])
    BY <1>2 DEF TypeOK, Requested
  <2> QED BY <1>2, <2>1, NoneAssumption, BoundAssumption DEF RowsTyped, Request, Formed, Refresh, store, history, At
<1>3. ASSUME NEW q \in Requests, NEW p \in Pairs, RevokeRefresh(q, p)  PROVE RowsTyped'
  <2>1. request[q] \in Request /\ Formed(request[q])
    BY <1>3 DEF TypeOK, Requested
  <2> QED BY <1>3, <2>1, NoneAssumption, BoundAssumption DEF RowsTyped, Request, Formed, RevokeRefresh, store, history, At
<1>4. ASSUME NEW q \in Requests, NEW p \in Pairs, RevokeAccess(q, p)  PROVE RowsTyped'
  <2>1. request[q] \in Request /\ Formed(request[q])
    BY <1>4 DEF TypeOK, Requested
  <2> QED BY <1>4, <2>1, NoneAssumption, BoundAssumption DEF RowsTyped, Request, Formed, RevokeAccess, store, history, At
<1>5. ASSUME NEW q \in Requests, checkGrantLive(q)  PROVE RowsTyped'
  <2>1. request[q] \in Request /\ Formed(request[q])
    BY <1>5 DEF TypeOK, Requested
  <2> QED BY <1>5, <2>1, NoneAssumption, BoundAssumption DEF RowsTyped, Request, Formed, checkGrantLive, store, history, At
<1>6. ASSUME NEW q \in Requests, consumeToken(q)  PROVE RowsTyped'
  <2>1. request[q] \in Request /\ Formed(request[q])
    BY <1>6 DEF TypeOK, Requested
  <2> QED BY <1>6, <2>1, NoneAssumption, BoundAssumption DEF RowsTyped, Request, Formed, consumeToken, store, history, At
<1>7. ASSUME NEW q \in Requests, Claim(q)  PROVE RowsTyped'
  <2>1. request[q] \in Request /\ Formed(request[q])
    BY <1>7 DEF TypeOK, Requested
  <2> QED BY <1>7, <2>1, NoneAssumption, BoundAssumption DEF RowsTyped, Request, Formed, Claim, store, history, At
<1>8. ASSUME NEW q \in Requests, Refuse(q)  PROVE RowsTyped'
  <2>1. request[q] \in Request /\ Formed(request[q])
    BY <1>8 DEF TypeOK, Requested
  <2> QED BY <1>8, <2>1, NoneAssumption, BoundAssumption DEF RowsTyped, Request, Formed, Refuse, store, history, At
<1>9. ASSUME NEW q \in Requests, NEW n \in Pairs, Mint(q, n)  PROVE RowsTyped'
  <2>1. request[q] \in Request /\ Formed(request[q]) /\ request[q].pc = "mint"
    BY <1>9 DEF TypeOK, Requested, Mint, At
  <2>2. request[q].kind \in {"code", "refresh"} /\ request[q].family \in Codes
    BY <2>1 DEF Formed, Request, Kinds
  <2>3. Parent(q) \in Pairs \cup Codes
    BY <2>1, <2>2 DEF Parent, Formed, RowsTyped
  <2>4. pair' \in [Pairs -> Pair \cup {None}]
    BY <1>9, <2>2, <2>3 DEF Mint, RowsTyped, Pair
  <2> QED BY <1>9, <2>4 DEF RowsTyped, Mint
<1>10. ASSUME NEW q \in Requests, denylistJti(q)  PROVE RowsTyped'
  <2>1. request[q] \in Request /\ Formed(request[q]) /\ request[q].pc = "deny"
    BY <1>10 DEF TypeOK, Requested, denylistJti, At
  <2>2. request[q].token \in Pairs
    BY <2>1 DEF Formed, RowsTyped
  <2> QED BY <1>10, <2>2 DEF RowsTyped, denylistJti, OldJti, history
<1>11. ASSUME NEW q \in Requests, issueRefreshToken(q)  PROVE RowsTyped'
  <2>1. request[q] \in Request /\ Formed(request[q])
    BY <1>11 DEF TypeOK, Requested
  <2> QED BY <1>11, <2>1, NoneAssumption, BoundAssumption DEF RowsTyped, Request, Formed, issueRefreshToken, store, history, At
<1>12. ASSUME NEW q \in Requests, storeToken(q)  PROVE RowsTyped'
  <2>1. request[q] \in Request /\ Formed(request[q])
    BY <1>12 DEF TypeOK, Requested
  <2> QED BY <1>12, <2>1, NoneAssumption, BoundAssumption DEF RowsTyped, Request, Formed, storeToken, store, history, At
<1>13. ASSUME NEW q \in Requests, Deliver(q)  PROVE RowsTyped'
  <2>1. request[q] \in Request /\ Formed(request[q]) /\ request[q].pc = "answer"
    BY <1>13 DEF TypeOK, Requested, Deliver, At
  <2>2. request[q].next \in Pairs
    BY <2>1 DEF Formed, Minted
  <2> QED BY <1>13, <2>2 DEF RowsTyped, Deliver, store, history
<1>14. ASSUME NEW q \in Requests, revokeFamily(q)  PROVE RowsTyped'
  <2>1. request[q] \in Request /\ Formed(request[q]) /\ request[q].pc = "flag"
    BY <1>14 DEF TypeOK, Requested, revokeFamily, At
  <2>2. request[q].family \in Codes
    BY <2>1 DEF Formed, Request
  <2> QED BY <1>14, <2>2 DEF RowsTyped, revokeFamily, history
<1>15. ASSUME NEW q \in Requests, revokeTokenFamily(q)  PROVE RowsTyped'
  <2>1. request[q] \in Request /\ Formed(request[q]) /\ request[q].pc = "list"
    BY <1>15 DEF TypeOK, Requested, revokeTokenFamily, At
  <2>2. request[q].family \in Codes
    BY <2>1 DEF Formed, Request
  <2> QED BY <1>15, <2>2 DEF RowsTyped, revokeTokenFamily, store
<1>16. ASSUME NEW q \in Requests, DeleteRows(q)  PROVE RowsTyped'
  <2>1. request[q] \in Request /\ Formed(request[q])
    BY <1>16 DEF TypeOK, Requested
  <2> QED BY <1>16, <2>1, NoneAssumption, BoundAssumption DEF RowsTyped, Request, Formed, DeleteRows, store, history, At
<1>17. ASSUME NEW q \in Requests, DenyOne(q)  PROVE RowsTyped'
  <2>1. request[q].todo \subseteq Pairs
    BY <1>17 DEF TypeOK, Request
  <2> QED BY <1>17, <2>1 DEF RowsTyped, DenyOne, history
<1>18. ASSUME NEW q \in Requests, FamilyDone(q)  PROVE RowsTyped'
  <2>1. request[q] \in Request /\ Formed(request[q])
    BY <1>18 DEF TypeOK, Requested
  <2> QED BY <1>18, <2>1, NoneAssumption, BoundAssumption DEF RowsTyped, Request, Formed, FamilyDone, Finish, store, history, At
<1>19. ASSUME NEW q \in Requests, revokeStoredAccessToken(q)  PROVE RowsTyped'
  <2>1. request[q] \in Request /\ Formed(request[q])
    BY <1>19 DEF TypeOK, Requested
  <2> QED BY <1>19, <2>1, NoneAssumption, BoundAssumption DEF RowsTyped, Request, Formed, revokeStoredAccessToken,
             store, history, At
<1>20. ASSUME NEW q \in Requests, DenyOwn(q)  PROVE RowsTyped'
  <2>1. request[q] \in Request /\ Formed(request[q]) /\ request[q].pc = "denyOwn"
    BY <1>20 DEF TypeOK, Requested, DenyOwn, At
  <2>2. request[q].token \in Pairs
    BY <2>1 DEF Formed, RowsTyped
  <2> QED BY <1>20, <2>1, <2>2 DEF RowsTyped, DenyOwn, OldJti, Finish, Request
<1>21. ASSUME NEW q \in Requests, Stops(q)  PROVE RowsTyped'
  <2>1. request[q].kind \in Kinds
    BY <1>21 DEF TypeOK, Request
  <2>2. faults' \in 0..MaxFaults
    BY <1>21, BoundAssumption DEF RowsTyped, Stops
  <2>3. lost' \subseteq Codes \X Kinds
    BY <1>21, <2>1 DEF RowsTyped, Stops
  <2> QED BY <1>21, <2>2, <2>3 DEF RowsTyped, Stops, store
<1>22. ASSUME NEW k \in Codes, storeAuthorizationCode(k)  PROVE RowsTyped'
  BY <1>22 DEF RowsTyped, Code, storeAuthorizationCode, history
<1>23. ASSUME RevokeUser  PROVE RowsTyped'
  BY <1>23, BoundAssumption DEF RowsTyped, Epochs, RevokeUser, history
<1>24. ASSUME UNCHANGED vars  PROVE RowsTyped'
  BY <1>24 DEF RowsTyped, vars, store, history
<1> QED BY <1>1, <1>2, <1>3, <1>4, <1>5, <1>6, <1>7, <1>8, <1>9, <1>10, <1>11, <1>12, <1>13, <1>14, <1>15, <1>16,
           <1>17, <1>18, <1>19, <1>20, <1>21, <1>22, <1>23, <1>24 DEF Next, Begin, Grant, Kill

LEMMA TypesKept ==
  ASSUME TypeOK, Requested, Requested', Lineage, [Next]_vars
  PROVE  TypeOK'
<1>1. RowsTyped
  BY DEF TypeOK, RowsTyped
<1>2. RowsTyped'
  BY <1>1, RowsKept
<1> QED BY <1>2 DEF TypeOK, RowsTyped, Requested

--------------------------------------------------------------------------------
(* Pairs come from one another, and a new pair belongs to one request. *)

LEMMA LineageStays ==
  ASSUME Lineage, UNCHANGED <<pair, held, revoked, answered>>
  PROVE  Lineage'
<1> QED BY DEF Lineage, Minted, Family

LEMMA MintedIsReal ==
  ASSUME TypeOK, Requested, NEW q \in Requests, NEW n \in Pairs, Mint(q, n)
  PROVE  /\ n \in Minted' /\ request[q].family \in Codes /\ request[q].kind \in {"code", "refresh"}
         /\ pair' = [pair EXCEPT ![n] = [family |-> request[q].family, parent |-> Parent(q)]]
<1>1. Formed(request[q]) /\ request[q].pc = "mint"
  BY MintMoves DEF Requested
<1>2. request[q].kind \in {"code", "refresh"} /\ request[q].family \in Codes
  BY <1>1 DEF Formed, Request, Kinds
<1>3. Parent(q) \in Pairs \cup Codes
  BY <1>1, <1>2 DEF Parent, Formed, TypeOK
<1>4. pair' = [pair EXCEPT ![n] = [family |-> request[q].family, parent |-> Parent(q)]]
  BY DEF Mint
<1>5. pair'[n] = [family |-> request[q].family, parent |-> Parent(q)]
  BY <1>4 DEF TypeOK
<1>6. pair'[n] \in Pair
  BY <1>2, <1>3, <1>5 DEF Pair
<1> QED BY <1>2, <1>4, <1>6, PairsAreReal DEF Minted

\* A pair is minted from its family's code or from a pair of its family.
LEMMA LineageKept ==
  ASSUME TypeOK, Requested, Lineage, [Next]_vars
  PROVE  Lineage'
<1>1. ASSUME NEW q \in Requests, NEW k \in Codes, consumeAuthorizationCode(q, k)  PROVE Lineage'
  BY <1>1, LineageStays DEF consumeAuthorizationCode, store, history
<1>2. ASSUME NEW q \in Requests, NEW p \in Pairs, Refresh(q, p)  PROVE Lineage'
  BY <1>2, LineageStays DEF Refresh, store, history
<1>3. ASSUME NEW q \in Requests, NEW p \in Pairs, RevokeRefresh(q, p)  PROVE Lineage'
  <2>1. answered' \subseteq held /\ UNCHANGED <<pair, held, revoked>>
    BY <1>3 DEF RevokeRefresh, Lineage, store
  <2> QED BY <2>1 DEF Lineage, Minted, Family
<1>4. ASSUME NEW q \in Requests, NEW p \in Pairs, RevokeAccess(q, p)  PROVE Lineage'
  BY <1>4, LineageStays DEF RevokeAccess, store, history
<1>5. ASSUME NEW q \in Requests, checkGrantLive(q)  PROVE Lineage'
  BY <1>5, LineageStays DEF checkGrantLive, store, history
<1>6. ASSUME NEW q \in Requests, consumeToken(q)  PROVE Lineage'
  BY <1>6, LineageStays DEF consumeToken, store, history
<1>7. ASSUME NEW q \in Requests, Claim(q)  PROVE Lineage'
  BY <1>7, LineageStays DEF Claim, store, history
<1>8. ASSUME NEW q \in Requests, Refuse(q)  PROVE Lineage'
  BY <1>8, LineageStays DEF Refuse, store, history
<1>9. ASSUME NEW q \in Requests, NEW n \in Pairs, Mint(q, n)  PROVE Lineage'
  <2>1. Formed(request[q]) /\ request[q].pc = "mint" /\ n \notin Minted
    BY <1>9, MintMoves DEF Requested, Mint
  <2>2. pair' = [pair EXCEPT ![n] = [family |-> request[q].family, parent |-> Parent(q)]]
    BY <1>9 DEF Mint
  <2>3. pair'[n].family = request[q].family /\ pair'[n].parent = Parent(q) /\ \A p \in Pairs \ {n} : pair'[p] = pair[p]
    BY <2>2 DEF TypeOK
  <2>4. Minted' = Minted \cup {n}
    <3>1. n \in Minted'
      BY <1>9, MintedIsReal
    <3> QED BY <2>3, <3>1 DEF Minted
  <2>5. Parent(q) = request[q].family \/ (Parent(q) \in Minted /\ pair[Parent(q)].family = request[q].family)
    BY <2>1 DEF Parent, Formed, Request, Kinds, Lineage
  <2>6. \A p \in Minted' : \/ pair'[p].parent = pair'[p].family
                           \/ pair'[p].parent \in Minted' /\ pair'[pair'[p].parent].family = pair'[p].family
    BY <2>1, <2>3, <2>4, <2>5 DEF Lineage, Minted
  <2>7. IsFiniteSet(Minted')
    BY <2>4, FS_AddElement DEF Lineage
  <2>8. \A f \in revoked : Family(f)' # {}
    BY <2>1, <2>3, <2>4 DEF Lineage, Family, Minted
  <2> QED BY <1>9, <2>4, <2>6, <2>7, <2>8 DEF Lineage, Mint
<1>10. ASSUME NEW q \in Requests, denylistJti(q)  PROVE Lineage'
  BY <1>10, LineageStays DEF denylistJti, store, history
<1>11. ASSUME NEW q \in Requests, issueRefreshToken(q)  PROVE Lineage'
  BY <1>11, LineageStays DEF issueRefreshToken, store, history
<1>12. ASSUME NEW q \in Requests, storeToken(q)  PROVE Lineage'
  BY <1>12, LineageStays DEF storeToken, store, history
<1>13. ASSUME NEW q \in Requests, Deliver(q)  PROVE Lineage'
  <2>1. Formed(request[q]) /\ request[q].pc = "answer"
    BY <1>13, StepsGoOn DEF Requested
  <2>2. held' \subseteq Minted /\ held \subseteq held' /\ UNCHANGED <<pair, answered, revoked>>
    BY <1>13, <2>1 DEF Formed, Deliver, Lineage, store, history
  <2> QED BY <2>2 DEF Lineage, Minted, Family
<1>14. ASSUME NEW q \in Requests, revokeFamily(q)  PROVE Lineage'
  <2>1. Formed(request[q]) /\ request[q].pc = "flag"
    BY <1>14, StepsGoOn DEF Requested
  <2>2. request[q].token \in held /\ pair[request[q].token].family = request[q].family
    BY <2>1 DEF Formed
  <2>3. Family(request[q].family) # {}
    BY <2>2 DEF Lineage, Family
  <2>4. revoked' = revoked \cup {request[q].family} /\ UNCHANGED <<pair, held, answered>>
    BY <1>14 DEF revokeFamily, history
  <2> QED BY <2>3, <2>4 DEF Lineage, Minted, Family
<1>15. ASSUME NEW q \in Requests, revokeTokenFamily(q)  PROVE Lineage'
  BY <1>15, LineageStays DEF revokeTokenFamily, store, history
<1>16. ASSUME NEW q \in Requests, DeleteRows(q)  PROVE Lineage'
  BY <1>16, LineageStays DEF DeleteRows, store, history
<1>17. ASSUME NEW q \in Requests, DenyOne(q)  PROVE Lineage'
  BY <1>17, LineageStays DEF DenyOne, store, history
<1>18. ASSUME NEW q \in Requests, FamilyDone(q)  PROVE Lineage'
  <2>1. Formed(request[q]) /\ request[q].pc = "denyAll"
    BY <1>18, FamilyDoneMoves DEF Requested
  <2>2. answered' = answered \/ answered' = answered \cup {request[q].token}
    BY <1>18 DEF FamilyDone, Finish, history
  <2>3. answered' # answered => request[q].kind # "code"
    BY <1>18 DEF FamilyDone, Finish, history
  <2>4. answered' \subseteq held
    BY <2>1, <2>2, <2>3 DEF Formed, Lineage
  <2>5. UNCHANGED <<pair, held, revoked>>
    BY <1>18 DEF FamilyDone, store
  <2> QED BY <2>4, <2>5 DEF Lineage, Minted, Family
<1>19. ASSUME NEW q \in Requests, revokeStoredAccessToken(q)  PROVE Lineage'
  BY <1>19, LineageStays DEF revokeStoredAccessToken, store, history
<1>20. ASSUME NEW q \in Requests, DenyOwn(q)  PROVE Lineage'
  <2>1. Formed(request[q]) /\ request[q].pc = "denyOwn"
    BY <1>20, StepsGoOn DEF Requested
  <2>2. request[q].token \in held
    BY <2>1 DEF Formed
  <2>3. answered' \subseteq held /\ UNCHANGED <<pair, held, revoked>>
    BY <1>20, <2>2 DEF DenyOwn, Finish, Lineage
  <2> QED BY <2>3 DEF Lineage, Minted, Family
<1>21. ASSUME NEW q \in Requests, Stops(q)  PROVE Lineage'
  BY <1>21, LineageStays DEF Stops, store, history
<1>22. ASSUME NEW k \in Codes, storeAuthorizationCode(k)  PROVE Lineage'
  BY <1>22, LineageStays DEF storeAuthorizationCode, store, history
<1>23. ASSUME RevokeUser  PROVE Lineage'
  BY <1>23, LineageStays DEF RevokeUser, store, history
<1>24. ASSUME UNCHANGED vars  PROVE Lineage'
  BY <1>24, LineageStays DEF vars, store, history
<1> QED BY <1>1, <1>2, <1>3, <1>4, <1>5, <1>6, <1>7, <1>8, <1>9, <1>10, <1>11, <1>12, <1>13, <1>14, <1>15, <1>16,
           <1>17, <1>18, <1>19, <1>20, <1>21, <1>22, <1>23, <1>24 DEF Next, Begin, Grant, Kill

LEMMA NewPairsStay ==
  ASSUME NewPairs, NEW q \in Requests, Moved(q), UNCHANGED <<pair, refreshes>>,
         Making(request'[q]) => Making(request[q]) /\ request'[q].next = request[q].next,
         request'[q].pc \in {"deny", "issue"} => request[q].pc \in {"deny", "issue"}
  PROVE  NewPairs'
<1>1. \A p \in Pairs \ Minted' : refreshes'[p] = "none"
  BY DEF NewPairs, Minted
<1>2. \A x, y \in Requests :
        x # y /\ Making(request'[x]) /\ Making(request'[y]) => request'[x].next # request'[y].next
  BY DEF NewPairs, Moved
<1>3. \A x \in Requests : request'[x].pc \in {"deny", "issue"} => refreshes'[request'[x].next] = "none"
  BY DEF NewPairs, Moved, Making
<1> QED BY <1>1, <1>2, <1>3 DEF NewPairs, Making

\* A refresh token is issued once, for the pair of one request.
LEMMA NewPairsKept ==
  ASSUME TypeOK, Requested, Lineage, NewPairs, [Next]_vars
  PROVE  NewPairs'
<1>1. ASSUME NEW q \in Requests, NEW k \in Codes, consumeAuthorizationCode(q, k)  PROVE NewPairs'
  <2>1. UNCHANGED <<pair, refreshes>>
    BY <1>1 DEF consumeAuthorizationCode, store
  <2>2. Moved(q)
    BY <1>1, CodeMoves DEF Fresh
  <2>3. request'[q].pc \in {"deny", "issue", "store", "answer"} =>
          request[q].pc \in {"deny", "issue", "store", "answer"} /\ request'[q].next = request[q].next
    BY <1>1, CodeMoves, IdleTyped DEF Fresh
  <2>4. request'[q].pc \in {"deny", "issue"} => request[q].pc \in {"deny", "issue"}
    BY <1>1, CodeMoves, IdleTyped DEF Fresh
  <2> QED BY <2>1, <2>2, <2>3, <2>4, NewPairsStay DEF Making
<1>2. ASSUME NEW q \in Requests, NEW p \in Pairs, Refresh(q, p)  PROVE NewPairs'
  <2>1. UNCHANGED <<pair, refreshes>>
    BY <1>2 DEF Refresh, store
  <2>2. Moved(q)
    BY <1>2, RefreshMoves DEF Fresh
  <2>3. request'[q].pc \in {"deny", "issue", "store", "answer"} =>
          request[q].pc \in {"deny", "issue", "store", "answer"} /\ request'[q].next = request[q].next
    BY <1>2, RefreshMoves, IdleTyped DEF Fresh
  <2>4. request'[q].pc \in {"deny", "issue"} => request[q].pc \in {"deny", "issue"}
    BY <1>2, RefreshMoves, IdleTyped DEF Fresh
  <2> QED BY <2>1, <2>2, <2>3, <2>4, NewPairsStay DEF Making
<1>3. ASSUME NEW q \in Requests, NEW p \in Pairs, RevokeRefresh(q, p)  PROVE NewPairs'
  <2>1. UNCHANGED <<pair, refreshes>>
    BY <1>3 DEF RevokeRefresh, store
  <2>2. CASE rows[p] = None
    <3>1. UNCHANGED request
      BY <1>3, <2>2, RevokeRefreshMoves
    <3> QED BY <2>1, <3>1 DEF NewPairs, Minted, Making
  <2>3. CASE rows[p] # None
    <3>1. Moved(q) /\ request'[q].pc = "flag"
      BY <1>3, <2>3, RevokeRefreshMoves DEF Fresh
    <3> QED BY <2>1, <3>1, NewPairsStay DEF Making
  <2> QED BY <2>2, <2>3
<1>4. ASSUME NEW q \in Requests, NEW p \in Pairs, RevokeAccess(q, p)  PROVE NewPairs'
  <2>1. UNCHANGED <<pair, refreshes>>
    BY <1>4 DEF RevokeAccess, store
  <2>2. Moved(q)
    BY <1>4, RevokeAccessMoves DEF Fresh
  <2>3. request'[q].pc \in {"deny", "issue", "store", "answer"} =>
          request[q].pc \in {"deny", "issue", "store", "answer"} /\ request'[q].next = request[q].next
    BY <1>4, RevokeAccessMoves, IdleTyped DEF Fresh
  <2>4. request'[q].pc \in {"deny", "issue"} => request[q].pc \in {"deny", "issue"}
    BY <1>4, RevokeAccessMoves, IdleTyped DEF Fresh
  <2> QED BY <2>1, <2>2, <2>3, <2>4, NewPairsStay DEF Making
<1>5. ASSUME NEW q \in Requests, checkGrantLive(q)  PROVE NewPairs'
  <2>1. UNCHANGED <<pair, refreshes>>
    BY <1>5 DEF checkGrantLive, store
  <2>2. Moved(q)
    BY <1>5, LiveMoves DEF GoesOn, Keeps, Flags, IsOver
  <2>3. request'[q].pc \in {"deny", "issue", "store", "answer"} =>
          request[q].pc \in {"deny", "issue", "store", "answer"} /\ request'[q].next = request[q].next
    BY <1>5, LiveMoves, IdleTyped DEF GoesOn, Keeps, Flags, IsOver
  <2>4. request'[q].pc \in {"deny", "issue"} => request[q].pc \in {"deny", "issue"}
    BY <1>5, LiveMoves, IdleTyped DEF GoesOn, Keeps, Flags, IsOver
  <2> QED BY <2>1, <2>2, <2>3, <2>4, NewPairsStay DEF Making
<1>6. ASSUME NEW q \in Requests, consumeToken(q)  PROVE NewPairs'
  <2>1. UNCHANGED <<pair, refreshes>>
    BY <1>6 DEF consumeToken, store
  <2>2. Moved(q)
    BY <1>6, FindMoves DEF GoesOn, Keeps, Flags
  <2>3. request'[q].pc \in {"deny", "issue", "store", "answer"} =>
          request[q].pc \in {"deny", "issue", "store", "answer"} /\ request'[q].next = request[q].next
    BY <1>6, FindMoves, IdleTyped DEF GoesOn, Keeps, Flags
  <2>4. request'[q].pc \in {"deny", "issue"} => request[q].pc \in {"deny", "issue"}
    BY <1>6, FindMoves, IdleTyped DEF GoesOn, Keeps, Flags
  <2> QED BY <2>1, <2>2, <2>3, <2>4, NewPairsStay DEF Making
<1>7. ASSUME NEW q \in Requests, Claim(q)  PROVE NewPairs'
  <2> DEFINE p == request[q].token
  <2>1. Moved(q) /\ request[q].pc = "claim" /\ ~Making(request'[q]) /\ Formed(request[q])
    BY <1>7, ClaimMoves, IdleTyped DEF GoesOn, Keeps, Flags, IsOver, Making, Requested
  <2>2. UNCHANGED pair
    BY <1>7 DEF Claim
  <2>3. CASE UNCHANGED refreshes
    BY <2>1, <2>2, <2>3, NewPairsStay DEF Making
  <2>4. CASE refreshes[p] = "unused" /\ refreshes' = [refreshes EXCEPT ![p] = "used"]
    <3>1. p \in Minted
      BY <2>1 DEF Formed, Request, Kinds, Lineage
    <3>2. \A x \in Pairs \ {p} : refreshes'[x] = refreshes[x]
      BY <2>4 DEF TypeOK
    <3>3. \A x \in Pairs \ Minted' : refreshes'[x] = "none"
      BY <2>2, <3>1, <3>2 DEF NewPairs, Minted
    <3>4. \A x \in Requests : request'[x].pc \in {"deny", "issue"} =>
             x # q /\ request[x].pc \in {"deny", "issue"} /\ request'[x].next = request[x].next
      BY <2>1 DEF Moved, Making
    <3>5. \A x \in Requests : request'[x].pc \in {"deny", "issue"} => refreshes'[request'[x].next] = "none"
      BY <2>4, <3>2, <3>4 DEF NewPairs, TypeOK, Requested, Formed, Minted
    <3>6. \A x, y \in Requests :
            x # y /\ Making(request'[x]) /\ Making(request'[y]) => request'[x].next # request'[y].next
      BY <2>1 DEF NewPairs, Moved
    <3> QED BY <3>3, <3>5, <3>6 DEF NewPairs, Making
  <2> QED BY <1>7, <2>3, <2>4, ClaimMoves
<1>8. ASSUME NEW q \in Requests, Refuse(q)  PROVE NewPairs'
  <2>1. UNCHANGED <<pair, refreshes>>
    BY <1>8 DEF Refuse, store
  <2>2. Moved(q)
    BY <1>8, RefuseMoves DEF IsOver
  <2>3. request'[q].pc \in {"deny", "issue", "store", "answer"} =>
          request[q].pc \in {"deny", "issue", "store", "answer"} /\ request'[q].next = request[q].next
    BY <1>8, RefuseMoves, IdleTyped DEF IsOver
  <2>4. request'[q].pc \in {"deny", "issue"} => request[q].pc \in {"deny", "issue"}
    BY <1>8, RefuseMoves, IdleTyped DEF IsOver
  <2> QED BY <2>1, <2>2, <2>3, <2>4, NewPairsStay DEF Making
<1>9. ASSUME NEW q \in Requests, NEW n \in Pairs, Mint(q, n)  PROVE NewPairs'
  <2>1. /\ Moved(q) /\ request'[q].next = n /\ n \notin Minted /\ n \in Minted' /\ Minted \subseteq Minted'
        /\ UNCHANGED refreshes
    BY <1>9, MintMoves, MintedIsReal DEF Keeps, Mint, Minted, TypeOK
  <2>2. \A x \in Requests \ {q} : Making(request'[x]) => request'[x].next \in Minted /\ request'[x].next # n
    BY <2>1 DEF Moved, Making, Requested, Formed
  <2>3. \A x, y \in Requests :
          x # y /\ Making(request'[x]) /\ Making(request'[y]) => request'[x].next # request'[y].next
    BY <2>1, <2>2 DEF NewPairs, Moved
  <2>4. \A x \in Requests : request'[x].pc \in {"deny", "issue"} => refreshes'[request'[x].next] = "none"
    BY <2>1 DEF NewPairs, Moved
  <2>5. \A x \in Pairs \ Minted' : refreshes'[x] = "none"
    BY <2>1 DEF NewPairs
  <2> QED BY <2>3, <2>4, <2>5 DEF NewPairs, Making
<1>10. ASSUME NEW q \in Requests, denylistJti(q)  PROVE NewPairs'
  <2>1. UNCHANGED <<pair, refreshes>>
    BY <1>10 DEF denylistJti, store
  <2>2. Moved(q)
    BY <1>10, StepsGoOn DEF GoesOn, Keeps
  <2>3. request'[q].pc \in {"deny", "issue", "store", "answer"} =>
          request[q].pc \in {"deny", "issue", "store", "answer"} /\ request'[q].next = request[q].next
    BY <1>10, StepsGoOn, IdleTyped DEF GoesOn, Keeps
  <2>4. request'[q].pc \in {"deny", "issue"} => request[q].pc \in {"deny", "issue"}
    BY <1>10, StepsGoOn, IdleTyped DEF GoesOn, Keeps
  <2> QED BY <2>1, <2>2, <2>3, <2>4, NewPairsStay DEF Making
<1>11. ASSUME NEW q \in Requests, issueRefreshToken(q)  PROVE NewPairs'
  <2> DEFINE n == request[q].next
  <2>1. /\ Moved(q) /\ request[q].pc = "issue" /\ request'[q].pc = "store" /\ request'[q].next = n
        /\ UNCHANGED pair /\ refreshes' = [refreshes EXCEPT ![n] = "unused"]
    BY <1>11, StepsGoOn DEF GoesOn, Keeps, issueRefreshToken
  <2>2. n \in Minted
    BY <2>1 DEF Requested, Formed
  <2>3. \A x \in Pairs \ {n} : refreshes'[x] = refreshes[x]
    BY <2>1 DEF TypeOK
  <2>4. \A x, y \in Requests :
          x # y /\ Making(request'[x]) /\ Making(request'[y]) => request'[x].next # request'[y].next
    BY <2>1 DEF NewPairs, Moved, Making
  <2>5. ASSUME NEW x \in Requests, request'[x].pc \in {"deny", "issue"}  PROVE refreshes'[request'[x].next] = "none"
    <3>1. x # q /\ request'[x] = request[x]
      BY <2>1, <2>5 DEF Moved
    <3>2. request[x].next # n /\ request[x].next \in Pairs /\ refreshes[request[x].next] = "none"
      BY <2>1, <2>5, <3>1 DEF NewPairs, Making, Requested, Formed, Minted
    <3> QED BY <2>3, <3>1, <3>2
  <2>6. \A x \in Pairs \ Minted' : refreshes'[x] = "none"
    BY <2>1, <2>2, <2>3 DEF NewPairs, Minted
  <2> QED BY <2>4, <2>5, <2>6 DEF NewPairs, Making
<1>12. ASSUME NEW q \in Requests, storeToken(q)  PROVE NewPairs'
  <2>1. UNCHANGED <<pair, refreshes>>
    BY <1>12 DEF storeToken, store
  <2>2. Moved(q)
    BY <1>12, StepsGoOn DEF GoesOn, Keeps
  <2>3. request'[q].pc \in {"deny", "issue", "store", "answer"} =>
          request[q].pc \in {"deny", "issue", "store", "answer"} /\ request'[q].next = request[q].next
    BY <1>12, StepsGoOn, IdleTyped DEF GoesOn, Keeps
  <2>4. request'[q].pc \in {"deny", "issue"} => request[q].pc \in {"deny", "issue"}
    BY <1>12, StepsGoOn, IdleTyped DEF GoesOn, Keeps
  <2> QED BY <2>1, <2>2, <2>3, <2>4, NewPairsStay DEF Making
<1>13. ASSUME NEW q \in Requests, Deliver(q)  PROVE NewPairs'
  <2>1. UNCHANGED <<pair, refreshes>>
    BY <1>13 DEF Deliver, store
  <2>2. Moved(q)
    BY <1>13, StepsGoOn DEF IsOver
  <2>3. request'[q].pc \in {"deny", "issue", "store", "answer"} =>
          request[q].pc \in {"deny", "issue", "store", "answer"} /\ request'[q].next = request[q].next
    BY <1>13, StepsGoOn, IdleTyped DEF IsOver
  <2>4. request'[q].pc \in {"deny", "issue"} => request[q].pc \in {"deny", "issue"}
    BY <1>13, StepsGoOn, IdleTyped DEF IsOver
  <2> QED BY <2>1, <2>2, <2>3, <2>4, NewPairsStay DEF Making
<1>14. ASSUME NEW q \in Requests, revokeFamily(q)  PROVE NewPairs'
  <2>1. UNCHANGED <<pair, refreshes>>
    BY <1>14 DEF revokeFamily, store
  <2>2. Moved(q)
    BY <1>14, StepsGoOn DEF GoesOn, Keeps
  <2>3. request'[q].pc \in {"deny", "issue", "store", "answer"} =>
          request[q].pc \in {"deny", "issue", "store", "answer"} /\ request'[q].next = request[q].next
    BY <1>14, StepsGoOn, IdleTyped DEF GoesOn, Keeps
  <2>4. request'[q].pc \in {"deny", "issue"} => request[q].pc \in {"deny", "issue"}
    BY <1>14, StepsGoOn, IdleTyped DEF GoesOn, Keeps
  <2> QED BY <2>1, <2>2, <2>3, <2>4, NewPairsStay DEF Making
<1>15. ASSUME NEW q \in Requests, revokeTokenFamily(q)  PROVE NewPairs'
  <2>1. UNCHANGED <<pair, refreshes>>
    BY <1>15 DEF revokeTokenFamily, store
  <2>2. Moved(q)
    BY <1>15, ListMoves DEF Keeps
  <2>3. request'[q].pc \in {"deny", "issue", "store", "answer"} =>
          request[q].pc \in {"deny", "issue", "store", "answer"} /\ request'[q].next = request[q].next
    BY <1>15, ListMoves, IdleTyped DEF Keeps
  <2>4. request'[q].pc \in {"deny", "issue"} => request[q].pc \in {"deny", "issue"}
    BY <1>15, ListMoves, IdleTyped DEF Keeps
  <2> QED BY <2>1, <2>2, <2>3, <2>4, NewPairsStay DEF Making
<1>16. ASSUME NEW q \in Requests, DeleteRows(q)  PROVE NewPairs'
  <2>1. UNCHANGED <<pair, refreshes>>
    BY <1>16 DEF DeleteRows, store
  <2>2. Moved(q)
    BY <1>16, StepsGoOn DEF GoesOn, Keeps
  <2>3. request'[q].pc \in {"deny", "issue", "store", "answer"} =>
          request[q].pc \in {"deny", "issue", "store", "answer"} /\ request'[q].next = request[q].next
    BY <1>16, StepsGoOn, IdleTyped DEF GoesOn, Keeps
  <2>4. request'[q].pc \in {"deny", "issue"} => request[q].pc \in {"deny", "issue"}
    BY <1>16, StepsGoOn, IdleTyped DEF GoesOn, Keeps
  <2> QED BY <2>1, <2>2, <2>3, <2>4, NewPairsStay DEF Making
<1>17. ASSUME NEW q \in Requests, DenyOne(q)  PROVE NewPairs'
  <2>1. UNCHANGED <<pair, refreshes>>
    BY <1>17 DEF DenyOne, store
  <2>2. Moved(q)
    BY <1>17, DenyOneMoves DEF Keeps
  <2>3. request'[q].pc \in {"deny", "issue", "store", "answer"} =>
          request[q].pc \in {"deny", "issue", "store", "answer"} /\ request'[q].next = request[q].next
    BY <1>17, DenyOneMoves, IdleTyped DEF Keeps
  <2>4. request'[q].pc \in {"deny", "issue"} => request[q].pc \in {"deny", "issue"}
    BY <1>17, DenyOneMoves, IdleTyped DEF Keeps
  <2> QED BY <2>1, <2>2, <2>3, <2>4, NewPairsStay DEF Making
<1>18. ASSUME NEW q \in Requests, FamilyDone(q)  PROVE NewPairs'
  <2>1. UNCHANGED <<pair, refreshes>>
    BY <1>18 DEF FamilyDone, Finish, store
  <2>2. Moved(q)
    BY <1>18, FamilyDoneMoves DEF GoesOn, Keeps, IsOver
  <2>3. request'[q].pc \in {"deny", "issue", "store", "answer"} =>
          request[q].pc \in {"deny", "issue", "store", "answer"} /\ request'[q].next = request[q].next
    BY <1>18, FamilyDoneMoves, IdleTyped DEF GoesOn, Keeps, IsOver
  <2>4. request'[q].pc \in {"deny", "issue"} => request[q].pc \in {"deny", "issue"}
    BY <1>18, FamilyDoneMoves, IdleTyped DEF GoesOn, Keeps, IsOver
  <2> QED BY <2>1, <2>2, <2>3, <2>4, NewPairsStay DEF Making
<1>19. ASSUME NEW q \in Requests, revokeStoredAccessToken(q)  PROVE NewPairs'
  <2>1. UNCHANGED <<pair, refreshes>>
    BY <1>19 DEF revokeStoredAccessToken, store
  <2>2. Moved(q)
    BY <1>19, StepsGoOn DEF GoesOn, Keeps
  <2>3. request'[q].pc \in {"deny", "issue", "store", "answer"} =>
          request[q].pc \in {"deny", "issue", "store", "answer"} /\ request'[q].next = request[q].next
    BY <1>19, StepsGoOn, IdleTyped DEF GoesOn, Keeps
  <2>4. request'[q].pc \in {"deny", "issue"} => request[q].pc \in {"deny", "issue"}
    BY <1>19, StepsGoOn, IdleTyped DEF GoesOn, Keeps
  <2> QED BY <2>1, <2>2, <2>3, <2>4, NewPairsStay DEF Making
<1>20. ASSUME NEW q \in Requests, DenyOwn(q)  PROVE NewPairs'
  <2>1. UNCHANGED <<pair, refreshes>>
    BY <1>20 DEF DenyOwn, Finish, store
  <2>2. Moved(q)
    BY <1>20, StepsGoOn DEF IsOver
  <2>3. request'[q].pc \in {"deny", "issue", "store", "answer"} =>
          request[q].pc \in {"deny", "issue", "store", "answer"} /\ request'[q].next = request[q].next
    BY <1>20, StepsGoOn, IdleTyped DEF IsOver
  <2>4. request'[q].pc \in {"deny", "issue"} => request[q].pc \in {"deny", "issue"}
    BY <1>20, StepsGoOn, IdleTyped DEF IsOver
  <2> QED BY <2>1, <2>2, <2>3, <2>4, NewPairsStay DEF Making
<1>21. ASSUME NEW q \in Requests, Stops(q)  PROVE NewPairs'
  <2>1. UNCHANGED <<pair, refreshes>>
    BY <1>21 DEF Stops, store
  <2>2. Moved(q)
    BY <1>21, StepsGoOn DEF IsOver
  <2>3. request'[q].pc \in {"deny", "issue", "store", "answer"} =>
          request[q].pc \in {"deny", "issue", "store", "answer"} /\ request'[q].next = request[q].next
    BY <1>21, StepsGoOn, IdleTyped DEF IsOver
  <2>4. request'[q].pc \in {"deny", "issue"} => request[q].pc \in {"deny", "issue"}
    BY <1>21, StepsGoOn, IdleTyped DEF IsOver
  <2> QED BY <2>1, <2>2, <2>3, <2>4, NewPairsStay DEF Making
<1>22. ASSUME NEW k \in Codes, storeAuthorizationCode(k)  PROVE NewPairs'
  <2>1. UNCHANGED <<request, pair, refreshes>>
    BY <1>22 DEF storeAuthorizationCode, store, history
  <2> QED BY <2>1 DEF NewPairs, Minted, Making
<1>23. ASSUME RevokeUser  PROVE NewPairs'
  <2>1. UNCHANGED <<request, pair, refreshes>>
    BY <1>23 DEF RevokeUser, store, history
  <2> QED BY <2>1 DEF NewPairs, Minted, Making
<1>24. ASSUME UNCHANGED vars  PROVE NewPairs'
  <2>1. UNCHANGED <<request, pair, refreshes>>
    BY <1>24 DEF vars, store, history
  <2> QED BY <2>1 DEF NewPairs, Minted, Making
<1> QED BY <1>1, <1>2, <1>3, <1>4, <1>5, <1>6, <1>7, <1>8, <1>9, <1>10, <1>11, <1>12, <1>13, <1>14, <1>15, <1>16,
           <1>17, <1>18, <1>19, <1>20, <1>21, <1>22, <1>23, <1>24 DEF Next, Begin, Grant, Kill


--------------------------------------------------------------------------------
(* A code or a refresh token is taken once. *)

\* The request does not come to mint from anything it did not already take.
TakesNoMore(q) ==
  /\ request'[q].kind = "code" /\ request'[q].pc \in {"live", "mint"} =>
       request[q].kind = "code" /\ request[q].pc \in {"live", "mint"} /\ request'[q].family = request[q].family
  /\ request'[q].kind = "refresh" /\ request'[q].pc = "mint" =>
       request[q].kind = "refresh" /\ request[q].pc = "mint" /\ request'[q].token = request[q].token

LEMMA SoleStays ==
  ASSUME Sole, Grows, Requested, Lineage, TypeOK, NEW q \in Requests, Moved(q), TakesNoMore(q), UNCHANGED pair
  PROVE  Sole'
<1>1. \A x \in Requests : \A y : Takes(request'[x], y) => Takes(request[x], y)
  BY DEF Moved, TakesNoMore, Takes
<1>2. Minted' = Minted
  BY DEF Minted
<1>3. \A x \in Requests, y \in Codes \cup Pairs : Takes(request'[x], y) => Taken(y)' /\ \A p \in Minted' : pair'[p].parent # y
  BY <1>1, <1>2 DEF Sole, Grows
<1>4. \A x, y \in Requests, z \in Codes \cup Pairs : Takes(request'[x], z) /\ Takes(request'[y], z) => x = y
  BY <1>1 DEF Sole
<1>5. \A p \in Minted' : pair'[p].parent \in Codes \cup Pairs /\ pair'[p].family \in Codes
  BY <1>2 DEF TypeOK, Minted, Pair
<1>6. \A p \in Minted' : Taken(pair[p].parent)' /\ Taken(pair[p].family)'
  BY <1>2, <1>5 DEF Sole, Grows
<1>7. \A f : Family(f)' = Family(f)
  BY <1>2 DEF Family
<1>8. \A x \in Requests : request'[x].kind = "code" /\ request'[x].pc \in {"live", "mint"} => Family(request[x].family)' = {}
  BY <1>7 DEF Sole, Moved, TakesNoMore
<1>9. NoFork'
  BY <1>2 DEF Sole, NoFork
<1> HIDE DEF Takes, Taken
<1> QED BY <1>3, <1>4, <1>6, <1>8, <1>9 DEF Sole, Takes

LEMMA SoleIdle ==
  ASSUME Sole, Grows, TypeOK, UNCHANGED <<request, pair>>
  PROVE  Sole'
<1>1. Minted' = Minted
  BY DEF Minted
<1>2. \A p \in Minted' : pair'[p].parent \in Codes \cup Pairs /\ pair'[p].family \in Codes
  BY <1>1 DEF TypeOK, Minted, Pair
<1>3. \A x : x \in Codes \cup Pairs /\ Taken(x) => Taken(x)'
  BY DEF Grows
<1>4. \A f : Family(f)' = Family(f)
  BY <1>1 DEF Family
<1>5. NoFork'
  BY <1>1 DEF Sole, NoFork
<1>6. \A x \in Requests, y \in Codes \cup Pairs : Takes(request'[x], y) => Taken(y)' /\ \A p \in Minted' : pair'[p].parent # y
  BY <1>1, <1>3 DEF Sole
<1>7. \A p \in Minted' : Taken(pair[p].parent)' /\ Taken(pair[p].family)'
  BY <1>1, <1>2, <1>3 DEF Sole
<1> QED BY <1>4, <1>5, <1>6, <1>7 DEF Sole, Takes

\* Whoever takes a code or a refresh token is alone in it, and mints once.
LEMMA SoleKept ==
  ASSUME TypeOK, Requested, Lineage, Grows, Sole, [Next]_vars
  PROVE  Sole'
<1>1. ASSUME NEW q \in Requests, NEW k \in Codes, consumeAuthorizationCode(q, k)  PROVE Sole'
  <2>1. /\ Moved(q) /\ request'[q].kind = "code" /\ request'[q].pc = "live" /\ request'[q].family = k
        /\ UNCHANGED pair
    BY <1>1, CodeMoves DEF Fresh, consumeAuthorizationCode
  <2>2. codes[k].state = "issued" /\ codes'[k].state = "spent"
    BY <1>1 DEF consumeAuthorizationCode, TypeOK, Code
  <2>3. ~Taken(k) /\ Taken(k)'
    BY <2>2, NoneAssumption DEF Taken
  <2>4. \A x \in Codes \cup Pairs : Takes(request'[q], x) <=> x = k
    BY <2>1 DEF Takes
  <2>5. \A x \in Requests \ {q} : request'[x] = request[x] /\ ~Takes(request[x], k)
    BY <2>1, <2>3 DEF Sole, Moved
  <2>6. Minted' = Minted /\ (\A p \in Minted : pair[p].parent # k) /\ Family(k) = {}
    BY <2>1, <2>3 DEF Sole, Minted, Family
  <2>7. \A f : Family(f)' = Family(f)
    BY <2>1, <2>6 DEF Family
  <2>8. \A x \in Codes \cup Pairs : Taken(x) => Taken(x)'
    BY DEF Grows
  <2>9. \A x \in Requests, y \in Codes \cup Pairs : Takes(request'[x], y) => Taken(y)' /\ \A p \in Minted' : pair'[p].parent # y
    BY <2>1, <2>3, <2>4, <2>5, <2>6, <2>8 DEF Sole
  <2>10. \A x, y \in Requests, z \in Codes \cup Pairs : Takes(request'[x], z) /\ Takes(request'[y], z) => x = y
    BY <2>4, <2>5 DEF Sole
  <2>11. \A x \in Requests : request'[x].kind = "code" /\ request'[x].pc \in {"live", "mint"} => Family(request[x].family)' = {}
    BY <2>1, <2>5, <2>6, <2>7 DEF Sole
  <2>12. \A p \in Minted' : Taken(pair[p].parent)' /\ Taken(pair[p].family)'
    BY <2>1, <2>6, <2>8 DEF Sole, TypeOK, Minted, Pair
  <2>13. NoFork'
    BY <2>1, <2>6 DEF Sole, NoFork
  <2> QED BY <2>9, <2>10, <2>11, <2>12, <2>13 DEF Sole, Takes
<1>2. ASSUME NEW q \in Requests, NEW p \in Pairs, Refresh(q, p)  PROVE Sole'
  <2>1. UNCHANGED pair
    BY <1>2 DEF Refresh, store
  <2>2. Moved(q)
    BY <1>2, RefreshMoves DEF Fresh
  <2>3. TakesNoMore(q)
    BY <1>2, RefreshMoves, IdleTyped DEF TakesNoMore, Fresh
  <2> QED BY <2>1, <2>2, <2>3, SoleStays
<1>3. ASSUME NEW q \in Requests, NEW p \in Pairs, RevokeRefresh(q, p)  PROVE Sole'
  <2>1. UNCHANGED pair
    BY <1>3 DEF RevokeRefresh
  <2>2. CASE rows[p] = None
    BY <1>3, <2>1, <2>2, RevokeRefreshMoves, SoleIdle
  <2>3. CASE rows[p] # None
    <3>1. Moved(q) /\ TakesNoMore(q)
      BY <1>3, <2>3, RevokeRefreshMoves DEF Fresh, TakesNoMore
    <3> QED BY <2>1, <3>1, SoleStays
  <2> QED BY <2>2, <2>3
<1>4. ASSUME NEW q \in Requests, NEW p \in Pairs, RevokeAccess(q, p)  PROVE Sole'
  <2>1. UNCHANGED pair
    BY <1>4 DEF RevokeAccess, store
  <2>2. Moved(q)
    BY <1>4, RevokeAccessMoves DEF Fresh
  <2>3. TakesNoMore(q)
    BY <1>4, RevokeAccessMoves, IdleTyped DEF TakesNoMore, Fresh
  <2> QED BY <2>1, <2>2, <2>3, SoleStays
<1>5. ASSUME NEW q \in Requests, checkGrantLive(q)  PROVE Sole'
  <2>1. UNCHANGED pair
    BY <1>5 DEF checkGrantLive, store
  <2>2. Moved(q)
    BY <1>5, LiveMoves DEF GoesOn, Keeps, Flags, IsOver
  <2>3. TakesNoMore(q)
    BY <1>5, LiveMoves, IdleTyped DEF TakesNoMore, GoesOn, Keeps, Flags, IsOver
  <2> QED BY <2>1, <2>2, <2>3, SoleStays
<1>6. ASSUME NEW q \in Requests, consumeToken(q)  PROVE Sole'
  <2>1. UNCHANGED pair
    BY <1>6 DEF consumeToken, store
  <2>2. Moved(q)
    BY <1>6, FindMoves DEF GoesOn, Keeps, Flags
  <2>3. TakesNoMore(q)
    BY <1>6, FindMoves, IdleTyped DEF TakesNoMore, GoesOn, Keeps, Flags
  <2> QED BY <2>1, <2>2, <2>3, SoleStays
<1>7. ASSUME NEW q \in Requests, Claim(q)  PROVE Sole'
  <2> PICK p : p = request[q].token
    OBVIOUS
  <2>1. request[q].pc = "claim" /\ Formed(request[q]) /\ UNCHANGED pair
    BY <1>7, ClaimMoves DEF Requested, Claim
  <2>2. CASE Flags(q) \/ IsOver(q)
    <3>1. Moved(q) /\ TakesNoMore(q)
      BY <2>2, IdleTyped DEF Flags, Keeps, IsOver, TakesNoMore
    <3> QED BY <2>1, <3>1, SoleStays
  <2>3. CASE GoesOn(q, "mint") /\ refreshes[p] = "unused" /\ refreshes' = [refreshes EXCEPT ![p] = "used"]
    <3>1. request[q].kind = "refresh" /\ p \in Pairs
      BY <2>1 DEF Formed, Request, Kinds, TypeOK
    <3>2. ~Taken(p) /\ Taken(p)'
      BY <2>3, <3>1, NoneAssumption DEF Taken, TypeOK
    <3>3. \A x \in Codes \cup Pairs : Takes(request'[q], x) <=> x = p
      BY <2>3, <3>1 DEF Takes, GoesOn, Keeps
    <3>4. \A x \in Requests \ {q} : request'[x] = request[x] /\ ~Takes(request[x], p)
      BY <2>3, <3>1, <3>2 DEF Sole, Moved, GoesOn, Keeps
    <3>5. Minted' = Minted /\ (\A r \in Minted : pair[r].parent # p)
      BY <2>1, <3>2 DEF Sole, Minted
    <3>6. \A f : Family(f)' = Family(f)
      BY <2>1, <3>5 DEF Family
    <3>7. \A x \in Codes \cup Pairs : Taken(x) => Taken(x)'
      BY DEF Grows
    <3>8. \A x \in Requests, y \in Codes \cup Pairs : Takes(request'[x], y) => Taken(y)' /\ \A r \in Minted' : pair'[r].parent # y
      BY <2>1, <3>2, <3>3, <3>4, <3>5, <3>7 DEF Sole
    <3>9. \A x, y \in Requests, z \in Codes \cup Pairs : Takes(request'[x], z) /\ Takes(request'[y], z) => x = y
      BY <3>3, <3>4 DEF Sole
    <3>10. request'[q].kind = "refresh"
      BY <2>3, <3>1 DEF GoesOn, Keeps
    <3>11. \A x \in Requests : request'[x].kind = "code" /\ request'[x].pc \in {"live", "mint"} => Family(request[x].family)' = {}
      BY <3>4, <3>6, <3>10 DEF Sole
    <3>12. \A r \in Minted' : Taken(pair[r].parent)' /\ Taken(pair[r].family)'
      BY <2>1, <3>5, <3>7 DEF Sole, TypeOK, Minted, Pair
    <3>13. NoFork'
      BY <2>1, <3>5 DEF Sole, NoFork
    <3> QED BY <3>8, <3>9, <3>11, <3>12, <3>13 DEF Sole, Takes
  <2> QED BY <1>7, <2>2, <2>3, ClaimMoves
<1>8. ASSUME NEW q \in Requests, Refuse(q)  PROVE Sole'
  <2>1. UNCHANGED pair
    BY <1>8 DEF Refuse, store
  <2>2. Moved(q)
    BY <1>8, RefuseMoves DEF IsOver
  <2>3. TakesNoMore(q)
    BY <1>8, RefuseMoves, IdleTyped DEF TakesNoMore, IsOver
  <2> QED BY <2>1, <2>2, <2>3, SoleStays
<1>9. ASSUME NEW q \in Requests, NEW n \in Pairs, Mint(q, n)  PROVE Sole'
  <2> PICK y, f : y = Parent(q) /\ f = request[q].family
    OBVIOUS
  <2>1. /\ Keeps(q) /\ request[q].pc = "mint" /\ request'[q].pc \in {"deny", "issue"} /\ n \notin Minted
        /\ Formed(request[q])
    BY <1>9, MintMoves DEF Mint, Requested
  <2>2. /\ request[q].kind \in {"code", "refresh"} /\ request[q].family \in Codes /\ n \in Minted'
        /\ pair' = [pair EXCEPT ![n] = [family |-> request[q].family, parent |-> y]]
    BY <1>9, MintedIsReal
  <2>3. y \in Codes \cup Pairs /\ Takes(request[q], y)
    BY <2>1, <2>2 DEF Parent, Takes, Formed, TypeOK
  <2>4. /\ pair'[n].family = request[q].family /\ pair'[n].parent = y
        /\ \A p \in Pairs \ {n} : pair'[p] = pair[p]
    BY <2>2 DEF TypeOK
  <2>5. Minted' = Minted \cup {n}
    BY <2>2, <2>4 DEF Minted
  <2>6. Taken(y) /\ \A p \in Minted : pair[p].parent # y
    BY <2>3 DEF Sole
  <2>7. Taken(f) /\ f \in Codes
    <3>1. CASE request[q].kind = "code"
      BY <2>2, <2>6, <3>1 DEF Parent
    <3>2. CASE request[q].kind = "refresh"
      <4>1. request[q].token \in Minted /\ pair[request[q].token].family = request[q].family
        BY <2>1, <2>2, <3>2, NoneAssumption DEF Formed, Lineage
      <4> QED BY <2>2, <4>1 DEF Sole
    <3> QED BY <2>2, <3>1, <3>2
  <2>8. \A x \in Codes \cup Pairs : ~Takes(request'[q], x)
    BY <2>1 DEF Takes
  <2>9. \A x \in Requests \ {q} : request'[x] = request[x] /\ ~Takes(request[x], y)
    BY <2>1, <2>3 DEF Sole, Keeps, Moved
  <2>10. \A x \in Codes \cup Pairs : Taken(x) => Taken(x)'
    BY DEF Grows
  <2>11. \A x \in Requests, z \in Codes \cup Pairs : Takes(request'[x], z) => Taken(z)' /\ \A p \in Minted' : pair'[p].parent # z
    <3> SUFFICES ASSUME NEW x \in Requests, NEW z \in Codes \cup Pairs, Takes(request'[x], z)
                 PROVE  Taken(z)' /\ \A p \in Minted' : pair'[p].parent # z
      OBVIOUS
    <3>1. x # q /\ Takes(request[x], z) /\ z # y
      BY <2>8, <2>9
    <3>2. Taken(z)' /\ \A p \in Minted : pair[p].parent # z
      BY <2>10, <3>1 DEF Sole
    <3> QED BY <2>1, <2>4, <2>5, <3>1, <3>2 DEF Minted
  <2>12. \A x, z \in Requests, w \in Codes \cup Pairs : Takes(request'[x], w) /\ Takes(request'[z], w) => x = z
    BY <2>8, <2>9 DEF Sole
  <2>13. \A x \in Requests : request'[x].kind = "code" /\ request'[x].pc \in {"live", "mint"} => Family(request[x].family)' = {}
    <3> SUFFICES ASSUME NEW x \in Requests, request'[x].kind = "code", request'[x].pc \in {"live", "mint"}
                 PROVE  Family(request[x].family)' = {}
      OBVIOUS
    <3>1. x # q /\ request'[x] = request[x] /\ Formed(request[x])
      BY <2>1, <2>9 DEF Requested
    <3>2. request[x].family \in Codes /\ Takes(request[x], request[x].family) /\ Family(request[x].family) = {}
      BY <3>1 DEF Takes, Formed, Request, Sole
    <3>3. request[x].family # request[q].family
      <4>1. CASE request[q].kind = "code"
        BY <2>9, <3>1, <3>2, <4>1 DEF Parent
      <4>2. CASE request[q].kind = "refresh"
        <5>1. request[q].token \in Minted /\ pair[request[q].token].family = request[q].family
          BY <2>1, <2>2, <4>2, NoneAssumption DEF Formed, Lineage
        <5> QED BY <3>2, <5>1 DEF Family
      <4> QED BY <2>2, <4>1, <4>2
    <3> QED BY <2>1, <2>2, <2>4, <2>5, <3>1, <3>2, <3>3 DEF Family, Minted
  <2>14. \A p \in Minted' : Taken(pair[p].parent)' /\ Taken(pair[p].family)'
    <3>1. Taken(y)' /\ Taken(f)'
      BY <2>2, <2>3, <2>6, <2>7, <2>10
    <3>2. ASSUME NEW p \in Minted, p # n  PROVE Taken(pair[p].parent)' /\ Taken(pair[p].family)'
      <4> PICK u, v : u = pair[p].parent /\ v = pair[p].family
        OBVIOUS
      <4>1. u \in Codes \cup Pairs /\ v \in Codes
        BY DEF TypeOK, Minted, Pair
      <4>2. Taken(u)' /\ Taken(v)'
        BY <2>10, <4>1 DEF Sole
      <4>3. pair'[p] = pair[p]
        BY <2>4, <3>2 DEF Minted
      <4> QED BY <4>2, <4>3 DEF Taken
    <3>3. Taken(pair[n].parent)' /\ Taken(pair[n].family)'
      BY <2>4, <3>1 DEF Taken
    <3> QED BY <2>1, <2>5, <3>2, <3>3
  <2>15. NoFork'
    BY <2>1, <2>4, <2>5, <2>6 DEF Sole, NoFork, Minted
  <2> QED BY <2>11, <2>12, <2>13, <2>14, <2>15 DEF Sole, Takes
<1>10. ASSUME NEW q \in Requests, denylistJti(q)  PROVE Sole'
  <2>1. UNCHANGED pair
    BY <1>10 DEF denylistJti, store
  <2>2. Moved(q)
    BY <1>10, StepsGoOn DEF GoesOn, Keeps
  <2>3. TakesNoMore(q)
    BY <1>10, StepsGoOn, IdleTyped DEF TakesNoMore, GoesOn, Keeps
  <2> QED BY <2>1, <2>2, <2>3, SoleStays
<1>11. ASSUME NEW q \in Requests, issueRefreshToken(q)  PROVE Sole'
  <2>1. UNCHANGED pair
    BY <1>11 DEF issueRefreshToken, store
  <2>2. Moved(q)
    BY <1>11, StepsGoOn DEF GoesOn, Keeps
  <2>3. TakesNoMore(q)
    BY <1>11, StepsGoOn, IdleTyped DEF TakesNoMore, GoesOn, Keeps
  <2> QED BY <2>1, <2>2, <2>3, SoleStays
<1>12. ASSUME NEW q \in Requests, storeToken(q)  PROVE Sole'
  <2>1. UNCHANGED pair
    BY <1>12 DEF storeToken, store
  <2>2. Moved(q)
    BY <1>12, StepsGoOn DEF GoesOn, Keeps
  <2>3. TakesNoMore(q)
    BY <1>12, StepsGoOn, IdleTyped DEF TakesNoMore, GoesOn, Keeps
  <2> QED BY <2>1, <2>2, <2>3, SoleStays
<1>13. ASSUME NEW q \in Requests, Deliver(q)  PROVE Sole'
  <2>1. UNCHANGED pair
    BY <1>13 DEF Deliver, store
  <2>2. Moved(q)
    BY <1>13, StepsGoOn DEF IsOver
  <2>3. TakesNoMore(q)
    BY <1>13, StepsGoOn, IdleTyped DEF TakesNoMore, IsOver
  <2> QED BY <2>1, <2>2, <2>3, SoleStays
<1>14. ASSUME NEW q \in Requests, revokeFamily(q)  PROVE Sole'
  <2>1. UNCHANGED pair
    BY <1>14 DEF revokeFamily, store
  <2>2. Moved(q)
    BY <1>14, StepsGoOn DEF GoesOn, Keeps
  <2>3. TakesNoMore(q)
    BY <1>14, StepsGoOn, IdleTyped DEF TakesNoMore, GoesOn, Keeps
  <2> QED BY <2>1, <2>2, <2>3, SoleStays
<1>15. ASSUME NEW q \in Requests, revokeTokenFamily(q)  PROVE Sole'
  <2>1. UNCHANGED pair
    BY <1>15 DEF revokeTokenFamily, store
  <2>2. Moved(q)
    BY <1>15, ListMoves DEF Keeps
  <2>3. TakesNoMore(q)
    BY <1>15, ListMoves, IdleTyped DEF TakesNoMore, Keeps
  <2> QED BY <2>1, <2>2, <2>3, SoleStays
<1>16. ASSUME NEW q \in Requests, DeleteRows(q)  PROVE Sole'
  <2>1. UNCHANGED pair
    BY <1>16 DEF DeleteRows, store
  <2>2. Moved(q)
    BY <1>16, StepsGoOn DEF GoesOn, Keeps
  <2>3. TakesNoMore(q)
    BY <1>16, StepsGoOn, IdleTyped DEF TakesNoMore, GoesOn, Keeps
  <2> QED BY <2>1, <2>2, <2>3, SoleStays
<1>17. ASSUME NEW q \in Requests, DenyOne(q)  PROVE Sole'
  <2>1. UNCHANGED pair
    BY <1>17 DEF DenyOne, store
  <2>2. Moved(q)
    BY <1>17, DenyOneMoves DEF Keeps
  <2>3. TakesNoMore(q)
    BY <1>17, DenyOneMoves, IdleTyped DEF TakesNoMore, Keeps
  <2> QED BY <2>1, <2>2, <2>3, SoleStays
<1>18. ASSUME NEW q \in Requests, FamilyDone(q)  PROVE Sole'
  <2>1. UNCHANGED pair
    BY <1>18 DEF FamilyDone, Finish, store
  <2>2. Moved(q)
    BY <1>18, FamilyDoneMoves DEF GoesOn, Keeps, IsOver
  <2>3. TakesNoMore(q)
    BY <1>18, FamilyDoneMoves, IdleTyped DEF TakesNoMore, GoesOn, Keeps, IsOver
  <2> QED BY <2>1, <2>2, <2>3, SoleStays
<1>19. ASSUME NEW q \in Requests, revokeStoredAccessToken(q)  PROVE Sole'
  <2>1. UNCHANGED pair
    BY <1>19 DEF revokeStoredAccessToken, store
  <2>2. Moved(q)
    BY <1>19, StepsGoOn DEF GoesOn, Keeps
  <2>3. TakesNoMore(q)
    BY <1>19, StepsGoOn, IdleTyped DEF TakesNoMore, GoesOn, Keeps
  <2> QED BY <2>1, <2>2, <2>3, SoleStays
<1>20. ASSUME NEW q \in Requests, DenyOwn(q)  PROVE Sole'
  <2>1. UNCHANGED pair
    BY <1>20 DEF DenyOwn, Finish, store
  <2>2. Moved(q)
    BY <1>20, StepsGoOn DEF IsOver
  <2>3. TakesNoMore(q)
    BY <1>20, StepsGoOn, IdleTyped DEF TakesNoMore, IsOver
  <2> QED BY <2>1, <2>2, <2>3, SoleStays
<1>21. ASSUME NEW q \in Requests, Stops(q)  PROVE Sole'
  <2>1. UNCHANGED pair
    BY <1>21 DEF Stops, store
  <2>2. Moved(q)
    BY <1>21, StepsGoOn DEF IsOver
  <2>3. TakesNoMore(q)
    BY <1>21, StepsGoOn, IdleTyped DEF TakesNoMore, IsOver
  <2> QED BY <2>1, <2>2, <2>3, SoleStays
<1>22. ASSUME NEW k \in Codes, storeAuthorizationCode(k)  PROVE Sole'
  <2>1. UNCHANGED <<request, pair>>
    BY <1>22 DEF storeAuthorizationCode, store, history
  <2> QED BY <2>1, SoleIdle
<1>23. ASSUME RevokeUser  PROVE Sole'
  <2>1. UNCHANGED <<request, pair>>
    BY <1>23 DEF RevokeUser, store, history
  <2> QED BY <2>1, SoleIdle
<1>24. ASSUME UNCHANGED vars  PROVE Sole'
  <2>1. UNCHANGED <<request, pair>>
    BY <1>24 DEF vars, store, history
  <2> QED BY <2>1, SoleIdle
<1> QED BY <1>1, <1>2, <1>3, <1>4, <1>5, <1>6, <1>7, <1>8, <1>9, <1>10, <1>11, <1>12, <1>13, <1>14, <1>15, <1>16,
           <1>17, <1>18, <1>19, <1>20, <1>21, <1>22, <1>23, <1>24 DEF Next, Begin, Grant, Kill


--------------------------------------------------------------------------------
(* A request that is barred is refused. *)

LEMMA MustEndStays ==
  ASSUME NEW r, MustEnd(r), Formed(r), Grows, TypeOK
  PROVE  MustEnd(r)'
<1>1. CASE r.pc = "live" /\ r.created < epoch
  <2>1. r.created \in Nat /\ epoch \in Nat /\ epoch' \in Nat
    BY <1>1, BoundAssumption DEF Formed, Request, Epochs, TypeOK, Grows
  <2> QED BY <1>1, <2>1 DEF MustEnd, Grows
<1>2. CASE r.pc \in {"live", "find", "claim"} /\ r.kind = "refresh" /\ refreshes[r.token] = "used"
  <2>1. r.token \in Pairs /\ r.token \notin Codes
    BY <1>2, NoneAssumption DEF Formed, TypeOK
  <2>2. Taken(r.token)'
    BY <1>2, <2>1 DEF Grows, Taken
  <2>3. refreshes'[r.token] = "used"
    BY <2>1, <2>2 DEF Taken
  <2> QED BY <1>2, <2>3 DEF MustEnd
<1>3. CASE r.pc = "live" /\ r.token \in denied
  BY <1>3 DEF MustEnd, Grows
<1>4. CASE r.pc \in {"live", "find"} /\ r.kind = "refresh" /\ r.family \in revoked
  BY <1>4 DEF MustEnd, Grows
<1>5. CASE r.pc \in {"find", "claim"} /\ r.created = None
  BY <1>5 DEF MustEnd
<1> QED BY <1>1, <1>2, <1>3, <1>4, <1>5 DEF MustEnd

LEMMA BarsStay ==
  ASSUME Bars, Grows, TypeOK, Requested, NEW q \in Requests, Moved(q), UNCHANGED barred,
         request'[q].bar => MustEnd(request[q])'
  PROVE  Bars'
<1> SUFFICES ASSUME NEW x \in Requests, x # q, request'[x].bar  PROVE MustEnd(request[x])'
  BY DEF Bars
<1> PICK r : r = request[x]
  OBVIOUS
<1>1. request'[x] = r /\ MustEnd(r) /\ Formed(r)
  BY DEF Moved, Bars, Requested
<1>2. MustEnd(r)'
  BY <1>1, MustEndStays
<1> QED BY <1>1, <1>2 DEF MustEnd

LEMMA BarsIdle ==
  ASSUME Bars, Grows, TypeOK, Requested, UNCHANGED <<request, barred>>
  PROVE  Bars'
<1> SUFFICES ASSUME NEW x \in Requests, request[x].bar  PROVE MustEnd(request[x])'
  BY DEF Bars
<1> PICK r : r = request[x]
  OBVIOUS
<1>1. MustEnd(r) /\ Formed(r)
  BY DEF Bars, Requested
<1>2. MustEnd(r)'
  BY <1>1, MustEndStays
<1> QED BY <1>2 DEF MustEnd

\* What bars a request keeps until the check that notices it.
LEMMA BarsKept ==
  ASSUME TypeOK, Requested, Lineage, Grows, Bars, [Next]_vars
  PROVE  Bars'
<1>1. ASSUME NEW q \in Requests, NEW k \in Codes, consumeAuthorizationCode(q, k)  PROVE Bars'
  <2>1. Moved(q) /\ UNCHANGED <<barred, epoch>> /\ request'[q].pc = "live"
        /\ (request'[q].bar => request'[q].created < epoch)
    BY <1>1, CodeMoves DEF Fresh, consumeAuthorizationCode, history
  <2>2. request'[q].bar => MustEnd(request[q])'
    BY <2>1 DEF MustEnd
  <2> QED BY <2>1, <2>2, BarsStay
<1>2. ASSUME NEW q \in Requests, NEW p \in Pairs, Refresh(q, p)  PROVE Bars'
  <2>1. /\ Moved(q) /\ UNCHANGED <<barred, epoch, revoked, denied, refreshes>>
        /\ request'[q].kind = "refresh" /\ request'[q].family = pair[p].family /\ request'[q].token = p
        /\ request'[q].created = rows[p] /\ request'[q].pc = IF rows[p] = None THEN "find" ELSE "live"
        /\ (request'[q].bar => Bar(p))
    BY <1>2, RefreshMoves DEF Fresh, Refresh, history, store
  <2>2. request'[q].bar => MustEnd(request[q])'
    BY <2>1 DEF MustEnd, Bar
  <2> QED BY <2>1, <2>2, BarsStay
<1>3. ASSUME NEW q \in Requests, NEW p \in Pairs, RevokeRefresh(q, p)  PROVE Bars'
  <2>1. UNCHANGED barred
    BY <1>3 DEF RevokeRefresh
  <2>2. CASE rows[p] = None
    BY <1>3, <2>1, <2>2, RevokeRefreshMoves, BarsIdle
  <2>3. CASE rows[p] # None
    <3>1. Moved(q) /\ ~request'[q].bar
      BY <1>3, <2>3, RevokeRefreshMoves DEF Fresh
    <3> QED BY <2>1, <3>1, BarsStay
  <2> QED BY <2>2, <2>3
<1>4. ASSUME NEW q \in Requests, NEW p \in Pairs, RevokeAccess(q, p)  PROVE Bars'
  <2>1. UNCHANGED barred
    BY <1>4 DEF RevokeAccess, history
  <2>2. Moved(q)
    BY <1>4, RevokeAccessMoves DEF Fresh
  <2>3. ~request'[q].bar
    BY <1>4, RevokeAccessMoves, IdleTyped DEF Fresh, Bars, MustEnd
  <2> QED BY <2>1, <2>2, <2>3, BarsStay
<1>5. ASSUME NEW q \in Requests, checkGrantLive(q)  PROVE Bars'
  <2>1. UNCHANGED <<barred, denied, epoch, revoked, refreshes>> /\ request[q].pc = "live" /\ Formed(request[q])
    BY <1>5, LiveMoves DEF checkGrantLive, history, store, Requested
  <2>2. CASE Flags(q) \/ IsOver(q)
    BY <2>1, <2>2, BarsStay, IdleTyped DEF Flags, Keeps, IsOver
  <2>3. CASE GrantLive(q) /\ request[q].kind = "code" /\ GoesOn(q, "mint")
    <3>1. ~request[q].bar
      BY <2>1, <2>3 DEF Bars, MustEnd, GrantLive
    <3> QED BY <2>1, <2>3, <3>1, BarsStay DEF GoesOn, Keeps
  <2>4. CASE GrantLive(q) /\ request[q].kind # "code" /\ GoesOn(q, "find")
    <3>1. request[q].bar => request[q].kind = "refresh" /\ (request[q].family \in revoked \/ refreshes[request[q].token] = "used")
      BY <2>1, <2>4 DEF Bars, MustEnd, GrantLive
    <3>2. request'[q].bar => MustEnd(request[q])'
      BY <2>1, <2>4, <3>1 DEF MustEnd, GoesOn, Keeps
    <3> QED BY <2>1, <2>4, <3>2, BarsStay DEF GoesOn, Keeps
  <2> QED BY <1>5, <2>2, <2>3, <2>4, LiveMoves
<1>6. ASSUME NEW q \in Requests, consumeToken(q)  PROVE Bars'
  <2>1. UNCHANGED <<barred, denied, epoch, revoked, refreshes>> /\ request[q].pc = "find"
    BY <1>6, FindMoves DEF consumeToken, history, store
  <2>2. CASE Flags(q)
    BY <2>1, <2>2, BarsStay DEF Flags, Keeps
  <2>3. CASE request[q].family \notin revoked /\ refreshes[request[q].token] = "unused" /\ GoesOn(q, "claim")
    <3>1. request[q].bar => request[q].created = None
      BY <2>1, <2>3 DEF Bars, MustEnd
    <3>2. request'[q].bar => MustEnd(request[q])'
      BY <2>3, <3>1 DEF MustEnd, GoesOn, Keeps
    <3> QED BY <2>1, <2>3, <3>2, BarsStay DEF GoesOn, Keeps
  <2> QED BY <1>6, <2>2, <2>3, FindMoves
<1>7. ASSUME NEW q \in Requests, Claim(q)  PROVE Bars'
  <2>1. UNCHANGED barred /\ request[q].pc = "claim"
    BY <1>7, ClaimMoves DEF Claim, history
  <2>2. CASE Flags(q) \/ IsOver(q)
    BY <2>1, <2>2, BarsStay, IdleTyped DEF Flags, Keeps, IsOver
  <2>3. CASE refreshes[request[q].token] = "unused" /\ request[q].created # None /\ GoesOn(q, "mint")
    <3>1. ~request[q].bar
      BY <2>1, <2>3 DEF Bars, MustEnd
    <3> QED BY <2>1, <2>3, <3>1, BarsStay DEF GoesOn, Keeps
  <2> QED BY <1>7, <2>2, <2>3, ClaimMoves
<1>8. ASSUME NEW q \in Requests, Refuse(q)  PROVE Bars'
  <2>1. UNCHANGED barred
    BY <1>8 DEF Refuse, history
  <2>2. Moved(q)
    BY <1>8, RefuseMoves DEF IsOver
  <2>3. ~request'[q].bar
    BY <1>8, RefuseMoves, IdleTyped DEF IsOver, Bars, MustEnd
  <2> QED BY <2>1, <2>2, <2>3, BarsStay
<1>9. ASSUME NEW q \in Requests, NEW n \in Pairs, Mint(q, n)  PROVE Bars'
  <2>1. request[q].pc = "mint" /\ Keeps(q) /\ request'[q].bar = FALSE
    BY <1>9, MintMoves
  <2>2. ~request[q].bar
    BY <2>1 DEF Bars, MustEnd
  <2>3. UNCHANGED barred
    BY <1>9, <2>2 DEF Mint
  <2> QED BY <2>1, <2>3, BarsStay DEF Keeps
<1>10. ASSUME NEW q \in Requests, denylistJti(q)  PROVE Bars'
  <2>1. UNCHANGED barred
    BY <1>10 DEF denylistJti, history
  <2>2. Moved(q)
    BY <1>10, StepsGoOn DEF GoesOn, Keeps
  <2>3. ~request'[q].bar
    BY <1>10, StepsGoOn, IdleTyped DEF GoesOn, Keeps, Bars, MustEnd
  <2> QED BY <2>1, <2>2, <2>3, BarsStay
<1>11. ASSUME NEW q \in Requests, issueRefreshToken(q)  PROVE Bars'
  <2>1. UNCHANGED barred
    BY <1>11 DEF issueRefreshToken, history
  <2>2. Moved(q)
    BY <1>11, StepsGoOn DEF GoesOn, Keeps
  <2>3. ~request'[q].bar
    BY <1>11, StepsGoOn, IdleTyped DEF GoesOn, Keeps, Bars, MustEnd
  <2> QED BY <2>1, <2>2, <2>3, BarsStay
<1>12. ASSUME NEW q \in Requests, storeToken(q)  PROVE Bars'
  <2>1. UNCHANGED barred
    BY <1>12 DEF storeToken, history
  <2>2. Moved(q)
    BY <1>12, StepsGoOn DEF GoesOn, Keeps
  <2>3. ~request'[q].bar
    BY <1>12, StepsGoOn, IdleTyped DEF GoesOn, Keeps, Bars, MustEnd
  <2> QED BY <2>1, <2>2, <2>3, BarsStay
<1>13. ASSUME NEW q \in Requests, Deliver(q)  PROVE Bars'
  <2>1. UNCHANGED barred
    BY <1>13 DEF Deliver, history
  <2>2. Moved(q)
    BY <1>13, StepsGoOn DEF IsOver
  <2>3. ~request'[q].bar
    BY <1>13, StepsGoOn, IdleTyped DEF IsOver, Bars, MustEnd
  <2> QED BY <2>1, <2>2, <2>3, BarsStay
<1>14. ASSUME NEW q \in Requests, revokeFamily(q)  PROVE Bars'
  <2>1. UNCHANGED barred
    BY <1>14 DEF revokeFamily, history
  <2>2. Moved(q)
    BY <1>14, StepsGoOn DEF GoesOn, Keeps
  <2>3. ~request'[q].bar
    BY <1>14, StepsGoOn, IdleTyped DEF GoesOn, Keeps, Bars, MustEnd
  <2> QED BY <2>1, <2>2, <2>3, BarsStay
<1>15. ASSUME NEW q \in Requests, revokeTokenFamily(q)  PROVE Bars'
  <2>1. UNCHANGED barred
    BY <1>15 DEF revokeTokenFamily, history
  <2>2. Moved(q)
    BY <1>15, ListMoves DEF Keeps
  <2>3. ~request'[q].bar
    BY <1>15, ListMoves, IdleTyped DEF Keeps, Bars, MustEnd
  <2> QED BY <2>1, <2>2, <2>3, BarsStay
<1>16. ASSUME NEW q \in Requests, DeleteRows(q)  PROVE Bars'
  <2>1. UNCHANGED barred
    BY <1>16 DEF DeleteRows, history
  <2>2. Moved(q)
    BY <1>16, StepsGoOn DEF GoesOn, Keeps
  <2>3. ~request'[q].bar
    BY <1>16, StepsGoOn, IdleTyped DEF GoesOn, Keeps, Bars, MustEnd
  <2> QED BY <2>1, <2>2, <2>3, BarsStay
<1>17. ASSUME NEW q \in Requests, DenyOne(q)  PROVE Bars'
  <2>1. UNCHANGED barred
    BY <1>17 DEF DenyOne, history
  <2>2. Moved(q)
    BY <1>17, DenyOneMoves DEF Keeps
  <2>3. ~request'[q].bar
    BY <1>17, DenyOneMoves, IdleTyped DEF Keeps, Bars, MustEnd
  <2> QED BY <2>1, <2>2, <2>3, BarsStay
<1>18. ASSUME NEW q \in Requests, FamilyDone(q)  PROVE Bars'
  <2>1. UNCHANGED barred
    BY <1>18 DEF FamilyDone, Finish, history
  <2>2. Moved(q)
    BY <1>18, FamilyDoneMoves DEF GoesOn, Keeps, IsOver
  <2>3. ~request'[q].bar
    BY <1>18, FamilyDoneMoves, IdleTyped DEF GoesOn, Keeps, IsOver, Bars, MustEnd
  <2> QED BY <2>1, <2>2, <2>3, BarsStay
<1>19. ASSUME NEW q \in Requests, revokeStoredAccessToken(q)  PROVE Bars'
  <2>1. UNCHANGED barred
    BY <1>19 DEF revokeStoredAccessToken, history
  <2>2. Moved(q)
    BY <1>19, StepsGoOn DEF GoesOn, Keeps
  <2>3. ~request'[q].bar
    BY <1>19, StepsGoOn, IdleTyped DEF GoesOn, Keeps, Bars, MustEnd
  <2> QED BY <2>1, <2>2, <2>3, BarsStay
<1>20. ASSUME NEW q \in Requests, DenyOwn(q)  PROVE Bars'
  <2>1. UNCHANGED barred
    BY <1>20 DEF DenyOwn, Finish, history
  <2>2. Moved(q)
    BY <1>20, StepsGoOn DEF IsOver
  <2>3. ~request'[q].bar
    BY <1>20, StepsGoOn, IdleTyped DEF IsOver, Bars, MustEnd
  <2> QED BY <2>1, <2>2, <2>3, BarsStay
<1>21. ASSUME NEW q \in Requests, Stops(q)  PROVE Bars'
  <2>1. UNCHANGED barred
    BY <1>21 DEF Stops, history
  <2>2. Moved(q)
    BY <1>21, StepsGoOn DEF IsOver
  <2>3. ~request'[q].bar
    BY <1>21, StepsGoOn, IdleTyped DEF IsOver, Bars, MustEnd
  <2> QED BY <2>1, <2>2, <2>3, BarsStay
<1>22. ASSUME NEW k \in Codes, storeAuthorizationCode(k)  PROVE Bars'
  <2>1. UNCHANGED <<request, barred>>
    BY <1>22 DEF storeAuthorizationCode, history
  <2> QED BY <2>1, BarsIdle
<1>23. ASSUME RevokeUser  PROVE Bars'
  <2>1. UNCHANGED <<request, barred>>
    BY <1>23 DEF RevokeUser, history
  <2> QED BY <2>1, BarsIdle
<1>24. ASSUME UNCHANGED vars  PROVE Bars'
  <2>1. UNCHANGED <<request, barred>>
    BY <1>24 DEF vars, history
  <2> QED BY <2>1, BarsIdle
<1> QED BY <1>1, <1>2, <1>3, <1>4, <1>5, <1>6, <1>7, <1>8, <1>9, <1>10, <1>11, <1>12, <1>13, <1>14, <1>15, <1>16,
           <1>17, <1>18, <1>19, <1>20, <1>21, <1>22, <1>23, <1>24 DEF Next, Begin, Grant, Kill


--------------------------------------------------------------------------------
(* What a request owes the denylist, it pays or is known to have lost. *)

DebtsStand == \A q \in Requests, p \in Minted : Owes(q, p) => Owes(q, p)' \/ p \in denied' \/ Lost(pair[p].family)'

LEMMA DebtsOf ==
  ASSUME NEW q \in Requests, Moved(q),
         \A p \in Minted : Owes(q, p) => Owes(q, p)' \/ p \in denied' \/ Lost(pair[p].family)'
  PROVE  DebtsStand
<1> SUFFICES ASSUME NEW x \in Requests, NEW p \in Minted, Owes(x, p), x # q
             PROVE  Owes(x, p)'
  BY DEF DebtsStand
<1>1. request'[x] = request[x]
  BY DEF Moved
<1> QED BY <1>1 DEF Owes

LEMMA NoDebts ==
  ASSUME Requested, NEW q \in Requests, request[q].pc \notin {"deny", "denyOwn", "delete", "denyAll"}
  PROVE  \A p : ~Owes(q, p)
<1>1. Formed(request[q])
  BY DEF Requested
<1> QED BY <1>1 DEF Formed, Owes

LEMMA SettledStays ==
  ASSUME Grows, DebtsStand, NEW p \in Minted, Settled(p)
  PROVE  Settled(p)'
<1>1. pair'[p] = pair[p]
  BY DEF Grows
<1>2. CASE p \in denied
  BY <1>2 DEF Grows, Settled
<1>3. CASE Lost(pair[p].family)
  <2>1. \A f : Lost(f) => Lost(f)'
    BY DEF Lost, Grows
  <2>2. Lost(pair[p].family)'
    BY <1>1, <1>3, <2>1 DEF Lost
  <2> QED BY <2>2 DEF Settled
<1>4. CASE Owed(p)
  BY <1>4 DEF DebtsStand, Owed, Settled
<1> QED BY <1>2, <1>3, <1>4 DEF Settled

\* A jti that is owed is denied, still owed, or lost with the request that stopped.
LEMMA DebtsKept ==
  ASSUME TypeOK, Requested, Lineage, Grows, [Next]_vars
  PROVE  DebtsStand
<1>1. ASSUME NEW q \in Requests, NEW k \in Codes, consumeAuthorizationCode(q, k)  PROVE DebtsStand
  <2>1. Moved(q) /\ request[q].pc \notin {"deny", "denyOwn", "delete", "denyAll"}
    BY <1>1, CodeMoves DEF Fresh
  <2> QED BY <2>1, NoDebts, DebtsOf
<1>2. ASSUME NEW q \in Requests, NEW p \in Pairs, Refresh(q, p)  PROVE DebtsStand
  <2>1. Moved(q) /\ request[q].pc \notin {"deny", "denyOwn", "delete", "denyAll"}
    BY <1>2, RefreshMoves DEF Fresh
  <2> QED BY <2>1, NoDebts, DebtsOf
<1>3. ASSUME NEW q \in Requests, NEW p \in Pairs, RevokeRefresh(q, p)  PROVE DebtsStand
  <2>1. CASE rows[p] = None
    <3>1. UNCHANGED request
      BY <1>3, <2>1, RevokeRefreshMoves
    <3> QED BY <3>1 DEF DebtsStand, Owes
  <2>2. CASE rows[p] # None
    <3>1. Moved(q) /\ request[q].pc = "idle"
      BY <1>3, <2>2, RevokeRefreshMoves DEF Fresh
    <3> QED BY <3>1, NoDebts, DebtsOf
  <2> QED BY <2>1, <2>2
<1>4. ASSUME NEW q \in Requests, NEW p \in Pairs, RevokeAccess(q, p)  PROVE DebtsStand
  <2>1. Moved(q) /\ request[q].pc \notin {"deny", "denyOwn", "delete", "denyAll"}
    BY <1>4, RevokeAccessMoves DEF Fresh
  <2> QED BY <2>1, NoDebts, DebtsOf
<1>5. ASSUME NEW q \in Requests, checkGrantLive(q)  PROVE DebtsStand
  <2>1. Moved(q) /\ request[q].pc \notin {"deny", "denyOwn", "delete", "denyAll"}
    BY <1>5, LiveMoves DEF GoesOn, Keeps, Flags, IsOver
  <2> QED BY <2>1, NoDebts, DebtsOf
<1>6. ASSUME NEW q \in Requests, consumeToken(q)  PROVE DebtsStand
  <2>1. Moved(q) /\ request[q].pc \notin {"deny", "denyOwn", "delete", "denyAll"}
    BY <1>6, FindMoves DEF GoesOn, Keeps, Flags
  <2> QED BY <2>1, NoDebts, DebtsOf
<1>7. ASSUME NEW q \in Requests, Claim(q)  PROVE DebtsStand
  <2>1. Moved(q) /\ request[q].pc \notin {"deny", "denyOwn", "delete", "denyAll"}
    BY <1>7, ClaimMoves DEF GoesOn, Keeps, Flags, IsOver
  <2> QED BY <2>1, NoDebts, DebtsOf
<1>8. ASSUME NEW q \in Requests, Refuse(q)  PROVE DebtsStand
  <2>1. Moved(q) /\ request[q].pc \notin {"deny", "denyOwn", "delete", "denyAll"}
    BY <1>8, RefuseMoves DEF IsOver
  <2> QED BY <2>1, NoDebts, DebtsOf
<1>9. ASSUME NEW q \in Requests, NEW n \in Pairs, Mint(q, n)  PROVE DebtsStand
  <2>1. Moved(q) /\ request[q].pc \notin {"deny", "denyOwn", "delete", "denyAll"}
    BY <1>9, MintMoves DEF Keeps
  <2> QED BY <2>1, NoDebts, DebtsOf
<1>10. ASSUME NEW q \in Requests, denylistJti(q)  PROVE DebtsStand
  <2>1. Moved(q) /\ request[q].pc = "deny" /\ Formed(request[q]) /\ denied' = denied \cup {request[q].token}
    BY <1>10, StepsGoOn DEF GoesOn, Keeps, Requested, denylistJti, OldJti
  <2>2. \A p \in Minted : Owes(q, p) => p \in denied'
    BY <2>1 DEF Owes, Formed
  <2> QED BY <2>1, <2>2, DebtsOf
<1>11. ASSUME NEW q \in Requests, issueRefreshToken(q)  PROVE DebtsStand
  <2>1. Moved(q) /\ request[q].pc \notin {"deny", "denyOwn", "delete", "denyAll"}
    BY <1>11, StepsGoOn DEF GoesOn, Keeps
  <2> QED BY <2>1, NoDebts, DebtsOf
<1>12. ASSUME NEW q \in Requests, storeToken(q)  PROVE DebtsStand
  <2>1. Moved(q) /\ request[q].pc \notin {"deny", "denyOwn", "delete", "denyAll"}
    BY <1>12, StepsGoOn DEF GoesOn, Keeps
  <2> QED BY <2>1, NoDebts, DebtsOf
<1>13. ASSUME NEW q \in Requests, Deliver(q)  PROVE DebtsStand
  <2>1. Moved(q) /\ request[q].pc \notin {"deny", "denyOwn", "delete", "denyAll"}
    BY <1>13, StepsGoOn DEF IsOver
  <2> QED BY <2>1, NoDebts, DebtsOf
<1>14. ASSUME NEW q \in Requests, revokeFamily(q)  PROVE DebtsStand
  <2>1. Moved(q) /\ request[q].pc \notin {"deny", "denyOwn", "delete", "denyAll"}
    BY <1>14, StepsGoOn DEF GoesOn, Keeps
  <2> QED BY <2>1, NoDebts, DebtsOf
<1>15. ASSUME NEW q \in Requests, revokeTokenFamily(q)  PROVE DebtsStand
  <2>1. Moved(q) /\ request[q].pc \notin {"deny", "denyOwn", "delete", "denyAll"}
    BY <1>15, ListMoves DEF Keeps
  <2> QED BY <2>1, NoDebts, DebtsOf
<1>16. ASSUME NEW q \in Requests, DeleteRows(q)  PROVE DebtsStand
  <2>1. /\ Moved(q) /\ request[q].pc = "delete" /\ request'[q].todo = request[q].todo
    BY <1>16, StepsGoOn DEF GoesOn, Keeps
  <2>2. \A p \in Minted : Owes(q, p) => Owes(q, p)'
    BY <2>1 DEF Owes
  <2> QED BY <2>1, <2>2, DebtsOf
<1>17. ASSUME NEW q \in Requests, DenyOne(q)  PROVE DebtsStand
  <2>1. PICK r \in request[q].todo : denied' = denied \cup {r} /\ request'[q].todo = request[q].todo \ {r}
    BY <1>17, DenyOneMoves
  <2>2. Moved(q) /\ request[q].pc = "denyAll"
    BY <1>17, DenyOneMoves DEF Keeps
  <2>3. \A p \in Minted : Owes(q, p) => Owes(q, p)' \/ p \in denied'
    BY <2>1, <2>2 DEF Owes
  <2> QED BY <2>2, <2>3, DebtsOf
<1>18. ASSUME NEW q \in Requests, FamilyDone(q)  PROVE DebtsStand
  <2>1. Moved(q) /\ request[q].pc = "denyAll" /\ request[q].todo = {}
    BY <1>18, FamilyDoneMoves DEF GoesOn, Keeps, IsOver
  <2>2. \A p : ~Owes(q, p)
    BY <2>1 DEF Owes
  <2> QED BY <2>1, <2>2, DebtsOf
<1>19. ASSUME NEW q \in Requests, revokeStoredAccessToken(q)  PROVE DebtsStand
  <2>1. Moved(q) /\ request[q].pc \notin {"deny", "denyOwn", "delete", "denyAll"}
    BY <1>19, StepsGoOn DEF GoesOn, Keeps
  <2> QED BY <2>1, NoDebts, DebtsOf
<1>20. ASSUME NEW q \in Requests, DenyOwn(q)  PROVE DebtsStand
  <2>1. Moved(q) /\ request[q].pc = "denyOwn" /\ Formed(request[q]) /\ denied' = denied \cup {request[q].token}
    BY <1>20, StepsGoOn DEF IsOver, Requested, DenyOwn, OldJti
  <2>2. \A p \in Minted : Owes(q, p) => p \in denied'
    BY <2>1 DEF Owes, Formed
  <2> QED BY <2>1, <2>2, DebtsOf
<1>21. ASSUME NEW q \in Requests, Stops(q)  PROVE DebtsStand
  <2>1. Moved(q)
    BY <1>21, StepsGoOn DEF IsOver
  <2>2. ASSUME NEW p \in Minted, Owes(q, p)  PROVE Lost(pair[p].family)'
    <3> PICK f, kind : f = pair[p].family /\ kind = request[q].kind
      OBVIOUS
    <3>1. f \in Codes /\ p \in Family(f) /\ kind \in Kinds
      BY DEF TypeOK, Minted, Pair, Family, Request
    <3>2. <<f, kind>> \in lost'
      BY <1>21, <2>2, <3>1 DEF Stops
    <3>3. pair'[p].family = f
      BY DEF Grows
    <3> QED BY <3>1, <3>2, <3>3 DEF Lost
  <2> QED BY <2>1, <2>2, DebtsOf
<1>22. ASSUME NEW k \in Codes, storeAuthorizationCode(k)  PROVE DebtsStand
  <2>1. UNCHANGED request
    BY <1>22 DEF storeAuthorizationCode
  <2> QED BY <2>1 DEF DebtsStand, Owes
<1>23. ASSUME RevokeUser  PROVE DebtsStand
  <2>1. UNCHANGED request
    BY <1>23 DEF RevokeUser
  <2> QED BY <2>1 DEF DebtsStand, Owes
<1>24. ASSUME UNCHANGED vars  PROVE DebtsStand
  <2>1. UNCHANGED request
    BY <1>24 DEF vars
  <2> QED BY <2>1 DEF DebtsStand, Owes
<1> QED BY <1>1, <1>2, <1>3, <1>4, <1>5, <1>6, <1>7, <1>8, <1>9, <1>10, <1>11, <1>12, <1>13, <1>14, <1>15, <1>16,
           <1>17, <1>18, <1>19, <1>20, <1>21, <1>22, <1>23, <1>24 DEF Next, Begin, Grant, Kill

\* Only Mint adds a pair.
LEMMA OnlyMintMints ==
  ASSUME TypeOK, [Next]_vars
  PROVE  pair' = pair \/ \E q \in Requests, n \in Pairs : Mint(q, n)
<1>1. ASSUME NEW q \in Requests, NEW k \in Codes, consumeAuthorizationCode(q, k)
      PROVE pair' = pair \/ \E x \in Requests, y \in Pairs : Mint(x, y)
  BY <1>1 DEF consumeAuthorizationCode
<1>2. ASSUME NEW q \in Requests, NEW p \in Pairs, Refresh(q, p)
      PROVE pair' = pair \/ \E x \in Requests, y \in Pairs : Mint(x, y)
  BY <1>2 DEF Refresh
<1>3. ASSUME NEW q \in Requests, NEW p \in Pairs, RevokeRefresh(q, p)
      PROVE pair' = pair \/ \E x \in Requests, y \in Pairs : Mint(x, y)
  BY <1>3 DEF RevokeRefresh
<1>4. ASSUME NEW q \in Requests, NEW p \in Pairs, RevokeAccess(q, p)
      PROVE pair' = pair \/ \E x \in Requests, y \in Pairs : Mint(x, y)
  BY <1>4 DEF RevokeAccess
<1>5. ASSUME NEW q \in Requests, checkGrantLive(q)
      PROVE pair' = pair \/ \E x \in Requests, y \in Pairs : Mint(x, y)
  BY <1>5 DEF checkGrantLive
<1>6. ASSUME NEW q \in Requests, consumeToken(q)
      PROVE pair' = pair \/ \E x \in Requests, y \in Pairs : Mint(x, y)
  BY <1>6 DEF consumeToken
<1>7. ASSUME NEW q \in Requests, Claim(q)
      PROVE pair' = pair \/ \E x \in Requests, y \in Pairs : Mint(x, y)
  BY <1>7 DEF Claim
<1>8. ASSUME NEW q \in Requests, Refuse(q)
      PROVE pair' = pair \/ \E x \in Requests, y \in Pairs : Mint(x, y)
  BY <1>8 DEF Refuse
<1>9. ASSUME NEW q \in Requests, NEW n \in Pairs, Mint(q, n)
      PROVE pair' = pair \/ \E x \in Requests, y \in Pairs : Mint(x, y)
  BY <1>9
<1>10. ASSUME NEW q \in Requests, denylistJti(q)
      PROVE pair' = pair \/ \E x \in Requests, y \in Pairs : Mint(x, y)
  BY <1>10 DEF denylistJti
<1>11. ASSUME NEW q \in Requests, issueRefreshToken(q)
      PROVE pair' = pair \/ \E x \in Requests, y \in Pairs : Mint(x, y)
  BY <1>11 DEF issueRefreshToken
<1>12. ASSUME NEW q \in Requests, storeToken(q)
      PROVE pair' = pair \/ \E x \in Requests, y \in Pairs : Mint(x, y)
  BY <1>12 DEF storeToken
<1>13. ASSUME NEW q \in Requests, Deliver(q)
      PROVE pair' = pair \/ \E x \in Requests, y \in Pairs : Mint(x, y)
  BY <1>13 DEF Deliver
<1>14. ASSUME NEW q \in Requests, revokeFamily(q)
      PROVE pair' = pair \/ \E x \in Requests, y \in Pairs : Mint(x, y)
  BY <1>14 DEF revokeFamily
<1>15. ASSUME NEW q \in Requests, revokeTokenFamily(q)
      PROVE pair' = pair \/ \E x \in Requests, y \in Pairs : Mint(x, y)
  BY <1>15 DEF revokeTokenFamily
<1>16. ASSUME NEW q \in Requests, DeleteRows(q)
      PROVE pair' = pair \/ \E x \in Requests, y \in Pairs : Mint(x, y)
  BY <1>16 DEF DeleteRows
<1>17. ASSUME NEW q \in Requests, DenyOne(q)
      PROVE pair' = pair \/ \E x \in Requests, y \in Pairs : Mint(x, y)
  BY <1>17 DEF DenyOne
<1>18. ASSUME NEW q \in Requests, FamilyDone(q)
      PROVE pair' = pair \/ \E x \in Requests, y \in Pairs : Mint(x, y)
  BY <1>18 DEF FamilyDone, Finish
<1>19. ASSUME NEW q \in Requests, revokeStoredAccessToken(q)
      PROVE pair' = pair \/ \E x \in Requests, y \in Pairs : Mint(x, y)
  BY <1>19 DEF revokeStoredAccessToken
<1>20. ASSUME NEW q \in Requests, DenyOwn(q)
      PROVE pair' = pair \/ \E x \in Requests, y \in Pairs : Mint(x, y)
  BY <1>20 DEF DenyOwn, Finish
<1>21. ASSUME NEW q \in Requests, Stops(q)
      PROVE pair' = pair \/ \E x \in Requests, y \in Pairs : Mint(x, y)
  BY <1>21 DEF Stops
<1>22. ASSUME NEW k \in Codes, storeAuthorizationCode(k)  PROVE pair' = pair \/ \E q \in Requests, n \in Pairs : Mint(q, n)
  BY <1>22 DEF storeAuthorizationCode
<1>23. ASSUME RevokeUser  PROVE pair' = pair \/ \E q \in Requests, n \in Pairs : Mint(q, n)
  BY <1>23 DEF RevokeUser
<1>24. ASSUME UNCHANGED vars  PROVE pair' = pair \/ \E q \in Requests, n \in Pairs : Mint(q, n)
  BY <1>24 DEF vars
<1> QED BY <1>1, <1>2, <1>3, <1>4, <1>5, <1>6, <1>7, <1>8, <1>9, <1>10, <1>11, <1>12, <1>13, <1>14, <1>15, <1>16,
           <1>17, <1>18, <1>19, <1>20, <1>21, <1>22, <1>23, <1>24 DEF Next, Begin, Grant, Kill

\* Rotation denies what it replaces, or has still to.
LEMMA ReplacedKept ==
  ASSUME TypeOK, Requested, Lineage, Grows, DebtsStand, Replaced, [Next]_vars
  PROVE  Replaced'
<1> SUFFICES ASSUME NEW p \in Minted', pair'[p].parent \in Pairs  PROVE Settled(pair[p].parent)'
  BY DEF Replaced
<1> PICK u : u = pair'[p].parent
  OBVIOUS
<1>1. CASE p \in Minted
  <2>1. pair[p].parent = u /\ u \in Pairs /\ pair'[p].parent = u
    BY <1>1 DEF Grows
  <2>2. u \in Minted
    BY <1>1, <2>1, NoneAssumption DEF Lineage, TypeOK, Minted, Pair
  <2>3. Settled(u)'
    BY <1>1, <2>1, <2>2, SettledStays DEF Replaced
  <2> QED BY <2>1, <2>3 DEF Settled, Owed, Owes
<1>2. CASE p \notin Minted
  <2>1. PICK q \in Requests, n \in Pairs : Mint(q, n)
    <3>1. pair' # pair
      BY <1>2 DEF Minted
    <3> QED BY <3>1, OnlyMintMints
  <2>2. /\ pair' = [pair EXCEPT ![n] = [family |-> request[q].family, parent |-> Parent(q)]]
        /\ request[q].family \in Codes /\ request[q].kind \in {"code", "refresh"}
    BY <2>1, MintedIsReal
  <2>3. p = n /\ u = Parent(q) /\ u \in Pairs
    BY <1>2, <2>2 DEF Minted, TypeOK
  <2>4. request[q].kind = "refresh" /\ u = request[q].token
    BY <2>2, <2>3, NoneAssumption DEF Parent
  <2>5. Owes(q, u)'
    BY <2>1, <2>4, MintMoves DEF Keeps, Owes
  <2>6. Settled(u)'
    BY <2>5 DEF Settled, Owed
  <2> QED BY <2>6 DEF Settled, Owed, Owes
<1> QED BY <1>1, <1>2

--------------------------------------------------------------------------------
(* No access token that is out loses its row and is forgotten. *)

RowsStand == \A p \in Minted : rows[p] # None => rows'[p] # None \/ Settled(p)' \/ pair[p].family \in raced'
NoneGetOut == \A p \in Minted' : Out(p)' => p \in Minted /\ (Out(p) \/ rows'[p] # None)

LEMMA RowlessStays ==
  ASSUME Rowless, Grows, DebtsStand, RowsStand, NoneGetOut
  PROVE  Rowless'
<1> SUFFICES ASSUME NEW p \in Minted', Out(p)', rows'[p] = None
             PROVE  Settled(p)' \/ pair'[p].family \in raced'
  BY DEF Rowless
<1>1. p \in Minted /\ Out(p) /\ pair'[p] = pair[p]
  BY DEF NoneGetOut, Grows
<1>2. rows[p] # None \/ Settled(p) \/ pair[p].family \in raced
  BY <1>1 DEF Rowless
<1>3. Settled(p) => Settled(p)'
  BY <1>1, SettledStays
<1> QED BY <1>1, <1>2, <1>3 DEF RowsStand, Grows

LEMMA OutStays ==
  ASSUME NEW q \in Requests, Moved(q), request'[q].pc # "answer", UNCHANGED <<pair, held>>
  PROVE  NoneGetOut
<1>1. Minted' = Minted
  BY DEF Minted
<1>2. \A p \in Minted' : Out(p)' => Out(p)
  BY DEF Out, Moved
<1> QED BY <1>1, <1>2 DEF NoneGetOut

LEMMA OutIdle ==
  ASSUME UNCHANGED <<request, pair, held>>
  PROVE  NoneGetOut
<1> QED BY DEF NoneGetOut, Out, Minted

\* A row that goes leaves somebody who owes its jti, unless the family raced.
LEMMA RowlessKept ==
  ASSUME TypeOK, Requested, Lineage, Grows, DebtsStand, Rowless, Sweeps, [Next]_vars
  PROVE  Rowless'
<1>1. ASSUME NEW q \in Requests, NEW k \in Codes, consumeAuthorizationCode(q, k)  PROVE Rowless'
  <2>1. UNCHANGED <<pair, held, rows>>
    BY <1>1 DEF consumeAuthorizationCode, store
  <2>2. RowsStand
    BY <2>1 DEF RowsStand
  <2>3. NoneGetOut
    BY <1>1, <2>1, CodeMoves, IdleTyped, OutStays DEF Fresh
  <2> QED BY <2>2, <2>3, RowlessStays
<1>2. ASSUME NEW q \in Requests, NEW p \in Pairs, Refresh(q, p)  PROVE Rowless'
  <2>1. UNCHANGED <<pair, held, rows>>
    BY <1>2 DEF Refresh, store
  <2>2. RowsStand
    BY <2>1 DEF RowsStand
  <2>3. NoneGetOut
    BY <1>2, <2>1, RefreshMoves, IdleTyped, OutStays DEF Fresh
  <2> QED BY <2>2, <2>3, RowlessStays
<1>3. ASSUME NEW q \in Requests, NEW p \in Pairs, RevokeRefresh(q, p)  PROVE Rowless'
  <2>1. UNCHANGED <<pair, held, rows>>
    BY <1>3 DEF RevokeRefresh, store
  <2>2. NoneGetOut
    <3>1. CASE rows[p] = None
      BY <1>3, <2>1, <3>1, RevokeRefreshMoves, OutIdle
    <3>2. CASE rows[p] # None
      BY <1>3, <2>1, <3>2, RevokeRefreshMoves, OutStays DEF Fresh
    <3> QED BY <3>1, <3>2
  <2> QED BY <2>1, <2>2, RowlessStays DEF RowsStand
<1>4. ASSUME NEW q \in Requests, NEW p \in Pairs, RevokeAccess(q, p)  PROVE Rowless'
  <2>1. UNCHANGED <<pair, held, rows>>
    BY <1>4 DEF RevokeAccess, store
  <2>2. RowsStand
    BY <2>1 DEF RowsStand
  <2>3. NoneGetOut
    BY <1>4, <2>1, RevokeAccessMoves, IdleTyped, OutStays DEF Fresh
  <2> QED BY <2>2, <2>3, RowlessStays
<1>5. ASSUME NEW q \in Requests, checkGrantLive(q)  PROVE Rowless'
  <2>1. UNCHANGED <<pair, held, rows>>
    BY <1>5 DEF checkGrantLive, store
  <2>2. RowsStand
    BY <2>1 DEF RowsStand
  <2>3. NoneGetOut
    BY <1>5, <2>1, LiveMoves, IdleTyped, OutStays DEF GoesOn, Keeps, Flags, IsOver
  <2> QED BY <2>2, <2>3, RowlessStays
<1>6. ASSUME NEW q \in Requests, consumeToken(q)  PROVE Rowless'
  <2>1. UNCHANGED <<pair, held, rows>>
    BY <1>6 DEF consumeToken, store
  <2>2. RowsStand
    BY <2>1 DEF RowsStand
  <2>3. NoneGetOut
    BY <1>6, <2>1, FindMoves, IdleTyped, OutStays DEF GoesOn, Keeps, Flags
  <2> QED BY <2>2, <2>3, RowlessStays
<1>7. ASSUME NEW q \in Requests, Claim(q)  PROVE Rowless'
  <2>1. UNCHANGED <<pair, held, rows>>
    BY <1>7 DEF Claim, store
  <2>2. RowsStand
    BY <2>1 DEF RowsStand
  <2>3. NoneGetOut
    BY <1>7, <2>1, ClaimMoves, IdleTyped, OutStays DEF GoesOn, Keeps, Flags, IsOver
  <2> QED BY <2>2, <2>3, RowlessStays
<1>8. ASSUME NEW q \in Requests, Refuse(q)  PROVE Rowless'
  <2>1. UNCHANGED <<pair, held, rows>>
    BY <1>8 DEF Refuse, store
  <2>2. RowsStand
    BY <2>1 DEF RowsStand
  <2>3. NoneGetOut
    BY <1>8, <2>1, RefuseMoves, IdleTyped, OutStays DEF IsOver
  <2> QED BY <2>2, <2>3, RowlessStays
<1>9. ASSUME NEW q \in Requests, NEW n \in Pairs, Mint(q, n)  PROVE Rowless'
  <2>1. /\ Keeps(q) /\ request'[q].pc \in {"deny", "issue"} /\ UNCHANGED held /\ n \notin Minted
        /\ (request[q].kind = "refresh" => request'[q].pc = "deny")
        /\ rows' = IF request[q].kind = "refresh" THEN [rows EXCEPT ![request[q].token] = None] ELSE rows
    BY <1>9, MintMoves DEF Mint
  <2>2. RowsStand
    <3> SUFFICES ASSUME NEW p \in Minted, rows[p] # None, rows'[p] = None  PROVE Settled(p)'
      BY DEF RowsStand
    <3>1. request[q].kind = "refresh" /\ p = request[q].token
      BY <2>1 DEF TypeOK, Minted
    <3>2. Owes(q, p)'
      BY <2>1, <3>1 DEF Owes, Keeps
    <3> QED BY <3>2 DEF Settled, Owed
  <2>3. NoneGetOut
    <3> SUFFICES ASSUME NEW p \in Minted', Out(p)'  PROVE p \in Minted /\ Out(p)
      BY DEF NoneGetOut
    <3>1. CASE p \in held
      BY <3>1 DEF Lineage, Out
    <3>2. CASE \E x \in Requests : request'[x].pc = "answer" /\ request'[x].next = p
      <4>1. PICK x \in Requests : request'[x].pc = "answer" /\ request'[x].next = p
        BY <3>2
      <4>2. request'[x] = request[x] /\ Formed(request[x])
        BY <2>1, <4>1 DEF Keeps, Moved, Requested
      <4> QED BY <4>1, <4>2 DEF Formed, Out
    <3> QED BY <2>1, <3>1, <3>2 DEF Out
  <2> QED BY <2>2, <2>3, RowlessStays
<1>10. ASSUME NEW q \in Requests, denylistJti(q)  PROVE Rowless'
  <2>1. UNCHANGED <<pair, held, rows>>
    BY <1>10 DEF denylistJti, store
  <2>2. RowsStand
    BY <2>1 DEF RowsStand
  <2>3. NoneGetOut
    BY <1>10, <2>1, StepsGoOn, IdleTyped, OutStays DEF GoesOn, Keeps
  <2> QED BY <2>2, <2>3, RowlessStays
<1>11. ASSUME NEW q \in Requests, issueRefreshToken(q)  PROVE Rowless'
  <2>1. UNCHANGED <<pair, held, rows>>
    BY <1>11 DEF issueRefreshToken, store
  <2>2. RowsStand
    BY <2>1 DEF RowsStand
  <2>3. NoneGetOut
    BY <1>11, <2>1, StepsGoOn, IdleTyped, OutStays DEF GoesOn, Keeps
  <2> QED BY <2>2, <2>3, RowlessStays
<1>12. ASSUME NEW q \in Requests, storeToken(q)  PROVE Rowless'
  <2> PICK n : n = request[q].next
    OBVIOUS
  <2>1. Keeps(q) /\ request'[q].next = n /\ request[q].pc = "store" /\ UNCHANGED <<pair, held>>
        /\ rows' = [rows EXCEPT ![n] = epoch]
    BY <1>12, StepsGoOn DEF GoesOn, storeToken
  <2>2. n \in Minted /\ rows'[n] # None /\ \A p \in Pairs \ {n} : rows'[p] = rows[p]
    BY <2>1, NoneAssumption, BoundAssumption DEF Requested, Formed, Minted, TypeOK, Epochs
  <2>3. RowsStand
    BY <2>2 DEF RowsStand, Minted
  <2>4. \A p \in Minted' : Out(p)' => Out(p) \/ p = n
    BY <2>1 DEF Out, Keeps, Moved
  <2>5. NoneGetOut
    BY <2>1, <2>2, <2>4 DEF NoneGetOut, Minted
  <2> QED BY <2>3, <2>5, RowlessStays
<1>13. ASSUME NEW q \in Requests, Deliver(q)  PROVE Rowless'
  <2>1. IsOver(q) /\ request[q].pc = "answer" /\ UNCHANGED <<pair, rows>> /\ held' = held \cup {request[q].next}
    BY <1>13, StepsGoOn DEF Deliver, store
  <2>2. NoneGetOut
    BY <2>1, IdleTyped DEF NoneGetOut, Out, IsOver, Moved, Minted
  <2> QED BY <2>1, <2>2, RowlessStays DEF RowsStand
<1>14. ASSUME NEW q \in Requests, revokeFamily(q)  PROVE Rowless'
  <2>1. UNCHANGED <<pair, held, rows>>
    BY <1>14 DEF revokeFamily, store
  <2>2. RowsStand
    BY <2>1 DEF RowsStand
  <2>3. NoneGetOut
    BY <1>14, <2>1, StepsGoOn, IdleTyped, OutStays DEF GoesOn, Keeps
  <2> QED BY <2>2, <2>3, RowlessStays
<1>15. ASSUME NEW q \in Requests, revokeTokenFamily(q)  PROVE Rowless'
  <2>1. UNCHANGED <<pair, held, rows>>
    BY <1>15 DEF revokeTokenFamily, store
  <2>2. RowsStand
    BY <2>1 DEF RowsStand
  <2>3. NoneGetOut
    BY <1>15, <2>1, ListMoves, IdleTyped, OutStays DEF Keeps
  <2> QED BY <2>2, <2>3, RowlessStays
<1>16. ASSUME NEW q \in Requests, DeleteRows(q)  PROVE Rowless'
  <2> PICK f : f = request[q].family
    OBVIOUS
  <2>1. /\ GoesOn(q, "denyAll") /\ request[q].pc = "delete" /\ UNCHANGED <<pair, held, raced>>
        /\ rows' = [p \in Pairs |-> IF p \in FamilyRows(f) THEN None ELSE rows[p]]
    BY <1>16, StepsGoOn DEF DeleteRows, history
  <2>2. f # None /\ (f \notin raced => FamilyRows(f) \subseteq request[q].todo)
    <3>1. Formed(request[q]) /\ SweptBy(request[q])
      BY DEF Requested, Sweeps
    <3> QED BY <2>1, <3>1 DEF Formed, SweptBy
  <2>3. RowsStand
    <3> SUFFICES ASSUME NEW p \in Minted, rows[p] # None, rows'[p] = None, pair[p].family \notin raced
                 PROVE  Settled(p)'
      BY <2>1 DEF RowsStand
    <3>1. p \in FamilyRows(f)
      BY <2>1 DEF Minted
    <3>2. p \in request'[q].todo
      BY <2>1, <2>2, <3>1 DEF GoesOn, FamilyRows, Family
    <3> QED BY <3>2 DEF Settled, Owed, Owes
  <2>4. NoneGetOut
    BY <2>1, OutStays DEF GoesOn, Keeps
  <2> QED BY <2>3, <2>4, RowlessStays
<1>17. ASSUME NEW q \in Requests, DenyOne(q)  PROVE Rowless'
  <2>1. UNCHANGED <<pair, held, rows>>
    BY <1>17 DEF DenyOne, store
  <2>2. RowsStand
    BY <2>1 DEF RowsStand
  <2>3. NoneGetOut
    BY <1>17, <2>1, DenyOneMoves, IdleTyped, OutStays DEF Keeps
  <2> QED BY <2>2, <2>3, RowlessStays
<1>18. ASSUME NEW q \in Requests, FamilyDone(q)  PROVE Rowless'
  <2>1. UNCHANGED <<pair, held, rows>>
    BY <1>18 DEF FamilyDone, Finish, store
  <2>2. RowsStand
    BY <2>1 DEF RowsStand
  <2>3. NoneGetOut
    BY <1>18, <2>1, FamilyDoneMoves, IdleTyped, OutStays DEF GoesOn, Keeps, IsOver
  <2> QED BY <2>2, <2>3, RowlessStays
<1>19. ASSUME NEW q \in Requests, revokeStoredAccessToken(q)  PROVE Rowless'
  <2>1. /\ GoesOn(q, "denyOwn") /\ UNCHANGED <<pair, held>>
        /\ rows' = [rows EXCEPT ![request[q].token] = None]
    BY <1>19, StepsGoOn DEF revokeStoredAccessToken
  <2>2. RowsStand
    <3> SUFFICES ASSUME NEW p \in Minted, rows[p] # None, rows'[p] = None  PROVE Settled(p)'
      BY DEF RowsStand
    <3>1. p = request[q].token
      BY <2>1 DEF TypeOK, Minted
    <3>2. Owes(q, p)'
      BY <2>1, <3>1 DEF Owes, GoesOn, Keeps
    <3> QED BY <3>2 DEF Settled, Owed
  <2>3. NoneGetOut
    BY <2>1, OutStays DEF GoesOn, Keeps
  <2> QED BY <2>2, <2>3, RowlessStays
<1>20. ASSUME NEW q \in Requests, DenyOwn(q)  PROVE Rowless'
  <2>1. UNCHANGED <<pair, held, rows>>
    BY <1>20 DEF DenyOwn, Finish, store
  <2>2. RowsStand
    BY <2>1 DEF RowsStand
  <2>3. NoneGetOut
    BY <1>20, <2>1, StepsGoOn, IdleTyped, OutStays DEF IsOver
  <2> QED BY <2>2, <2>3, RowlessStays
<1>21. ASSUME NEW q \in Requests, Stops(q)  PROVE Rowless'
  <2>1. UNCHANGED <<pair, held, rows>>
    BY <1>21 DEF Stops, store
  <2>2. RowsStand
    BY <2>1 DEF RowsStand
  <2>3. NoneGetOut
    BY <1>21, <2>1, StepsGoOn, IdleTyped, OutStays DEF IsOver
  <2> QED BY <2>2, <2>3, RowlessStays
<1>22. ASSUME NEW k \in Codes, storeAuthorizationCode(k)  PROVE Rowless'
  <2>1. UNCHANGED <<request, pair, held, rows>>
    BY <1>22 DEF storeAuthorizationCode, store
  <2> QED BY <2>1, OutIdle, RowlessStays DEF RowsStand
<1>23. ASSUME RevokeUser  PROVE Rowless'
  <2>1. UNCHANGED <<request, pair, held, rows>>
    BY <1>23 DEF RevokeUser, store
  <2> QED BY <2>1, OutIdle, RowlessStays DEF RowsStand
<1>24. ASSUME UNCHANGED vars  PROVE Rowless'
  <2>1. UNCHANGED <<request, pair, held, rows>>
    BY <1>24 DEF vars, store
  <2> QED BY <2>1, OutIdle, RowlessStays DEF RowsStand
<1> QED BY <1>1, <1>2, <1>3, <1>4, <1>5, <1>6, <1>7, <1>8, <1>9, <1>10, <1>11, <1>12, <1>13, <1>14, <1>15, <1>16,
           <1>17, <1>18, <1>19, <1>20, <1>21, <1>22, <1>23, <1>24 DEF Next, Begin, Grant, Kill


--------------------------------------------------------------------------------
(* A family that has been swept stays without rows. *)

Past == {"claim", "mint", "deny", "issue", "store"}
Quiet == \A f \in revoked : ~AboutToMint(f) => ~AboutToMint(f)' /\ FamilyRows(f)' \subseteq FamilyRows(f)

LEMMA QuietOf ==
  ASSUME NEW q \in Requests, Moved(q), UNCHANGED pair,
         \A p \in Pairs : rows'[p] # None => rows[p] # None,
         request'[q].pc \in Past =>
           \/ request'[q].family \notin revoked
           \/ request[q].pc \in Past /\ request'[q].family = request[q].family
  PROVE  Quiet
<1> SUFFICES ASSUME NEW f \in revoked, ~AboutToMint(f)
             PROVE  ~AboutToMint(f)' /\ FamilyRows(f)' \subseteq FamilyRows(f)
  BY DEF Quiet
<1>1. ~AboutToMint(f)'
  BY DEF AboutToMint, Moved, Past
<1>2. FamilyRows(f)' \subseteq FamilyRows(f)
  BY DEF FamilyRows, Family, Minted
<1> QED BY <1>1, <1>2

LEMMA QuietIdle ==
  ASSUME UNCHANGED <<request, pair, rows>>
  PROVE  Quiet
<1> QED BY DEF Quiet, AboutToMint, FamilyRows, Family, Minted

LEMMA SweptStays ==
  ASSUME Quiet, NEW f \in revoked, Swept(f)
  PROVE  Swept(f)'
<1> QED BY DEF Quiet, Swept

LEMMA SweptByStays ==
  ASSUME Quiet, Grows, NEW r, Formed(r), SweptBy(r)
  PROVE  SweptBy(r)'
<1> SUFFICES ASSUME r.family # None, r.family \notin raced'
             PROVE  /\ r.pc = "delete" => FamilyRows(r.family)' \subseteq r.todo /\ ~AboutToMint(r.family)'
                    /\ r.pc \in {"denyAll", "remove", "denyOwn"} => Swept(r.family)'
  BY DEF SweptBy
<1> PICK f : f = r.family
  OBVIOUS
<1>1. f \notin raced
  BY DEF Grows
<1>2. CASE r.pc = "delete"
  <2>1. f \in revoked /\ FamilyRows(f) \subseteq r.todo /\ ~AboutToMint(f)
    BY <1>1, <1>2 DEF Formed, SweptBy
  <2>2. FamilyRows(f)' \subseteq r.todo /\ ~AboutToMint(f)'
    BY <2>1 DEF Quiet
  <2> QED BY <1>2, <2>2 DEF FamilyRows, Family, AboutToMint
<1>3. CASE r.pc \in {"denyAll", "remove", "denyOwn"}
  <2>1. r.kind # "access"
    BY <1>3 DEF Formed
  <2>2. f \in revoked /\ Swept(f)
    BY <1>1, <1>3, <2>1 DEF Formed, SweptBy
  <2>3. Swept(f)'
    BY <2>2, SweptStays
  <2> QED BY <1>3, <2>3 DEF Swept, FamilyRows, Family, AboutToMint
<1> QED BY <1>2, <1>3

\* The families that have been revoked stay so, and the requests other than q swept what they did.
LEMMA SweepsStay ==
  ASSUME Sweeps, Requested, Grows, Quiet, NEW q \in Requests, Moved(q), SweptBy(request[q])',
         \A f \in ended' : f \in ended \/ (f \in revoked /\ (f \in raced \/ Swept(f)))
  PROVE  Sweeps'
<1>1. ASSUME NEW x \in Requests, x # q  PROVE SweptBy(request[x])'
  <2> PICK r : r = request[x]
    OBVIOUS
  <2>1. request'[x] = r /\ Formed(r) /\ SweptBy(r)
    BY <1>1 DEF Moved, Requested, Sweeps
  <2>2. SweptBy(r)'
    BY <2>1, SweptByStays
  <2> QED BY <2>1, <2>2 DEF SweptBy
<1>2. ASSUME NEW f \in ended'  PROVE f \in revoked' /\ (f \in raced' \/ Swept(f)')
  <2>1. f \in revoked /\ (f \in raced \/ Swept(f))
    BY <1>2 DEF Sweeps
  <2>2. Swept(f) => Swept(f)'
    BY <2>1, SweptStays
  <2> QED BY <2>1, <2>2 DEF Grows
<1> QED BY <1>1, <1>2 DEF Sweeps

LEMMA SweepsIdle ==
  ASSUME Sweeps, Requested, Grows, UNCHANGED <<request, pair, rows, ended>>
  PROVE  Sweeps'
<1>1. ASSUME NEW x \in Requests  PROVE SweptBy(request[x])'
  <2> PICK r : r = request[x]
    OBVIOUS
  <2>1. Formed(r) /\ SweptBy(r)
    BY DEF Requested, Sweeps
  <2>2. SweptBy(r)'
    BY <2>1, SweptByStays, QuietIdle
  <2> QED BY <2>2 DEF SweptBy
<1>2. ASSUME NEW f \in ended'  PROVE f \in revoked' /\ (f \in raced' \/ Swept(f)')
  <2>1. f \in revoked /\ (f \in raced \/ Swept(f))
    BY <1>2 DEF Sweeps
  <2>2. Swept(f) => Swept(f)'
    BY <2>1, SweptStays, QuietIdle
  <2> QED BY <2>1, <2>2 DEF Grows
<1> QED BY <1>1, <1>2 DEF Sweeps

\* A request that is not in the middle of a revocation has swept nothing.
LEMMA NotSweeping ==
  ASSUME NEW q \in Requests, request'[q].pc \notin {"delete", "denyAll", "remove", "denyOwn"}
  PROVE  SweptBy(request[q])'
<1> QED BY DEF SweptBy

\* A request that has deleted the rows of its family goes on.
LEMMA SweepGoesOn ==
  ASSUME Quiet, Grows, Requested, Sweeps, NEW q \in Requests,
         request[q].pc \in {"denyAll", "remove", "denyOwn"}, request'[q].pc \in {"denyAll", "remove", "denyOwn"},
         request'[q].family = request[q].family
  PROVE  SweptBy(request[q])'
<1> PICK f : f = request[q].family
  OBVIOUS
<1> SUFFICES ASSUME f # None, f \notin raced'  PROVE Swept(f)'
  BY DEF SweptBy, Swept, FamilyRows, Family, AboutToMint
<1>1. f \notin raced /\ Formed(request[q]) /\ SweptBy(request[q])
  BY DEF Grows, Requested, Sweeps
<1>2. f \in revoked /\ Swept(f)
  BY <1>1 DEF Formed, SweptBy
<1> QED BY <1>2, SweptStays

\* The family of a request that ends has been swept.
LEMMA SweepEnds ==
  ASSUME Requested, Sweeps, NEW q \in Requests, request[q].pc \in {"denyAll", "denyOwn"}, Finish(q)
  PROVE  \A f \in ended' : f \in ended \/ (f \in revoked /\ (f \in raced \/ Swept(f)))
<1> PICK f : f = request[q].family
  OBVIOUS
<1>1. f # None => f \in revoked /\ (f \in raced \/ Swept(f))
  BY DEF Requested, Formed, Sweeps, SweptBy
<1>2. ended' = IF f = None THEN ended ELSE ended \cup {f}
  BY DEF Finish
<1> QED BY <1>1, <1>2

\* A revocation leaves its family without rows, and nobody adds one.
LEMMA SweepsKept ==
  ASSUME TypeOK, Requested, Lineage, Grows, Sole, Sweeps, [Next]_vars
  PROVE  Sweeps'
<1>1. ASSUME NEW q \in Requests, NEW k \in Codes, consumeAuthorizationCode(q, k)  PROVE Sweeps'
  <2>1. UNCHANGED <<pair, rows, ended>>
    BY <1>1 DEF consumeAuthorizationCode, store, history
  <2>2. Moved(q) /\ request'[q].pc \notin {"delete", "denyAll", "remove", "denyOwn"}
    BY <1>1, CodeMoves, IdleTyped DEF Fresh
  <2>3. Quiet
    BY <1>1, <2>1, <2>2, CodeMoves, IdleTyped, QuietOf DEF Past, Fresh
  <2> QED BY <2>1, <2>2, <2>3, NotSweeping, SweepsStay
<1>2. ASSUME NEW q \in Requests, NEW p \in Pairs, Refresh(q, p)  PROVE Sweeps'
  <2>1. UNCHANGED <<pair, rows, ended>>
    BY <1>2 DEF Refresh, store, history
  <2>2. Moved(q) /\ request'[q].pc \notin {"delete", "denyAll", "remove", "denyOwn"}
    BY <1>2, RefreshMoves, IdleTyped DEF Fresh
  <2>3. Quiet
    BY <1>2, <2>1, <2>2, RefreshMoves, IdleTyped, QuietOf DEF Past, Fresh
  <2> QED BY <2>1, <2>2, <2>3, NotSweeping, SweepsStay
<1>3. ASSUME NEW q \in Requests, NEW p \in Pairs, RevokeRefresh(q, p)  PROVE Sweeps'
  <2>1. UNCHANGED <<pair, rows, ended>>
    BY <1>3 DEF RevokeRefresh, store
  <2>2. CASE rows[p] = None
    BY <1>3, <2>1, <2>2, RevokeRefreshMoves, SweepsIdle
  <2>3. CASE rows[p] # None
    <3>1. Moved(q) /\ request'[q].pc = "flag"
      BY <1>3, <2>3, RevokeRefreshMoves DEF Fresh
    <3>2. Quiet
      BY <2>1, <3>1, QuietOf DEF Past
    <3> QED BY <2>1, <3>1, <3>2, NotSweeping, SweepsStay
  <2> QED BY <2>2, <2>3
<1>4. ASSUME NEW q \in Requests, NEW p \in Pairs, RevokeAccess(q, p)  PROVE Sweeps'
  <2>1. UNCHANGED <<pair, rows, ended>> /\ Moved(q) /\ request'[q].pc = "remove" /\ request'[q].family = None
    BY <1>4, RevokeAccessMoves DEF RevokeAccess, store, history, Fresh
  <2>2. Quiet
    BY <2>1, QuietOf DEF Past
  <2>3. SweptBy(request[q])'
    BY <2>1 DEF SweptBy
  <2> QED BY <2>1, <2>2, <2>3, SweepsStay
<1>5. ASSUME NEW q \in Requests, checkGrantLive(q)  PROVE Sweeps'
  <2>1. UNCHANGED <<pair, rows, ended>> /\ request[q].pc = "live" /\ Moved(q)
        /\ request'[q].pc \notin {"delete", "denyAll", "remove", "denyOwn"}
    BY <1>5, LiveMoves, IdleTyped DEF checkGrantLive, store, history, GoesOn, Flags, Keeps, IsOver
  <2>2. request'[q].pc \in Past => request[q].kind = "code" /\ request'[q].family = request[q].family
    BY <1>5, LiveMoves, IdleTyped DEF GoesOn, Flags, Keeps, IsOver, Past
  <2>3. request[q].kind = "code" => request[q].family \notin revoked
    BY <2>1 DEF Sole, Lineage
  <2>4. Quiet
    BY <2>1, <2>2, <2>3, QuietOf
  <2> QED BY <2>1, <2>4, NotSweeping, SweepsStay
<1>6. ASSUME NEW q \in Requests, consumeToken(q)  PROVE Sweeps'
  <2>1. UNCHANGED <<pair, rows, ended>> /\ Moved(q)
        /\ request'[q].pc \notin {"delete", "denyAll", "remove", "denyOwn"}
    BY <1>6, FindMoves DEF consumeToken, store, history, GoesOn, Flags, Keeps
  <2>2. request'[q].pc \in Past => request[q].family \notin revoked /\ request'[q].family = request[q].family
    BY <1>6, FindMoves DEF GoesOn, Flags, Keeps, Past
  <2>3. Quiet
    BY <2>1, <2>2, QuietOf
  <2> QED BY <2>1, <2>3, NotSweeping, SweepsStay
<1>7. ASSUME NEW q \in Requests, Claim(q)  PROVE Sweeps'
  <2>1. UNCHANGED <<pair, rows, ended>>
    BY <1>7 DEF Claim, store, history
  <2>2. Moved(q) /\ request'[q].pc \notin {"delete", "denyAll", "remove", "denyOwn"}
    BY <1>7, ClaimMoves, IdleTyped DEF GoesOn, Keeps, Flags, IsOver
  <2>3. Quiet
    BY <1>7, <2>1, <2>2, ClaimMoves, IdleTyped, QuietOf DEF Past, GoesOn, Keeps, Flags, IsOver
  <2> QED BY <2>1, <2>2, <2>3, NotSweeping, SweepsStay
<1>8. ASSUME NEW q \in Requests, Refuse(q)  PROVE Sweeps'
  <2>1. UNCHANGED <<pair, rows, ended>>
    BY <1>8 DEF Refuse, store, history
  <2>2. Moved(q) /\ request'[q].pc \notin {"delete", "denyAll", "remove", "denyOwn"}
    BY <1>8, RefuseMoves, IdleTyped DEF IsOver
  <2>3. Quiet
    BY <1>8, <2>1, <2>2, RefuseMoves, IdleTyped, QuietOf DEF Past, IsOver
  <2> QED BY <2>1, <2>2, <2>3, NotSweeping, SweepsStay
<1>9. ASSUME NEW q \in Requests, NEW n \in Pairs, Mint(q, n)  PROVE Sweeps'
  <2> PICK u : u = request[q].family
    OBVIOUS
  <2>1. /\ Keeps(q) /\ request[q].pc = "mint" /\ request'[q].pc \in {"deny", "issue"} /\ UNCHANGED ended
        /\ \A p \in Pairs : rows'[p] # None => rows[p] # None
    BY <1>9, MintMoves DEF Mint, TypeOK
  <2>2. n \notin Minted /\ pair' = [pair EXCEPT ![n] = [family |-> u, parent |-> Parent(q)]]
    BY <1>9 DEF Mint
  <2>3. Quiet
    <3> SUFFICES ASSUME NEW f \in revoked, ~AboutToMint(f)
                 PROVE  ~AboutToMint(f)' /\ FamilyRows(f)' \subseteq FamilyRows(f)
      BY DEF Quiet
    <3>1. f # u
      BY <2>1 DEF AboutToMint
    <3>2. ~AboutToMint(f)'
      BY <2>1, <3>1 DEF AboutToMint, Keeps, Moved
    <3>3. \A p \in Pairs : p # n => pair'[p] = pair[p]
      BY <2>2 DEF TypeOK
    <3>4. pair'[n].family = u
      BY <2>2 DEF TypeOK
    <3>5. FamilyRows(f)' \subseteq FamilyRows(f)
      BY <2>1, <3>1, <3>3, <3>4 DEF FamilyRows, Family, Minted
    <3> QED BY <3>2, <3>5
  <2> QED BY <2>1, <2>3, NotSweeping, SweepsStay DEF Keeps
<1>10. ASSUME NEW q \in Requests, denylistJti(q)  PROVE Sweeps'
  <2>1. UNCHANGED <<pair, rows, ended>>
    BY <1>10 DEF denylistJti, store, history
  <2>2. Moved(q) /\ request'[q].pc \notin {"delete", "denyAll", "remove", "denyOwn"}
    BY <1>10, StepsGoOn, IdleTyped DEF GoesOn, Keeps
  <2>3. Quiet
    BY <1>10, <2>1, <2>2, StepsGoOn, IdleTyped, QuietOf DEF Past, GoesOn, Keeps
  <2> QED BY <2>1, <2>2, <2>3, NotSweeping, SweepsStay
<1>11. ASSUME NEW q \in Requests, issueRefreshToken(q)  PROVE Sweeps'
  <2>1. UNCHANGED <<pair, rows, ended>>
    BY <1>11 DEF issueRefreshToken, store, history
  <2>2. Moved(q) /\ request'[q].pc \notin {"delete", "denyAll", "remove", "denyOwn"}
    BY <1>11, StepsGoOn, IdleTyped DEF GoesOn, Keeps
  <2>3. Quiet
    BY <1>11, <2>1, <2>2, StepsGoOn, IdleTyped, QuietOf DEF Past, GoesOn, Keeps
  <2> QED BY <2>1, <2>2, <2>3, NotSweeping, SweepsStay
<1>12. ASSUME NEW q \in Requests, storeToken(q)  PROVE Sweeps'
  <2> PICK n, u : n = request[q].next /\ u = request[q].family
    OBVIOUS
  <2>1. /\ Keeps(q) /\ request[q].pc = "store" /\ request'[q].pc = "answer" /\ UNCHANGED <<pair, ended>>
        /\ rows' = [rows EXCEPT ![n] = epoch]
    BY <1>12, StepsGoOn DEF GoesOn, storeToken, history
  <2>2. n \in Minted /\ pair[n].family = u
    BY <2>1 DEF Requested, Formed
  <2>3. Quiet
    <3> SUFFICES ASSUME NEW f \in revoked, ~AboutToMint(f)
                 PROVE  ~AboutToMint(f)' /\ FamilyRows(f)' \subseteq FamilyRows(f)
      BY DEF Quiet
    <3>1. f # u
      BY <2>1 DEF AboutToMint
    <3>2. ~AboutToMint(f)'
      BY <2>1, <3>1 DEF AboutToMint, Keeps, Moved
    <3>3. \A p \in Pairs : p # n => rows'[p] = rows[p]
      BY <2>1 DEF TypeOK
    <3>4. FamilyRows(f)' \subseteq FamilyRows(f)
      BY <2>1, <2>2, <3>1, <3>3 DEF FamilyRows, Family, Minted
    <3> QED BY <3>2, <3>4
  <2> QED BY <2>1, <2>3, NotSweeping, SweepsStay DEF Keeps
<1>13. ASSUME NEW q \in Requests, Deliver(q)  PROVE Sweeps'
  <2>1. UNCHANGED <<pair, rows, ended>>
    BY <1>13 DEF Deliver, store, history
  <2>2. Moved(q) /\ request'[q].pc \notin {"delete", "denyAll", "remove", "denyOwn"}
    BY <1>13, StepsGoOn, IdleTyped DEF IsOver
  <2>3. Quiet
    BY <1>13, <2>1, <2>2, StepsGoOn, IdleTyped, QuietOf DEF Past, IsOver
  <2> QED BY <2>1, <2>2, <2>3, NotSweeping, SweepsStay
<1>14. ASSUME NEW q \in Requests, revokeFamily(q)  PROVE Sweeps'
  <2>1. UNCHANGED <<pair, rows, ended>>
    BY <1>14 DEF revokeFamily, store, history
  <2>2. Moved(q) /\ request'[q].pc \notin {"delete", "denyAll", "remove", "denyOwn"}
    BY <1>14, StepsGoOn, IdleTyped DEF GoesOn, Keeps
  <2>3. Quiet
    BY <1>14, <2>1, <2>2, StepsGoOn, IdleTyped, QuietOf DEF Past, GoesOn, Keeps
  <2> QED BY <2>1, <2>2, <2>3, NotSweeping, SweepsStay
<1>15. ASSUME NEW q \in Requests, revokeTokenFamily(q)  PROVE Sweeps'
  <2> PICK f : f = request[q].family
    OBVIOUS
  <2>1. /\ Keeps(q) /\ request[q].pc = "list" /\ request'[q].pc = "delete" /\ UNCHANGED <<pair, rows, ended>>
        /\ request'[q].todo = FamilyRows(f) /\ request'[q].family = f
        /\ raced' = IF AboutToMint(f) THEN raced \cup {f} ELSE raced
    BY <1>15, ListMoves DEF revokeTokenFamily, store, Keeps
  <2>2. Quiet
    BY <2>1, QuietOf DEF Past, Keeps
  <2>3. FamilyRows(f)' = FamilyRows(f)
    BY <2>1 DEF FamilyRows, Family, Minted
  <2>4. f \notin raced' => ~AboutToMint(f)'
    BY <2>1 DEF AboutToMint, Keeps, Moved
  <2>5. SweptBy(request[q])'
    <3> SUFFICES ASSUME f \notin raced'  PROVE FamilyRows(f)' \subseteq request'[q].todo /\ ~AboutToMint(f)'
      BY <2>1 DEF SweptBy, FamilyRows, Family, AboutToMint
    <3> QED BY <2>1, <2>3, <2>4
  <2> QED BY <2>1, <2>2, <2>5, SweepsStay DEF Keeps
<1>16. ASSUME NEW q \in Requests, DeleteRows(q)  PROVE Sweeps'
  <2> PICK f : f = request[q].family
    OBVIOUS
  <2>1. /\ Keeps(q) /\ request[q].pc = "delete" /\ request'[q].pc = "denyAll" /\ UNCHANGED <<pair, ended, raced>>
        /\ request'[q].family = f
        /\ rows' = [p \in Pairs |-> IF p \in FamilyRows(f) THEN None ELSE rows[p]]
    BY <1>16, StepsGoOn DEF DeleteRows, history, GoesOn, Keeps
  <2>2. Quiet
    BY <2>1, QuietOf DEF Past, Keeps
  <2>3. FamilyRows(f)' = {}
    BY <2>1 DEF FamilyRows, Family, Minted
  <2>4. f # None /\ f \notin raced' => ~AboutToMint(f)'
    <3>1. SweptBy(request[q])
      BY DEF Sweeps
    <3>2. f # None /\ f \notin raced => ~AboutToMint(f)
      BY <2>1, <3>1 DEF SweptBy
    <3> QED BY <2>1, <3>2 DEF AboutToMint, Keeps, Moved
  <2>5. SweptBy(request[q])'
    <3> SUFFICES ASSUME f # None, f \notin raced'  PROVE Swept(f)'
      BY <2>1 DEF SweptBy, Swept, FamilyRows, Family, AboutToMint
    <3> QED BY <2>3, <2>4 DEF Swept
  <2> QED BY <2>1, <2>2, <2>5, SweepsStay DEF Keeps
<1>17. ASSUME NEW q \in Requests, DenyOne(q)  PROVE Sweeps'
  <2>1. /\ Keeps(q) /\ request[q].pc = "denyAll" /\ request'[q].pc = "denyAll" /\ UNCHANGED <<pair, rows, ended>>
    BY <1>17, DenyOneMoves DEF DenyOne, history
  <2>2. Quiet
    BY <2>1, QuietOf DEF Past, Keeps
  <2> QED BY <2>1, <2>2, SweepGoesOn, SweepsStay DEF Keeps
<1>18. ASSUME NEW q \in Requests, FamilyDone(q)  PROVE Sweeps'
  <2>1. request[q].pc = "denyAll" /\ UNCHANGED <<pair, rows>>
    BY <1>18, FamilyDoneMoves DEF FamilyDone, store
  <2>2. CASE Finish(q) /\ IsOver(q)
    <3>1. Moved(q) /\ request'[q].pc = "idle"
      BY <2>2, IdleTyped DEF IsOver
    <3>2. Quiet
      BY <2>1, <3>1, QuietOf DEF Past
    <3> QED BY <2>1, <2>2, <3>1, <3>2, NotSweeping, SweepEnds, SweepsStay
  <2>3. CASE GoesOn(q, "remove") /\ UNCHANGED history
    <3>1. Moved(q) /\ request'[q].pc = "remove" /\ request'[q].family = request[q].family /\ UNCHANGED ended
      BY <2>3 DEF GoesOn, Keeps, history
    <3>2. Quiet
      BY <2>1, <3>1, QuietOf DEF Past
    <3> QED BY <2>1, <3>1, <3>2, SweepGoesOn, SweepsStay
  <2> QED BY <1>18, <2>2, <2>3, FamilyDoneMoves
<1>19. ASSUME NEW q \in Requests, revokeStoredAccessToken(q)  PROVE Sweeps'
  <2>1. /\ Keeps(q) /\ request[q].pc = "remove" /\ request'[q].pc = "denyOwn" /\ UNCHANGED <<pair, ended>>
        /\ \A p \in Pairs : rows'[p] # None => rows[p] # None
    BY <1>19, StepsGoOn DEF GoesOn, revokeStoredAccessToken, history, TypeOK
  <2>2. Quiet
    BY <2>1, QuietOf DEF Past, Keeps
  <2> QED BY <2>1, <2>2, SweepGoesOn, SweepsStay DEF Keeps
<1>20. ASSUME NEW q \in Requests, DenyOwn(q)  PROVE Sweeps'
  <2>1. request[q].pc = "denyOwn" /\ UNCHANGED <<pair, rows>> /\ Finish(q) /\ IsOver(q)
    BY <1>20, StepsGoOn DEF DenyOwn
  <2>2. Moved(q) /\ request'[q].pc = "idle"
    BY <2>1, IdleTyped DEF IsOver
  <2>3. Quiet
    BY <2>1, <2>2, QuietOf DEF Past
  <2> QED BY <2>1, <2>2, <2>3, NotSweeping, SweepEnds, SweepsStay
<1>21. ASSUME NEW q \in Requests, Stops(q)  PROVE Sweeps'
  <2>1. UNCHANGED <<pair, rows, ended>>
    BY <1>21 DEF Stops, store, history
  <2>2. Moved(q) /\ request'[q].pc \notin {"delete", "denyAll", "remove", "denyOwn"}
    BY <1>21, StepsGoOn, IdleTyped DEF IsOver
  <2>3. Quiet
    BY <1>21, <2>1, <2>2, StepsGoOn, IdleTyped, QuietOf DEF Past, IsOver
  <2> QED BY <2>1, <2>2, <2>3, NotSweeping, SweepsStay
<1>22. ASSUME NEW k \in Codes, storeAuthorizationCode(k)  PROVE Sweeps'
  <2>1. UNCHANGED <<request, pair, rows, ended>>
    BY <1>22 DEF storeAuthorizationCode, store, history
  <2> QED BY <2>1, SweepsIdle
<1>23. ASSUME RevokeUser  PROVE Sweeps'
  <2>1. UNCHANGED <<request, pair, rows, ended>>
    BY <1>23 DEF RevokeUser, store, history
  <2> QED BY <2>1, SweepsIdle
<1>24. ASSUME UNCHANGED vars  PROVE Sweeps'
  <2>1. UNCHANGED <<request, pair, rows, ended>>
    BY <1>24 DEF vars, store, history
  <2> QED BY <2>1, SweepsIdle
<1> QED BY <1>1, <1>2, <1>3, <1>4, <1>5, <1>6, <1>7, <1>8, <1>9, <1>10, <1>11, <1>12, <1>13, <1>14, <1>15, <1>16,
           <1>17, <1>18, <1>19, <1>20, <1>21, <1>22, <1>23, <1>24 DEF Next, Begin, Grant, Kill

--------------------------------------------------------------------------------
(* A client is told only what holds. *)

LEMMA AnswersStay ==
  ASSUME Answers, Lineage, Grows, DebtsStand,
         \A p \in answered' : p \in answered \/ (p \in Minted /\ (Settled(p) \/ pair[p].family \in raced))
                              \/ (p \in Minted /\ p \in denied')
  PROVE  Answers'
<1> SUFFICES ASSUME NEW p \in answered'  PROVE Settled(p)' \/ pair'[p].family \in raced'
  BY DEF Answers
<1>1. p \in Minted /\ pair'[p] = pair[p]
  BY DEF Lineage, Grows
<1>2. Settled(p) \/ pair[p].family \in raced \/ p \in denied'
  BY DEF Answers
<1>3. Settled(p) => Settled(p)'
  BY <1>1, SettledStays
<1> QED BY <1>1, <1>2, <1>3 DEF Grows, Settled

\* Who is told that a token is revoked, it is denied, or somebody owes it.
LEMMA AnswersKept ==
  ASSUME TypeOK, Requested, Lineage, Grows, DebtsStand, Rowless, Answers, [Next]_vars
  PROVE  Answers'
<1>1. ASSUME NEW q \in Requests, NEW k \in Codes, consumeAuthorizationCode(q, k)  PROVE Answers'
  <2>1. UNCHANGED answered
    BY <1>1 DEF consumeAuthorizationCode, history
  <2> QED BY <2>1, AnswersStay
<1>2. ASSUME NEW q \in Requests, NEW p \in Pairs, Refresh(q, p)  PROVE Answers'
  <2>1. UNCHANGED answered
    BY <1>2 DEF Refresh, history
  <2> QED BY <2>1, AnswersStay
<1>3. ASSUME NEW q \in Requests, NEW p \in Pairs, RevokeRefresh(q, p)  PROVE Answers'
  <2>1. CASE rows[p] # None
    BY <1>3, <2>1, RevokeRefreshMoves, AnswersStay
  <2>2. CASE rows[p] = None
    <3>1. answered' = answered \cup {p} /\ p \in held
      BY <1>3, <2>2, RevokeRefreshMoves
    <3>2. p \in Minted /\ (Settled(p) \/ pair[p].family \in raced)
      BY <2>2, <3>1 DEF Lineage, Rowless, Out
    <3> QED BY <3>1, <3>2, AnswersStay
  <2> QED BY <2>1, <2>2
<1>4. ASSUME NEW q \in Requests, NEW p \in Pairs, RevokeAccess(q, p)  PROVE Answers'
  <2>1. UNCHANGED answered
    BY <1>4 DEF RevokeAccess, history
  <2> QED BY <2>1, AnswersStay
<1>5. ASSUME NEW q \in Requests, checkGrantLive(q)  PROVE Answers'
  <2>1. UNCHANGED answered
    BY <1>5 DEF checkGrantLive, history
  <2> QED BY <2>1, AnswersStay
<1>6. ASSUME NEW q \in Requests, consumeToken(q)  PROVE Answers'
  <2>1. UNCHANGED answered
    BY <1>6 DEF consumeToken, history
  <2> QED BY <2>1, AnswersStay
<1>7. ASSUME NEW q \in Requests, Claim(q)  PROVE Answers'
  <2>1. UNCHANGED answered
    BY <1>7 DEF Claim, history
  <2> QED BY <2>1, AnswersStay
<1>8. ASSUME NEW q \in Requests, Refuse(q)  PROVE Answers'
  <2>1. UNCHANGED answered
    BY <1>8 DEF Refuse, history
  <2> QED BY <2>1, AnswersStay
<1>9. ASSUME NEW q \in Requests, NEW n \in Pairs, Mint(q, n)  PROVE Answers'
  <2>1. UNCHANGED answered
    BY <1>9 DEF Mint, history
  <2> QED BY <2>1, AnswersStay
<1>10. ASSUME NEW q \in Requests, denylistJti(q)  PROVE Answers'
  <2>1. UNCHANGED answered
    BY <1>10 DEF denylistJti, history
  <2> QED BY <2>1, AnswersStay
<1>11. ASSUME NEW q \in Requests, issueRefreshToken(q)  PROVE Answers'
  <2>1. UNCHANGED answered
    BY <1>11 DEF issueRefreshToken, history
  <2> QED BY <2>1, AnswersStay
<1>12. ASSUME NEW q \in Requests, storeToken(q)  PROVE Answers'
  <2>1. UNCHANGED answered
    BY <1>12 DEF storeToken, history
  <2> QED BY <2>1, AnswersStay
<1>13. ASSUME NEW q \in Requests, Deliver(q)  PROVE Answers'
  <2>1. UNCHANGED answered
    BY <1>13 DEF Deliver, history
  <2> QED BY <2>1, AnswersStay
<1>14. ASSUME NEW q \in Requests, revokeFamily(q)  PROVE Answers'
  <2>1. UNCHANGED answered
    BY <1>14 DEF revokeFamily, history
  <2> QED BY <2>1, AnswersStay
<1>15. ASSUME NEW q \in Requests, revokeTokenFamily(q)  PROVE Answers'
  <2>1. UNCHANGED answered
    BY <1>15 DEF revokeTokenFamily, history
  <2> QED BY <2>1, AnswersStay
<1>16. ASSUME NEW q \in Requests, DeleteRows(q)  PROVE Answers'
  <2>1. UNCHANGED answered
    BY <1>16 DEF DeleteRows, history
  <2> QED BY <2>1, AnswersStay
<1>17. ASSUME NEW q \in Requests, DenyOne(q)  PROVE Answers'
  <2>1. UNCHANGED answered
    BY <1>17 DEF DenyOne, history
  <2> QED BY <2>1, AnswersStay
<1>18. ASSUME NEW q \in Requests, FamilyDone(q)  PROVE Answers'
  <2>1. Formed(request[q]) /\ request[q].pc = "denyAll"
    BY <1>18, FamilyDoneMoves DEF Requested
  <2>2. request[q].created = None => request[q].kind \notin {"revoke", "access"}
    BY <2>1 DEF Formed
  <2>3. UNCHANGED answered
    BY <1>18, <2>2 DEF FamilyDone, Finish, history
  <2> QED BY <2>3, AnswersStay
<1>19. ASSUME NEW q \in Requests, revokeStoredAccessToken(q)  PROVE Answers'
  <2>1. UNCHANGED answered
    BY <1>19 DEF revokeStoredAccessToken, history
  <2> QED BY <2>1, AnswersStay
<1>20. ASSUME NEW q \in Requests, DenyOwn(q)  PROVE Answers'
  <2> PICK p : p = request[q].token
    OBVIOUS
  <2>1. Formed(request[q]) /\ request[q].pc = "denyOwn"
    BY <1>20, StepsGoOn DEF Requested
  <2>2. p \in Minted
    BY <2>1 DEF Formed, Lineage
  <2>3. p \in denied' /\ answered' \subseteq answered \cup {p}
    BY <1>20 DEF DenyOwn, OldJti, Finish
  <2> QED BY <2>2, <2>3, AnswersStay
<1>21. ASSUME NEW q \in Requests, Stops(q)  PROVE Answers'
  <2>1. UNCHANGED answered
    BY <1>21 DEF Stops, history
  <2> QED BY <2>1, AnswersStay
<1>22. ASSUME NEW k \in Codes, storeAuthorizationCode(k)  PROVE Answers'
  <2>1. UNCHANGED answered
    BY <1>22 DEF storeAuthorizationCode, history
  <2> QED BY <2>1, AnswersStay
<1>23. ASSUME RevokeUser  PROVE Answers'
  <2>1. UNCHANGED answered
    BY <1>23 DEF RevokeUser, history
  <2> QED BY <2>1, AnswersStay
<1>24. ASSUME UNCHANGED vars  PROVE Answers'
  <2>1. UNCHANGED answered
    BY <1>24 DEF vars, history
  <2> QED BY <2>1, AnswersStay
<1> QED BY <1>1, <1>2, <1>3, <1>4, <1>5, <1>6, <1>7, <1>8, <1>9, <1>10, <1>11, <1>12, <1>13, <1>14, <1>15, <1>16,
           <1>17, <1>18, <1>19, <1>20, <1>21, <1>22, <1>23, <1>24 DEF Next, Begin, Grant, Kill

--------------------------------------------------------------------------------
(* The inductive invariant *)

Inv ==
  /\ TypeOK /\ Requested /\ Lineage /\ NewPairs /\ Sole /\ Bars
  /\ Replaced /\ Rowless /\ Sweeps /\ Answers

LEMMA InitHolds == Init => Inv
<1> SUFFICES ASSUME Init  PROVE Inv
  OBVIOUS
<1>1. Minted = {} /\ \A q \in Requests : request[q] = Idle
  BY DEF Init, Minted
<1>2. TypeOK
  <2>1. request \in [Requests -> Request]
    BY IdleTyped DEF Init
  <2>2. 0 \in Epochs /\ faults \in 0..MaxFaults
    BY BoundAssumption DEF Init, Epochs
  <2>3. codes \in [Codes -> Code]
    BY <2>2 DEF Init, Code
  <2> QED BY <2>1, <2>2, <2>3 DEF Init, TypeOK
<1>3. Requested
  BY <1>1, <1>2, IdleTyped DEF Requested, Formed, TypeOK
<1>4. Lineage
  BY <1>1, FS_EmptySet DEF Init, Lineage
<1>5. NewPairs
  BY <1>1, IdleTyped DEF Init, NewPairs, Making
<1>6. Sole
  BY <1>1, IdleTyped DEF Init, Sole, Takes, NoFork
<1>7. Bars
  BY <1>1, IdleTyped DEF Init, Bars
<1>8. Replaced /\ Rowless
  BY <1>1 DEF Replaced, Rowless
<1>9. Sweeps /\ Answers
  BY <1>1, IdleTyped DEF Init, Sweeps, SweptBy, Answers
<1> QED BY <1>2, <1>3, <1>4, <1>5, <1>6, <1>7, <1>8, <1>9 DEF Inv

LEMMA NextKeeps ==
  ASSUME Inv, [Next]_vars
  PROVE  Inv'
<1> USE DEF Inv
<1>1. Grows
  BY StepGrows
<1>2. Requested'
  BY <1>1, RequestedKept
<1>3. TypeOK'
  BY <1>2, TypesKept
<1>4. DebtsStand
  BY <1>1, DebtsKept
<1>5. Lineage'
  BY <1>1, LineageKept
<1>6. NewPairs'
  BY <1>1, NewPairsKept
<1>7. Sole' /\ Bars'
  BY <1>1, SoleKept, BarsKept
<1>8. Replaced' /\ Rowless'
  BY <1>1, <1>4, ReplacedKept, RowlessKept
<1>9. Sweeps' /\ Answers'
  BY <1>1, <1>4, SweepsKept, AnswersKept
<1> QED BY <1>2, <1>3, <1>5, <1>6, <1>7, <1>8, <1>9

LEMMA Invariant == Spec => []Inv
<1>1. Inv /\ [Next]_vars => Inv'
  BY NextKeeps
<1> QED BY <1>1, InitHolds, PTL DEF Spec

--------------------------------------------------------------------------------
(* What the invariant says *)

\* The rows, the requests and the history keep their types.
THEOREM TypesHold == Spec => []TypeOK
<1>1. Inv => TypeOK
  BY DEF Inv
<1> QED BY <1>1, Invariant, PTL

\* token.ts and grant-refresh-token.ts: however requests race or stop, no code
\* and no refresh token is exchanged for two pairs.
THEOREM FamiliesNeverFork == Spec => []NoFork
<1>1. Inv => NoFork
  BY DEF Inv, Sole
<1> QED BY <1>1, Invariant, PTL

\* grant-liveness.ts and consumeToken(): a request that begins after its code or
\* token has been used, revoked, denied or overtaken by a sign-out mints nothing.
THEOREM RevocationBars == Spec => []RevokedMintsNothing
<1>1. Inv => RevokedMintsNothing
  BY DEF Inv, Bars, RevokedMintsNothing
<1> QED BY <1>1, Invariant, PTL

\* revokeFamilyAndTokens(): once it has run, each access token of the family
\* that is out is denied or owed, unless a request raced it or stopped.
THEOREM RevocationIsWhole == Spec => []KillIsWhole
<1>1. ASSUME Inv  PROVE KillIsWhole
  <2> SUFFICES ASSUME NEW f \in ended, Intact(f, Kinds), NEW p \in Family(f) \cap held
               PROVE  p \in denied \/ Owed(p)
    BY DEF KillIsWhole
  <2>1. p \in Minted /\ pair[p].family = f /\ Out(p)
    BY DEF Family, Out
  <2>2. f \notin raced /\ ~Lost(f)
    BY DEF Intact, Lost
  <2>3. rows[p] = None
    BY <1>1, <2>1, <2>2 DEF Inv, Sweeps, Swept, FamilyRows, Family
  <2>4. Settled(p)
    BY <1>1, <2>1, <2>2, <2>3 DEF Inv, Rowless
  <2> QED BY <2>1, <2>2, <2>4 DEF Settled
<1> QED BY <1>1, Invariant, PTL

\* A finite set does not fit into itself with two of its elements left out and
\* one other put in: a family in which each pair replaces the one before it has
\* a single last one.
LEMMA OneIsLast ==
  ASSUME NEW S, IsFiniteSet(S), NEW e, e \notin S, NEW up \in [S -> S \cup {e}],
         \A x, y \in S : up[x] = up[y] => x = y,
         NEW a \in S, NEW b \in S, \A x \in S : up[x] # a /\ up[x] # b
  PROVE  a = b
<1> SUFFICES ASSUME a # b  PROVE FALSE
  OBVIOUS
<1> DEFINE R == (S \ {a}) \ {b}
           T == R \cup {e}
<1>1. Cardinality(S) \in Nat
  BY FS_CardinalityType
<1>2. IsFiniteSet(S \ {a}) /\ Cardinality(S \ {a}) = Cardinality(S) - 1
  BY FS_RemoveElement
<1>3. IsFiniteSet(R) /\ Cardinality(R) = Cardinality(S) - 2
  <2>1. b \in S \ {a}
    OBVIOUS
  <2>2. IsFiniteSet(R) /\ Cardinality(R) = Cardinality(S \ {a}) - 1
    BY <1>2, <2>1, FS_RemoveElement
  <2> QED BY <1>1, <1>2, <2>2
<1>4. IsFiniteSet(T) /\ Cardinality(T) < Cardinality(S)
  <2>1. e \notin R
    OBVIOUS
  <2>2. IsFiniteSet(T) /\ Cardinality(T) = Cardinality(R) + 1
    BY <1>3, <2>1, FS_AddElement
  <2> QED BY <1>1, <1>3, <2>2
<1>5. up \in [S -> T]
  OBVIOUS
<1>6. \E x, y \in S : x # y /\ up[x] = up[y]
  <2> HIDE DEF T
  <2> QED BY <1>4, <1>5, FS_PigeonHole
<1> QED BY <1>6

\* Rotation: a family has at most one access token that is out and neither
\* denied nor owed, unless a request stopped between a delete and its denial.
THEOREM RotationReplaces == Spec => []OneAccess
<1>1. ASSUME Inv  PROVE OneAccess
  <2> SUFFICES ASSUME NEW f \in Codes, \A kind \in Kinds : <<f, kind>> \notin lost
               PROVE  Cardinality(Alive(f)) <= 1
    BY DEF OneAccess
  <2> DEFINE up == [p \in Family(f) |-> pair[p].parent]
  <2>1. IsFiniteSet(Family(f)) /\ f \notin Family(f) /\ Family(f) \subseteq Pairs
    <3>1. Family(f) \subseteq Minted
      BY DEF Family
    <3>2. IsFiniteSet(Family(f))
      BY <1>1, <3>1, FS_Subset DEF Inv, Lineage
    <3> QED BY <3>1, <3>2, NoneAssumption DEF Minted
  <2>2. up \in [Family(f) -> Family(f) \cup {f}]
    BY <1>1 DEF Inv, Lineage, Family
  <2>3. \A x, y \in Family(f) : up[x] = up[y] => x = y
    BY <1>1 DEF Inv, Sole, NoFork, Family
  <2>4. ASSUME NEW a \in Alive(f)  PROVE a \in Family(f) /\ \A x \in Family(f) : up[x] # a
    <3>1. a \in Family(f) /\ ~Settled(a) /\ a \in Pairs
      BY <2>1, <2>4 DEF Alive, Settled, Lost, Family
    <3> QED BY <1>1, <3>1 DEF Inv, Replaced, Family
  <2>5. \A a, b \in Alive(f) : a = b
    <3> SUFFICES ASSUME NEW a \in Alive(f), NEW b \in Alive(f)  PROVE a = b
      OBVIOUS
    <3> HIDE DEF up
    <3> QED BY <2>1, <2>2, <2>3, <2>4, OneIsLast
  <2>6. CASE Alive(f) = {}
    BY <2>6, FS_EmptySet
  <2>7. CASE Alive(f) # {}
    <3>1. PICK a : a \in Alive(f)
      BY <2>7
    <3>2. Alive(f) = {a}
      BY <2>5, <3>1
    <3>3. Cardinality({a}) = 1
      BY FS_Singleton
    <3> QED BY <3>2, <3>3
  <2> QED BY <2>6, <2>7
<1> QED BY <1>1, Invariant, PTL

\* handleRevocation(): a client told that its token is revoked can rely on it,
\* unless a request raced the revocation or stopped.
THEOREM AnswersAreTrue == Spec => []AnswerIsTrue
<1>1. ASSUME Inv  PROVE AnswerIsTrue
  <2> SUFFICES ASSUME NEW p \in answered, Intact(pair[p].family, Kinds)  PROVE p \in denied \/ Owed(p)
    BY DEF AnswerIsTrue
  <2> QED BY <1>1 DEF Inv, Answers, Settled, Lost, Intact
<1> QED BY <1>1, Invariant, PTL

================================================================================

---------------------------- MODULE TokenFamilyProofs --------------------------
(***************************************************************************)
(* Theorems about the credentials of people: TokenFamily, for any users,   *)
(* families, tokens, calls, grace windows and bounds, and, in the second   *)
(* half, Lockout, for any sign-ins, clients, thresholds, windows and       *)
(* bounds.  The two modules share no name, nor does a proof about one use  *)
(* anything of the other.                                                  *)
(***************************************************************************)
EXTENDS TokenFamily, Lockout, FiniteSetTheorems, TLAPS

(***************************************************************************)
(* Type correctness.  A call knows the family it acts in, and between      *)
(* presenting a token and being done with it the token, which is one of    *)
(* that family.                                                            *)
(***************************************************************************)

HasToken == {"family", "claim", "reread"}
Placed(k) ==
  /\ k.pc # "idle" => k.fam \in Families
  /\ k.pc \in HasToken \/ (k.pc = "revoke" /\ k.reuse) =>
       k.tok \in Tokens /\ familyOf[k.tok] = k.fam
  /\ k.pc = "check" => k.tok \in Tokens
  /\ k.now = 0 \/ k.now >= Second
  /\ k.pc \in HasToken => k.now >= Second
  /\ k.ttl <= TokenTtl
Bounded == \A f \in Families : absolute[f] <= clock + FamilyTtl
Typed == TypeOK /\ Bounded /\ \A c \in Calls : Placed(call[c])

LEMMA Division ==
  ASSUME NEW n \in Nat
  PROVE  n \div Second \in 0..n /\ (n \div Second) * Second <= n
<1>1. Second \in Nat \ {0}
  BY TimeAssumption
<1>2. n \div Second \in Nat /\ (n \div Second) * Second <= n
  BY <1>1
<1>3. \A q \in Nat : q * Second <= n => q <= n
  BY <1>1
<1> QED
  BY <1>2, <1>3

LEMMA UsedTyped ==
  ASSUME NEW n \in Nat, n >= Second
  PROVE  UsedColumn(n) \in 1..n /\ UsedColumn(n) * Second <= n
BY Division, TimeAssumption DEF UsedColumn

LEMMA IdleTyped == Idle \in Call /\ Placed(Idle)
BY TimeAssumption DEF Idle, Call, Steps, Placed, HasToken

\* Calls keep their place: tokens never change family.
LEMMA CallTyped ==
  ASSUME Typed, NEW c \in Calls, NEW k \in Call, Placed(k), call' = [call EXCEPT ![c] = k],
         \A t \in Tokens : familyOf[t] # None => familyOf'[t] = familyOf[t]
  PROVE  call' \in [Calls -> Call] /\ \A d \in Calls : Placed(call[d])'
<1>1. ASSUME NEW d, Placed(d), d \in Call
      PROVE  Placed(d)'
  BY <1>1, NoneAssumption DEF Placed, HasToken
<1>2. ASSUME NEW d \in Calls
      PROVE  call'[d] \in Call /\ Placed(call'[d])
  BY DEF Typed, TypeOK
<1>3. \A d \in Calls : \A h : h = call'[d] => Placed(h)'
  BY <1>1, <1>2
<1>4. \A d \in Calls : Placed(call[d])'
  BY <1>3 DEF Placed
<1> QED
  BY <1>2, <1>4 DEF Typed, TypeOK

\* The actions that only move a call.
LEMMA MoveTyped ==
  ASSUME Typed, NEW c \in Calls, NEW k \in Call, Placed(k), call' = [call EXCEPT ![c] = k],
         UNCHANGED <<families, tokens, grace, clock, history>>, crashes' \in 0..MaxCrashes
  PROVE  Typed'
<1>1. call' \in [Calls -> Call] /\ \A d \in Calls : Placed(call[d])'
  BY CallTyped DEF tokens
<1> QED
  BY <1>1 DEF Typed, TypeOK, Bounded, families, tokens, history

LEMMA ReturnTyped ==
  ASSUME Typed, NEW c \in Calls, Return(c),
         \A t \in Tokens : familyOf[t] # None => familyOf'[t] = familyOf[t]
  PROVE  call' \in [Calls -> Call] /\ \A d \in Calls : Placed(call[d])'
BY CallTyped, IdleTyped DEF Return

LEMMA StepTyped ==
  ASSUME Typed, NEW c \in Calls, NEW pc \in Steps, NEW reuse \in BOOLEAN, NEW ttl \in 0..FamilyTtl,
         Placed([call[c] EXCEPT !.pc = pc, !.reuse = reuse, !.ttl = ttl]),
         call' = [call EXCEPT ![c] = [call[c] EXCEPT !.pc = pc, !.reuse = reuse, !.ttl = ttl]],
         UNCHANGED <<families, tokens, grace, clock, crashes, history>>
  PROVE  Typed'
<1> DEFINE k == [call[c] EXCEPT !.pc = pc, !.reuse = reuse, !.ttl = ttl]
<1>1. k \in Call
  BY ZenonT(60) DEF Typed, TypeOK, Call
<1> HIDE DEF k
<1>2. Placed(k) /\ call' = [call EXCEPT ![c] = k]
  BY DEF k
<1>3. crashes' \in 0..MaxCrashes
  BY DEF Typed, TypeOK
<1> QED
  BY <1>1, <1>2, <1>3, MoveTyped

LEMMA LoginTyped ==
  ASSUME Typed, NEW c \in Calls, NEW u \in Users, NEW f \in Families, Login(c, u, f)
  PROVE  Typed'
<1> DEFINE k == [Idle EXCEPT !.pc = "sign", !.fam = f]
<1>1. k \in Call /\ Placed(k)
  BY IdleTyped, TimeAssumption DEF Idle, Call, Steps, Placed, HasToken
<1>2. call' = [call EXCEPT ![c] = k]
  BY DEF Login
<1> HIDE DEF k
<1>3. call' \in [Calls -> Call] /\ \A d \in Calls : Placed(call[d])'
  BY <1>1, <1>2, CallTyped DEF Login, tokens
<1>4. clock + FamilyTtl \in 0..(MaxTime + FamilyTtl)
  BY TimeAssumption DEF Typed, TypeOK, Time
<1>5. owner' \in [Families -> Users \cup {None}] /\ absolute' \in [Families -> 0..(MaxTime + FamilyTtl)]
  BY <1>4 DEF Login, Typed, TypeOK
<1>6. Bounded'
  BY <1>4 DEF Login, Typed, TypeOK, Bounded
<1> QED
  BY <1>3, <1>5, <1>6 DEF Login, Typed, TypeOK, tokens, history

LEMMA SignTyped ==
  ASSUME Typed, NEW c \in Calls, Sign(c)
  PROVE  Typed'
<1> DEFINE k == call[c]
           left == IF absolute[k.fam] > clock THEN absolute[k.fam] - clock ELSE 0
           ttl == Lesser(TokenTtl, left)
           h == [k EXCEPT !.pc = "issue", !.reuse = k.reuse, !.ttl = ttl]
<1>1. k \in Call /\ k.pc \in {"sign", "check"} /\ Placed(k)
  BY DEF Sign, At, Typed, TypeOK
<1>2. k.fam \in Families
  BY <1>1 DEF Placed
<1>3. ttl \in 0..FamilyTtl
  <2>1. absolute[k.fam] \in Nat /\ clock \in Nat /\ absolute[k.fam] <= clock + FamilyTtl
    BY <1>2, TimeAssumption DEF Typed, TypeOK, Time, Bounded
  <2>2. left \in 0..FamilyTtl
    BY <2>1, TimeAssumption
  <2> HIDE DEF left
  <2> QED
    BY <2>2, TimeAssumption DEF Lesser
<1>7. ttl <= TokenTtl
  BY <1>3, TimeAssumption DEF Lesser
<1> HIDE DEF ttl
<1>4. k.reuse \in BOOLEAN /\ Placed(h)
  BY <1>1, <1>7 DEF Call, Placed, HasToken
<1>5. call' = [call EXCEPT ![c] = h]
  BY <1>1 DEF Sign, Call, ttl, Typed, TypeOK
<1>6. "issue" \in Steps
  BY DEF Steps
<1> QED
  BY <1>3, <1>4, <1>5, <1>6, StepTyped DEF Sign

LEMMA IssueTyped ==
  ASSUME Typed, NEW c \in Calls, NEW t \in Tokens, Issue(c, t)
  PROVE  Typed'
<1>1. call[c] \in Call /\ Placed(call[c]) /\ call[c].pc = "issue"
  BY DEF Issue, At, Typed, TypeOK
<1>2. call[c].fam \in Families /\ call[c].ttl \in Nat
  BY <1>1, TimeAssumption DEF Placed, Call
<1>3. clock + call[c].ttl \in 0..(MaxTime + TokenTtl)
  BY <1>1, <1>2, TimeAssumption DEF Placed, Typed, TypeOK, Time
<1>4. familyOf' \in [Tokens -> Families \cup {None}] /\ expires' \in [Tokens -> 0..(MaxTime + TokenTtl)]
  BY <1>2, <1>3 DEF Issue, Typed, TypeOK
<1>5. \A u \in Tokens : familyOf[u] # None => familyOf'[u] = familyOf[u]
  BY DEF Issue, Typed, TypeOK
<1>6. call' \in [Calls -> Call] /\ \A d \in Calls : Placed(call[d])'
  BY <1>5, ReturnTyped DEF Issue
<1> QED
  BY <1>4, <1>6 DEF Issue, Typed, TypeOK, Bounded, families, history

LEMMA PresentTyped ==
  ASSUME Typed, NEW c \in Calls, NEW t \in Tokens, Present(c, t)
  PROVE  Typed'
<1> DEFINE k == [Idle EXCEPT !.pc = "family", !.tok = t, !.fam = familyOf[t], !.now = clock, !.used = used[t],
                             !.late = revoked[familyOf[t]]]
<1>1. familyOf[t] \in Families /\ clock \in 0..MaxTime /\ clock >= Second /\ used[t] \in 0..MaxTime
  BY TimeAssumption DEF Present, Typed, TypeOK, Time
<1>2. revoked[familyOf[t]] \in BOOLEAN
  BY <1>1 DEF Typed, TypeOK
<1>3. k \in Call
  BY <1>1, <1>2, IdleTyped DEF Call, Steps
<1>4. Placed(k)
  BY <1>1, TimeAssumption DEF Placed, Idle, HasToken
<1>5. call' = [call EXCEPT ![c] = k]
  BY DEF Present
<1> HIDE DEF k
<1> QED
  BY <1>3, <1>4, <1>5, MoveTyped DEF Present, Typed, TypeOK

LEMMA ReturningTyped ==
  ASSUME Typed, NEW c \in Calls, Return(c),
         UNCHANGED <<families, tokens, grace, clock, crashes, history>>
  PROVE  Typed'
BY IdleTyped, MoveTyped DEF Return, Typed, TypeOK

\* A call that presented a token goes on with it.
LEMMA RefreshTyped ==
  ASSUME Typed, NEW c \in Calls, NEW pc \in {"claim", "check", "revoke", "reread"}, NEW reuse \in BOOLEAN,
         call[c].pc \in HasToken,
         call' = [call EXCEPT ![c] = [call[c] EXCEPT !.pc = pc, !.reuse = reuse]]
  PROVE  /\ call' \in [Calls -> Call]
         /\ (\A t \in Tokens : familyOf[t] # None => familyOf'[t] = familyOf[t]) =>
              \A d \in Calls : Placed(call[d])'
<1> DEFINE k == [call[c] EXCEPT !.pc = pc, !.reuse = reuse]
<1>1. call[c] \in Call /\ Placed(call[c])
  BY DEF Typed, TypeOK
<1>2. k \in Call
  BY <1>1 DEF Call, Steps
<1>3. Placed(k)
  BY <1>1 DEF Call, Placed, HasToken
<1> HIDE DEF k
<1>4. call' = [call EXCEPT ![c] = k]
  BY DEF k
<1>5. call' \in [Calls -> Call]
  BY <1>2, <1>4 DEF Typed, TypeOK
<1> QED
  BY <1>2, <1>3, <1>4, <1>5, CallTyped

LEMMA GoIsExcept ==
  ASSUME Typed, NEW c \in Calls, NEW pc, Go(c, pc)
  PROVE  call' = [call EXCEPT ![c] = [call[c] EXCEPT !.pc = pc, !.reuse = call[c].reuse]]
BY DEF Go, Typed, TypeOK, Call

\* The steps of consumeToken move the call among its own steps.
LEMMA RefreshMoves ==
  ASSUME Typed, NEW c \in Calls, call[c].pc \in HasToken,
         \/ Go(c, "revoke") \/ Go(c, "check") \/ Go(c, "claim") \/ Go(c, "reread")
         \/ call' = [call EXCEPT ![c].pc = "revoke", ![c].reuse = TRUE]
  PROVE  /\ call' \in [Calls -> Call]
         /\ (\A t \in Tokens : familyOf[t] # None => familyOf'[t] = familyOf[t]) =>
              \A d \in Calls : Placed(call[d])'
<1>1. call[c].reuse \in BOOLEAN
  BY DEF Typed, TypeOK, Call
<1>2. ASSUME NEW pc \in {"claim", "check", "revoke", "reread"}, Go(c, pc)
      PROVE  call' = [call EXCEPT ![c] = [call[c] EXCEPT !.pc = pc, !.reuse = call[c].reuse]]
  BY <1>2, GoIsExcept
<1>3. CASE call' = [call EXCEPT ![c].pc = "revoke", ![c].reuse = TRUE]
  <2>1. call' = [call EXCEPT ![c] = [call[c] EXCEPT !.pc = "revoke", !.reuse = TRUE]]
    BY <1>3
  <2> QED
    BY <2>1, RefreshTyped
<1> QED
  BY <1>1, <1>2, <1>3, RefreshTyped

LEMMA ReadFamilyTyped ==
  ASSUME Typed, NEW c \in Calls, ReadFamily(c) \/ Reread(c)
  PROVE  Typed'
<1>1. call[c].pc \in HasToken
  BY DEF ReadFamily, Reread, At, HasToken
<1>2. UNCHANGED <<families, tokens, grace, clock, crashes, history>>
  BY DEF ReadFamily, Reread
<1>3. CASE Return(c)
  BY <1>2, <1>3, ReturningTyped
<1>4. CASE ~Return(c)
  <2>1. \/ Go(c, "revoke") \/ Go(c, "check") \/ Go(c, "claim")
        \/ call' = [call EXCEPT ![c].pc = "revoke", ![c].reuse = TRUE]
    BY <1>4 DEF ReadFamily, Reread, Go
  <2>2. call' \in [Calls -> Call] /\ \A d \in Calls : Placed(call[d])'
    BY <1>1, <1>2, <2>1, RefreshMoves DEF tokens
  <2> QED
    BY <1>2, <2>2 DEF Typed, TypeOK, Bounded, families, tokens, history
<1> QED
  BY <1>3, <1>4

LEMMA ClaimTyped ==
  ASSUME Typed, NEW c \in Calls, ClaimToken(c)
  PROVE  Typed'
<1> DEFINE t == call[c].tok
           n == call[c].now
<1>1. call[c] \in Call /\ Placed(call[c]) /\ call[c].pc = "claim"
  BY DEF ClaimToken, At, Typed, TypeOK
<1>2. t \in Tokens /\ n \in 0..MaxTime /\ n >= Second
  BY <1>1 DEF Placed, HasToken, Call
<1>3. UsedColumn(n) \in 0..MaxTime
  <2>1. n \in Nat /\ UsedColumn(n) \in 1..n
    BY <1>2, UsedTyped, TimeAssumption
  <2> QED
    BY <1>2, <2>1, TimeAssumption
<1>4. used' \in [Tokens -> 0..MaxTime] /\ usedAt' \in [Tokens -> 0..MaxTime]
  BY <1>2, <1>3 DEF ClaimToken, Typed, TypeOK
<1>5. call' \in [Calls -> Call] /\ \A d \in Calls : Placed(call[d])'
  <2>1. \/ Go(c, "check") \/ Go(c, "reread")
        \/ call' = [call EXCEPT ![c].pc = "revoke", ![c].reuse = TRUE]
    BY DEF ClaimToken, Go
  <2> QED
    BY <1>1, <2>1, RefreshMoves DEF ClaimToken, HasToken
<1> QED
  BY <1>4, <1>5 DEF ClaimToken, Typed, TypeOK, Bounded, families

LEMMA RevokeTyped ==
  ASSUME Typed, NEW c \in Calls, Revoke(c)
  PROVE  Typed'
<1>1. call[c] \in Call /\ Placed(call[c]) /\ call[c].pc = "revoke"
  BY DEF Revoke, At, Typed, TypeOK
<1>2. revoked' \in [Families -> BOOLEAN]
  BY DEF Revoke, Typed, TypeOK
<1>3. reported' \subseteq Tokens
  BY <1>1 DEF Revoke, Typed, TypeOK, Placed
<1>4. call' \in [Calls -> Call] /\ \A d \in Calls : Placed(call[d])'
  BY ReturnTyped DEF Revoke, tokens
<1> QED
  BY <1>2, <1>3, <1>4 DEF Revoke, Typed, TypeOK, Bounded, tokens

LEMMA OtherTyped ==
  ASSUME Typed,
         Tick \/ (\E u \in Users : RevokeAll(u)) \/ \E c \in Calls : Crash(c) \/ AbsoluteTimeout(c)
  PROVE  Typed'
<1>1. CASE Tick
  <2>1. clock' \in Time /\ clock' = clock + 1 /\ clock \in Nat
    BY <1>1, TimeAssumption DEF Tick, Typed, TypeOK, Time
  <2>2. Bounded'
    BY <1>1, <2>1, TimeAssumption DEF Tick, Bounded, Typed, TypeOK, families
  <2> QED
    BY <1>1, <2>1, <2>2 DEF Tick, Typed, TypeOK, Placed, families, tokens, history
<1>2. ASSUME NEW u \in Users, RevokeAll(u)
      PROVE  Typed'
  <2>1. revoked' \in [Families -> BOOLEAN]
    BY <1>2 DEF RevokeAll, Typed, TypeOK
  <2> QED
    BY <1>2, <2>1 DEF RevokeAll, Typed, TypeOK, Bounded, Placed, tokens, history
<1>3. ASSUME NEW c \in Calls, Crash(c)
      PROVE  Typed'
  <2>1. crashes' \in 0..MaxCrashes
    BY <1>3, TimeAssumption DEF Crash, Typed, TypeOK
  <2> QED
    BY <1>3, <2>1, IdleTyped, MoveTyped DEF Crash, Return
<1>4. ASSUME NEW c \in Calls, AbsoluteTimeout(c)
      PROVE  Typed'
  BY <1>4, ReturningTyped DEF AbsoluteTimeout
<1> QED
  BY <1>1, <1>2, <1>3, <1>4

LEMMA InitTyped ==
  ASSUME Init
  PROVE  Typed
<1>1. call \in [Calls -> Call] /\ \A c \in Calls : Placed(call[c])
  BY IdleTyped DEF Init
<1>2. clock \in Time /\ crashes \in 0..MaxCrashes /\ Bounded
  BY TimeAssumption DEF Init, Time, Bounded
<1> QED
  BY <1>1, <1>2, TimeAssumption DEF Init, Typed, TypeOK

LEMMA NextTyped ==
  ASSUME Typed, [Next]_vars
  PROVE  Typed'
<1>1. CASE UNCHANGED vars
  BY <1>1 DEF vars, families, tokens, history, Typed, TypeOK, Bounded, Placed
<1>2. CASE Next
  BY <1>2, LoginTyped, SignTyped, IssueTyped, PresentTyped, ReadFamilyTyped, ClaimTyped, RevokeTyped, OtherTyped
     DEF Next
<1> QED
  BY <1>1, <1>2

\* Logins, refreshes and logouts keep every column within its type.
THEOREM TypeCorrect == Spec => []TypeOK
<1>1. Spec => []Typed
  BY InitTyped, NextTyped, PTL DEF Spec
<1>2. Typed => TypeOK
  BY DEF Typed
<1> QED
  BY <1>1, <1>2, PTL

(***************************************************************************)
(* What the snapshots of a call are still good for.  A column that was     *)
(* used stays so and a family that was revoked stays so, which is all that *)
(* the claims of a call between its statements rest on.                    *)
(***************************************************************************)

RowOK(t) ==
  /\ used[t] # 0 => usedAt[t] >= Second /\ used[t] * Second <= usedAt[t]
  /\ t \in reported => familyOf[t] # None /\ revoked[familyOf[t]]
KnowsOf(k) ==
  /\ k.late => k.pc = "family" /\ revoked[k.fam]
  /\ k.pc = "family" /\ k.used # 0 => used[k.tok] = k.used
  /\ k.pc = "reread" => used[k.tok] # 0
  /\ k.pc = "check" => used[k.tok] # 0 /\ k.now <= usedAt[k.tok] + grace
Known == (\A t \in Tokens : RowOK(t)) /\ \A c \in Calls : KnowsOf(call[c])

\* What no step undoes.
Forward ==
  /\ \A t \in Tokens : used[t] # 0 => used'[t] = used[t] /\ usedAt'[t] = usedAt[t]
  /\ \A t \in Tokens : familyOf[t] # None => familyOf'[t] = familyOf[t]
  /\ \A f \in Families : revoked[f] => revoked'[f]
  /\ grace' = grace

LEMMA StepForward ==
  ASSUME Typed, [Next]_vars
  PROVE  Forward
<1> USE DEF Forward, Typed, TypeOK
<1>1. CASE UNCHANGED <<revoked, used, familyOf, usedAt, grace>>
  BY <1>1
<1>2. ASSUME NEW c \in Calls, NEW t \in Tokens, Issue(c, t)
      PROVE  Forward
  BY <1>2 DEF Issue, families, history
<1>3. ASSUME NEW u \in Users, RevokeAll(u)
      PROVE  Forward
  BY <1>3 DEF RevokeAll, tokens, history
<1>4. ASSUME NEW c \in Calls, ClaimToken(c)
      PROVE  Forward
  <2>1. \A t \in Tokens : used[t] # 0 => used'[t] = used[t] /\ usedAt'[t] = usedAt[t]
    BY <1>4 DEF ClaimToken, Claimable
  <2> QED
    BY <1>4, <2>1 DEF ClaimToken, families
<1>5. ASSUME NEW c \in Calls, Revoke(c)
      PROVE  Forward
  BY <1>5 DEF Revoke, tokens
<1> QED
  BY <1>1, <1>2, <1>3, <1>4, <1>5
     DEF Next, vars, Tick, Login, Present, Sign, AbsoluteTimeout, ReadFamily, Reread, Crash, families, tokens, history

\* A call that was right and does not move stays right; one that moves has to
\* be right about the new state.
LEMMA CallsStayRight ==
  ASSUME Typed, Known, Forward, NEW c \in Calls,
         \A d \in Calls : d # c => call'[d] = call[d], KnowsOf(call[c])'
  PROVE  \A d \in Calls : KnowsOf(call[d])'
<1> SUFFICES ASSUME NEW d \in Calls, d # c
             PROVE  KnowsOf(call[d])'
  OBVIOUS
<1>1. KnowsOf(call[d]) /\ Placed(call[d]) /\ call'[d] = call[d] /\ call[d] \in Call
  BY DEF Known, Typed, TypeOK
<1>2. call[d].pc \in {"family", "reread", "check"} => call[d].tok \in Tokens
  BY <1>1 DEF Placed, HasToken
<1>3. call[d].pc = "family" => call[d].fam \in Families
  BY <1>1 DEF Placed
<1> QED
  BY <1>1, <1>2, <1>3 DEF KnowsOf, Forward

LEMMA RowsStayRight ==
  ASSUME Typed, Known, Forward, NEW t \in Tokens, UNCHANGED <<reported, used, usedAt>>
  PROVE  RowOK(t)'
<1>1. RowOK(t) /\ (familyOf[t] # None => familyOf[t] \in Families)
  BY DEF Known, Typed, TypeOK
<1> QED
  BY <1>1 DEF RowOK, Forward

\* A call at another step than these has nothing to know.
LEMMA NothingToKnow ==
  ASSUME Typed, Known, Forward, NEW c \in Calls, UNCHANGED <<reported, used, usedAt>>,
         \A d \in Calls : d # c => call'[d] = call[d],
         call'[c].pc \notin {"family", "reread", "check"}, ~call'[c].late
  PROVE  Known'
<1>1. KnowsOf(call[c])'
  BY DEF KnowsOf
<1> QED
  BY <1>1, CallsStayRight, RowsStayRight DEF Known

LEMMA PresentKnown ==
  ASSUME Typed, Known, Forward, NEW c \in Calls, NEW t \in Tokens, Present(c, t)
  PROVE  Known'
<1>1. /\ call'[c].pc = "family" /\ call'[c].tok = t /\ call'[c].fam = familyOf[t]
      /\ call'[c].used = used[t] /\ call'[c].late = revoked[familyOf[t]]
  BY DEF Present, Typed, TypeOK, Idle
<1>2. KnowsOf(call[c])'
  BY <1>1 DEF KnowsOf, Present, families, tokens
<1>3. UNCHANGED <<reported, used, usedAt>> /\ \A d \in Calls : d # c => call'[d] = call[d]
  BY DEF Present, tokens, history, Typed, TypeOK
<1> QED
  BY <1>2, <1>3, CallsStayRight, RowsStayRight DEF Known

\* A snapshot that shows the token used shows when.
LEMMA ReadFamilyKnown ==
  ASSUME Typed, Known, Forward, NEW c \in Calls, ReadFamily(c)
  PROVE  Known'
<1> DEFINE k == call[c]
<1>1. k \in Call /\ Placed(k) /\ KnowsOf(k) /\ k.pc = "family"
  BY DEF ReadFamily, At, Typed, TypeOK, Known
<1>2. k.tok \in Tokens /\ k.fam \in Families
  BY <1>1 DEF Placed, HasToken
<1>3. UNCHANGED <<reported, used, usedAt, grace>> /\ \A d \in Calls : d # c => call'[d] = call[d]
  BY DEF ReadFamily, tokens, history, Typed, TypeOK, Go, Return
<1>4. CASE FamilyDead(k.fam)
  <2>1. call'[c] = Idle
    BY <1>4, <1>1 DEF ReadFamily, Return, Typed, TypeOK
  <2> QED
    BY <1>3, <2>1, NothingToKnow DEF Idle
<1>5. CASE ~FamilyDead(k.fam)
  <2>1. ~k.late
    BY <1>1, <1>5 DEF KnowsOf, FamilyDead
  <2>2. \/ call'[c] = Idle
        \/ /\ call'[c].pc \in {"claim", "revoke"} /\ call'[c].late = k.late
        \/ /\ call'[c].pc = "check" /\ call'[c].late = k.late
           /\ call'[c].tok = k.tok /\ call'[c].now = k.now
           /\ k.used # 0 /\ WithinGrace(k.used, k.now)
    BY <1>1, <1>5 DEF ReadFamily, Return, Go, Typed, TypeOK, Call
  <2>3. CASE call'[c] = Idle \/ (call'[c].pc \in {"claim", "revoke"} /\ call'[c].late = k.late)
    BY <1>3, <2>1, <2>3, NothingToKnow DEF Idle
  <2>4. CASE /\ call'[c].pc = "check" /\ call'[c].late = k.late
             /\ call'[c].tok = k.tok /\ call'[c].now = k.now
             /\ k.used # 0 /\ WithinGrace(k.used, k.now)
    <3>1. used[k.tok] = k.used /\ used[k.tok] # 0 /\ k.used * Second <= usedAt[k.tok]
      BY <1>1, <1>2, <2>4 DEF KnowsOf, Known, RowOK
    <3>2. k.now <= k.used * Second + grace
      BY <2>4 DEF WithinGrace
    <3> DEFINE m == k.used * Second
    <3>3. m \in Nat /\ grace \in Nat /\ k.now \in Nat /\ usedAt[k.tok] \in Nat
      BY <1>1, <1>2, TimeAssumption DEF Typed, TypeOK, Call
    <3>4. m <= usedAt[k.tok] /\ k.now <= m + grace
      BY <3>1, <3>2
    <3> HIDE DEF m
    <3>5. k.now <= usedAt[k.tok] + grace
      BY <3>3, <3>4
    <3>6. KnowsOf(call[c])'
      BY <1>3, <2>1, <2>4, <3>1, <3>5 DEF KnowsOf
    <3> QED
      BY <1>3, <3>6, CallsStayRight, RowsStayRight DEF Known
  <2> QED
    BY <2>2, <2>3, <2>4
<1> QED
  BY <1>4, <1>5

LEMMA ClaimKnown ==
  ASSUME Typed, Known, Forward, NEW c \in Calls, ClaimToken(c)
  PROVE  Known'
<1> DEFINE k == call[c]
           n == k.now
<1>1. k \in Call /\ Placed(k) /\ KnowsOf(k) /\ k.pc = "claim" /\ ~k.late
  BY DEF ClaimToken, At, Typed, TypeOK, Known, KnowsOf
<1>2. k.tok \in Tokens /\ n \in Nat /\ n >= Second
  BY <1>1, TimeAssumption DEF Placed, HasToken, Call
<1>3. \A d \in Calls : d # c => call'[d] = call[d]
  BY DEF ClaimToken, Typed, TypeOK, Go
<1>4. CASE Claimable(k.tok)
  <2>1. /\ used' = [used EXCEPT ![k.tok] = UsedColumn(n)] /\ usedAt' = [usedAt EXCEPT ![k.tok] = n]
        /\ call'[c].pc = "check" /\ call'[c].late = k.late /\ call'[c].tok = k.tok /\ call'[c].now = n
    BY <1>1, <1>4 DEF ClaimToken, Go, Typed, TypeOK, Call
  <2>2. UsedColumn(n) \in 1..n /\ UsedColumn(n) * Second <= n
    BY <1>2, UsedTyped
  <2>3. used'[k.tok] = UsedColumn(n) /\ usedAt'[k.tok] = n
    BY <1>2, <2>1 DEF Typed, TypeOK
  <2>4. ASSUME NEW t \in Tokens
        PROVE  RowOK(t)'
    <3>1. CASE t = k.tok
      <4>1. UNCHANGED <<reported, familyOf, revoked>> /\ RowOK(t)
        BY DEF ClaimToken, families, Known
      <4> QED
        BY <1>2, <2>2, <2>3, <3>1, <4>1 DEF RowOK
    <3>2. CASE t # k.tok
      <4>1. UNCHANGED <<reported, familyOf, revoked>> /\ RowOK(t)
        BY DEF ClaimToken, families, Known
      <4>2. used'[t] = used[t] /\ usedAt'[t] = usedAt[t]
        BY <2>1, <3>2 DEF Typed, TypeOK
      <4> QED
        BY <4>1, <4>2 DEF RowOK
    <3> QED
      BY <3>1, <3>2
  <2>5. KnowsOf(call[c])'
    <3>1. n <= n + grace /\ grace' = grace
      BY <1>2, TimeAssumption DEF Forward, Typed, TypeOK
    <3> QED
      BY <1>1, <2>1, <2>2, <2>3, <3>1 DEF KnowsOf
  <2> QED
    BY <1>3, <2>4, <2>5, CallsStayRight DEF Known
<1>5. CASE ~Claimable(k.tok)
  <2>1. /\ UNCHANGED <<reported, used, usedAt>>
        /\ call'[c].pc \in {"reread", "revoke"} /\ call'[c].late = k.late /\ call'[c].tok = k.tok
    BY <1>1, <1>5 DEF ClaimToken, Typed, TypeOK, Call
  <2>2. KnowsOf(call[c])'
    BY <1>1, <1>5, <2>1 DEF KnowsOf, Claimable
  <2> QED
    BY <1>3, <2>1, <2>2, CallsStayRight, RowsStayRight DEF Known
<1> QED
  BY <1>4, <1>5

LEMMA RereadKnown ==
  ASSUME Typed, Known, Forward, NEW c \in Calls, Reread(c)
  PROVE  Known'
<1> DEFINE k == call[c]
<1>1. k \in Call /\ Placed(k) /\ KnowsOf(k) /\ k.pc = "reread" /\ ~k.late
  BY DEF Reread, At, Typed, TypeOK, Known, KnowsOf
<1>2. k.tok \in Tokens
  BY <1>1 DEF Placed, HasToken
<1>3. UNCHANGED <<reported, used, usedAt, grace>> /\ \A d \in Calls : d # c => call'[d] = call[d]
  BY DEF Reread, tokens, history, Typed, TypeOK
<1>4. CASE WithinGrace(used[k.tok], k.now)
  <2>1. call'[c].pc = "check" /\ call'[c].late = k.late /\ call'[c].tok = k.tok /\ call'[c].now = k.now
    BY <1>1, <1>4 DEF Reread, Typed, TypeOK, Call
  <2> DEFINE m == used[k.tok] * Second
  <2>2. used[k.tok] # 0 /\ m <= usedAt[k.tok] /\ k.now <= m + grace
    BY <1>1, <1>2, <1>4 DEF KnowsOf, Known, RowOK, WithinGrace
  <2>3. used[k.tok] \in Nat /\ grace \in Nat /\ k.now \in Nat /\ usedAt[k.tok] \in Nat
    BY <1>1, <1>2, TimeAssumption DEF Typed, TypeOK, Call
  <2>4. m \in Nat
    BY <2>3, TimeAssumption
  <2> HIDE DEF m
  <2>5. k.now <= usedAt[k.tok] + grace
    BY <2>2, <2>3, <2>4
  <2>6. KnowsOf(call[c])'
    BY <1>1, <1>3, <2>1, <2>2, <2>5 DEF KnowsOf
  <2> QED
    BY <1>3, <2>6, CallsStayRight, RowsStayRight DEF Known
<1>5. CASE ~WithinGrace(used[k.tok], k.now)
  <2>1. call'[c].pc = "revoke" /\ call'[c].late = k.late
    BY <1>1, <1>5 DEF Reread, Typed, TypeOK, Call
  <2> QED
    BY <1>1, <1>3, <2>1, NothingToKnow
<1> QED
  BY <1>4, <1>5

\* The family is revoked before the caller hears of the reuse.
LEMMA RevokeKnown ==
  ASSUME Typed, Known, Forward, NEW c \in Calls, Revoke(c)
  PROVE  Known'
<1> DEFINE k == call[c]
<1>1. k \in Call /\ Placed(k) /\ k.pc = "revoke" /\ call'[c] = Idle
  BY DEF Revoke, At, Typed, TypeOK, Return
<1>2. k.fam \in Families /\ revoked'[k.fam] /\ UNCHANGED <<familyOf, used, usedAt>>
  BY <1>1 DEF Placed, Revoke, Typed, TypeOK, tokens
<1>3. \A d \in Calls : d # c => call'[d] = call[d]
  BY DEF Revoke, Return, Typed, TypeOK
<1>4. KnowsOf(call[c])'
  BY <1>1 DEF KnowsOf, Idle
<1>5. ASSUME NEW t \in Tokens
      PROVE  RowOK(t)'
  <2>1. RowOK(t) /\ (familyOf[t] # None => familyOf[t] \in Families)
    BY DEF Known, Typed, TypeOK
  <2>2. t \in reported' => t \in reported \/ (k.reuse /\ t = k.tok)
    BY DEF Revoke
  <2>3. k.reuse /\ t = k.tok => familyOf[t] = k.fam
    BY <1>1 DEF Placed
  <2> QED
    BY <1>2, <2>1, <2>2, <2>3, NoneAssumption DEF RowOK, Forward
<1> QED
  BY <1>3, <1>4, <1>5, CallsStayRight DEF Known

LEMMA OthersKnown ==
  ASSUME Typed, Known, Forward, NEW c \in Calls,
         \/ \E u \in Users, f \in Families : Login(c, u, f)
         \/ \E t \in Tokens : Issue(c, t)
         \/ Sign(c) \/ AbsoluteTimeout(c) \/ Crash(c)
  PROVE  Known'
<1>1. call[c] \in Call /\ KnowsOf(call[c])
  BY DEF Typed, TypeOK, Known
<1>2. UNCHANGED <<reported, used, usedAt>>
  BY DEF Login, Issue, Sign, AbsoluteTimeout, Crash, tokens, history
<1>3. \A d \in Calls : d # c => call'[d] = call[d]
  BY DEF Login, Issue, Sign, AbsoluteTimeout, Crash, Return, Typed, TypeOK
<1>4. call'[c].pc \notin {"family", "reread", "check"} /\ ~call'[c].late
  <2>1. CASE Sign(c)
    BY <1>1, <2>1 DEF Sign, At, KnowsOf, Typed, TypeOK, Call
  <2>2. CASE Return(c)
    BY <2>2 DEF Return, Idle, Typed, TypeOK
  <2>3. ASSUME NEW u \in Users, NEW f \in Families, Login(c, u, f)
        PROVE  call'[c].pc = "sign" /\ ~call'[c].late
    BY <2>3 DEF Login, Idle, Typed, TypeOK
  <2> QED
    BY <2>1, <2>2, <2>3 DEF Issue, AbsoluteTimeout, Crash
<1> QED
  BY <1>2, <1>3, <1>4, NothingToKnow

LEMMA KnownInvariant == Spec => [](Typed /\ Known)
<1>1. Init => Typed /\ Known
  BY InitTyped DEF Init, Known, RowOK, KnowsOf, Idle
<1>2. (Typed /\ Known) /\ [Next]_vars => (Typed /\ Known)'
  <2> SUFFICES ASSUME Typed, Known, [Next]_vars
               PROVE  Known'
    BY NextTyped
  <2>1. Forward
    BY StepForward
  <2>2. CASE UNCHANGED <<call, used, usedAt, reported>>
    <3>1. \A c \in Calls : KnowsOf(call[c])'
      <4> SUFFICES ASSUME NEW c \in Calls PROVE KnowsOf(call[c])'
        OBVIOUS
      <4>1. KnowsOf(call[c]) /\ Placed(call[c])
        BY DEF Known, Typed
      <4> QED
        BY <2>1, <2>2, <4>1 DEF KnowsOf, Placed, Forward
    <3> QED
      BY <2>1, <2>2, <3>1, RowsStayRight DEF Known
  <2>3. CASE UNCHANGED vars \/ Tick \/ \E u \in Users : RevokeAll(u)
    BY <2>2, <2>3 DEF vars, tokens, history, Tick, RevokeAll
  <2> QED
    BY <2>1, <2>3, PresentKnown, ReadFamilyKnown, ClaimKnown, RereadKnown, RevokeKnown, OthersKnown DEF Next
<1> QED
  BY <1>1, <1>2, PTL DEF Spec

\* Whoever hears of a reuse hears it of a family that is dead already.
THEOREM ReuseTheorem == Spec => []ReuseRevokes
<1>1. Typed /\ Known => ReuseRevokes
  BY DEF Typed, TypeOK, Known, RowOK, ReuseRevokes
<1> QED
  BY <1>1, KnownInvariant, PTL

\* A refresh that starts after the revocation never claims nor issues.
THEOREM RevocationTheorem == Spec => []NoRefreshAfterRevocation
<1>1. Typed /\ Known => NoRefreshAfterRevocation
  BY DEF Known, KnowsOf, NoRefreshAfterRevocation
<1> QED
  BY <1>1, KnownInvariant, PTL

\* Rounding the time of use never lets a replay in after the window.
THEOREM GraceTheorem == Spec => []GraceNotExceeded
<1>1. Typed /\ Known => GraceNotExceeded
  BY DEF Known, KnowsOf, GraceNotExceeded, At
<1> QED
  BY <1>1, KnownInvariant, PTL

(***************************************************************************)
(* One live token.  A family holds one ticket: an unused token, or the     *)
(* right of a call to issue one.  Login makes it, a claim turns the token  *)
(* into the right, and issuing turns it back.                              *)
(***************************************************************************)

Right(k, f) == k.fam = f /\ k.pc \in {"check", "sign", "issue"}
Live(t, f) == familyOf[t] = f /\ used[t] = 0
OneTicket(f) ==
  /\ \A t, u \in Tokens : Live(t, f) /\ Live(u, f) => t = u
  /\ \A c, d \in Calls : Right(call[c], f) /\ Right(call[d], f) => c = d
  /\ \A t \in Tokens, c \in Calls : ~(Live(t, f) /\ Right(call[c], f))
Rooted ==
  /\ \A t \in Tokens : familyOf[t] # None => owner[familyOf[t]] # None
  /\ \A c \in Calls : call[c].pc # "idle" => owner[call[c].fam] # None
Tickets == Rooted /\ (grace = 0 => \A f \in Families : OneTicket(f))

\* No ticket is made, none changes hands.
LEMMA NoNewTicket ==
  ASSUME Typed, Tickets, grace' = grace, NEW f \in Families,
         \A t \in Tokens : Live(t, f)' => Live(t, f),
         \A c \in Calls : Right(call[c], f)' => Right(call[c], f)
  PROVE  (grace = 0 => OneTicket(f))'
BY DEF Tickets, OneTicket

LEMMA RootedKept ==
  ASSUME Typed, Tickets, [Next]_vars
  PROVE  Rooted'
<1>1. \A f \in Families : owner[f] # None => owner'[f] # None
  <2>1. ASSUME NEW c \in Calls, NEW u \in Users, NEW f \in Families, Login(c, u, f)
        PROVE  \A g \in Families : owner[g] # None => owner'[g] # None
    BY <2>1 DEF Login, Typed, TypeOK
  <2> QED
    BY <2>1 DEF Next, vars, families, Tick, RevokeAll, Present, Issue, Sign, AbsoluteTimeout, ReadFamily, ClaimToken,
                Reread, Revoke, Crash
<1>2. \A c \in Calls : call[c].pc # "idle" => call[c].fam \in Families
  BY DEF Typed, Placed
<1>3. \A t \in Tokens : familyOf[t] # None => familyOf[t] \in Families
  BY DEF Typed, TypeOK
<1>4. ASSUME NEW t \in Tokens, familyOf'[t] # None
      PROVE  owner'[familyOf'[t]] # None
  <2>1. CASE familyOf'[t] = familyOf[t]
    BY <1>1, <1>3, <1>4, <2>1 DEF Tickets, Rooted
  <2>2. CASE familyOf'[t] # familyOf[t]
    <3>1. PICK c \in Calls : Issue(c, t)
      BY <2>2 DEF Next, vars, tokens, Tick, Login, RevokeAll, Present, Issue, Sign, AbsoluteTimeout, ReadFamily,
                  ClaimToken, Reread, Revoke, Crash, Typed, TypeOK
    <3>2. familyOf'[t] = call[c].fam /\ call[c].pc # "idle"
      BY <3>1 DEF Issue, At, Typed, TypeOK
    <3> QED
      BY <1>1, <1>2, <3>2 DEF Tickets, Rooted
  <2> QED
    BY <2>1, <2>2
<1>5. ASSUME NEW c \in Calls, call'[c].pc # "idle"
      PROVE  owner'[call'[c].fam] # None
  <2>1. CASE call'[c].fam = call[c].fam /\ call[c].pc # "idle"
    BY <1>1, <1>2, <2>1 DEF Tickets, Rooted
  <2>2. ASSUME NEW u \in Users, NEW f \in Families, Login(c, u, f)
        PROVE  owner'[call'[c].fam] # None
    BY <2>2, NoneAssumption DEF Login, Typed, TypeOK, Idle
  <2>3. ASSUME NEW t \in Tokens, Present(c, t)
        PROVE  owner'[call'[c].fam] # None
    <3>1. call'[c].fam = familyOf[t] /\ familyOf[t] # None
      BY <2>3 DEF Present, Typed, TypeOK, Idle
    <3> QED
      BY <1>1, <1>3, <3>1 DEF Tickets, Rooted
  <2>4. CASE ~(call'[c].fam = call[c].fam /\ call[c].pc # "idle")
    <3>1. call[c] \in Call /\ (call[c] = Idle => call[c].pc = "idle") /\ Idle.pc = "idle"
      BY DEF Typed, TypeOK, Idle
    <3>2. (\E u \in Users, f \in Families : Login(c, u, f)) \/ \E t \in Tokens : Present(c, t)
      <4>1. call'[c] # call[c] /\ call'[c] # Idle
        BY <1>5, <2>4, <3>1
      <4>2. ASSUME NEW d \in Calls, Next, d # c,
                   \/ \E u \in Users, f \in Families : Login(d, u, f)
                   \/ \E t \in Tokens : Present(d, t) \/ Issue(d, t)
                   \/ Sign(d) \/ AbsoluteTimeout(d) \/ ReadFamily(d) \/ ClaimToken(d)
                   \/ Reread(d) \/ Revoke(d) \/ Crash(d)
            PROVE  call'[c] = call[c]
        BY <4>2 DEF Login, Present, Issue, Sign, AbsoluteTimeout, ReadFamily, ClaimToken, Reread, Revoke, Crash, Go,
                    Return, Typed, TypeOK
      <4>3. ASSUME Sign(c) \/ ReadFamily(c) \/ ClaimToken(c) \/ Reread(c)
            PROVE  call'[c] = Idle \/ (call'[c].fam = call[c].fam /\ call[c].pc # "idle")
        BY <4>3 DEF Sign, ReadFamily, ClaimToken, Reread, At, Go, Return, Typed, TypeOK, Call
      <4>4. ASSUME (\E t \in Tokens : Issue(c, t)) \/ AbsoluteTimeout(c) \/ Revoke(c) \/ Crash(c)
            PROVE  call'[c] = Idle
        BY <4>4 DEF Issue, AbsoluteTimeout, Revoke, Crash, Return, Typed, TypeOK
      <4>5. Next /\ ~Tick /\ ~\E u \in Users : RevokeAll(u)
        BY <4>1 DEF vars, Tick, RevokeAll
      <4> QED
        BY <2>4, <4>1, <4>2, <4>3, <4>4, <4>5 DEF Next
    <3> QED
      BY <2>2, <2>3, <3>2
  <2> QED
    BY <2>1, <2>4
<1> QED
  BY <1>4, <1>5 DEF Rooted

LEMMA LoginTicket ==
  ASSUME Typed, Tickets, grace = 0, NEW c \in Calls, NEW u \in Users, NEW f \in Families, Login(c, u, f),
         NEW g \in Families
  PROVE  OneTicket(g)'
<1>1. /\ \A d \in Calls : d # c => call'[d] = call[d]
      /\ call'[c].pc = "sign" /\ call'[c].fam = f /\ UNCHANGED tokens
  BY DEF Login, Typed, TypeOK, Idle
<1>2. OneTicket(g)
  BY DEF Tickets
<1>3. CASE g = f
  <2>1. \A t \in Tokens : ~Live(t, f)
    BY NoneAssumption DEF Login, Live, Tickets, Rooted
  <2>2. \A d \in Calls : ~Right(call[d], f)
    BY DEF Login, Right, Tickets, Rooted
  <2>3. \A d \in Calls : Right(call[d], f)' => d = c
    BY <1>1, <2>2 DEF Right
  <2>4. \A t \in Tokens : ~Live(t, f)'
    BY <1>1, <2>1 DEF Live, tokens
  <2> QED
    BY <1>3, <2>3, <2>4 DEF OneTicket
<1>4. CASE g # f
  <2>1. \A d \in Calls : Right(call[d], g)' => Right(call[d], g)
    BY <1>1, <1>4 DEF Right
  <2>2. \A t \in Tokens : Live(t, g)' => Live(t, g)
    BY <1>1 DEF Live, tokens
  <2> QED
    BY <1>2, <2>1, <2>2 DEF OneTicket
<1> QED
  BY <1>3, <1>4

\* A claim turns the token into the right to issue the next.
LEMMA ClaimTicket ==
  ASSUME Typed, Tickets, grace = 0, NEW c \in Calls, ClaimToken(c), NEW g \in Families
  PROVE  OneTicket(g)'
<1> DEFINE k == call[c]
<1>1. k \in Call /\ Placed(k) /\ k.pc = "claim" /\ OneTicket(g)
  BY DEF ClaimToken, At, Typed, TypeOK, Tickets
<1>2. k.tok \in Tokens /\ familyOf[k.tok] = k.fam
  BY <1>1 DEF Placed, HasToken
<1>3. \A d \in Calls : d # c => call'[d] = call[d]
  BY DEF ClaimToken, Go, Typed, TypeOK
<1>4. CASE Claimable(k.tok) /\ k.fam = g
  <2>1. Live(k.tok, g)
    BY <1>2, <1>4 DEF Live, Claimable
  <2>2. used' = [used EXCEPT ![k.tok] = UsedColumn(k.now)] /\ familyOf' = familyOf
    BY <1>4 DEF ClaimToken
  <2>3. used'[k.tok] # 0
    <3>1. k.now \in Nat /\ k.now >= Second
      BY <1>1, TimeAssumption DEF Call, Placed, HasToken
    <3> QED
      BY <1>2, <2>2, <3>1, UsedTyped DEF Typed, TypeOK
  <2>4. \A t \in Tokens : Live(t, g)' => Live(t, g) /\ t # k.tok
    BY <1>2, <2>2, <2>3 DEF Live, Typed, TypeOK
  <2>5. \A t \in Tokens : ~Live(t, g)'
    BY <1>1, <1>2, <2>1, <2>4 DEF OneTicket
  <2>6. \A d \in Calls : Right(call[d], g)' => d = c
    BY <1>1, <1>2, <1>3, <2>1 DEF OneTicket, Right
  <2> QED
    BY <2>5, <2>6 DEF OneTicket
<1>5. CASE ~(Claimable(k.tok) /\ k.fam = g)
  <2>1. \A t \in Tokens : Live(t, g)' => Live(t, g)
    <3>1. CASE Claimable(k.tok)
      <4>1. familyOf' = familyOf /\ \A t \in Tokens : t # k.tok => used'[t] = used[t]
        BY <3>1 DEF ClaimToken, Typed, TypeOK
      <4> QED
        BY <1>2, <1>5, <3>1, <4>1 DEF Live
    <3>2. CASE ~Claimable(k.tok)
      BY <3>2 DEF ClaimToken, Live
    <3> QED
      BY <3>1, <3>2
  <2>2. ~Right(call[c], g)'
    BY <1>1, <1>5 DEF ClaimToken, Go, Right, Typed, TypeOK, Call
  <2>3. \A d \in Calls : Right(call[d], g)' => Right(call[d], g)
    BY <1>3, <2>2 DEF Right
  <2> QED
    BY <1>1, <2>1, <2>3 DEF OneTicket
<1> QED
  BY <1>4, <1>5

LEMMA IssueTicket ==
  ASSUME Typed, Tickets, grace = 0, NEW c \in Calls, NEW t \in Tokens, Issue(c, t), NEW g \in Families
  PROVE  OneTicket(g)'
<1> DEFINE k == call[c]
<1>1. k.pc = "issue" /\ call' = [call EXCEPT ![c] = Idle] /\ used' = used
      /\ familyOf' = [familyOf EXCEPT ![t] = k.fam] /\ OneTicket(g)
  BY DEF Issue, At, Return, Tickets
<1>2. \A d \in Calls : Right(call[d], g)' => Right(call[d], g) /\ d # c
  BY <1>1 DEF Right, Idle, Typed, TypeOK
<1>3. CASE k.fam = g
  <2>1. Right(k, g)
    BY <1>1, <1>3 DEF Right
  <2>2. \A u \in Tokens : Live(u, g)' => u = t
    BY <1>1, <2>1 DEF Live, OneTicket, Typed, TypeOK
  <2>3. \A d \in Calls : ~Right(call[d], g)'
    BY <1>1, <1>2, <2>1 DEF OneTicket
  <2> QED
    BY <2>2, <2>3 DEF OneTicket
<1>4. CASE k.fam # g
  <2>1. \A u \in Tokens : Live(u, g)' => Live(u, g)
    BY <1>1, <1>4 DEF Live, Typed, TypeOK
  <2> QED
    BY <1>1, <1>2, <2>1 DEF OneTicket
<1> QED
  BY <1>3, <1>4

\* Every other step leaves tickets where they are or loses them.
LEMMA OtherTickets ==
  ASSUME Typed, Tickets, grace = 0, NEW g \in Families,
         \/ UNCHANGED vars \/ Tick \/ \E u \in Users : RevokeAll(u)
         \/ \E c \in Calls :
              \/ \E t \in Tokens : Present(c, t)
              \/ Sign(c) \/ AbsoluteTimeout(c) \/ ReadFamily(c) \/ Reread(c) \/ Revoke(c) \/ Crash(c)
  PROVE  OneTicket(g)'
<1>1. UNCHANGED <<familyOf, used>>
  BY DEF vars, tokens, Tick, RevokeAll, Present, Sign, AbsoluteTimeout, ReadFamily, Reread, Revoke, Crash
<1>2. ASSUME NEW d \in Calls
      PROVE  Right(call[d], g)' => Right(call[d], g)
  <2>1. call[d] \in Call /\ call \in [Calls -> Call]
    BY DEF Typed, TypeOK
  <2>2. ASSUME NEW c \in Calls, NEW t \in Tokens, Present(c, t)
        PROVE  Right(call[d], g)' => Right(call[d], g)
    BY <2>1, <2>2 DEF Present, Right, Idle
  <2>3. ASSUME NEW c \in Calls, Sign(c)
        PROVE  Right(call[d], g)' => Right(call[d], g)
    BY <2>1, <2>3 DEF Sign, At, Right, Call
  <2>4. ASSUME NEW c \in Calls, Return(c)
        PROVE  Right(call[d], g)' => Right(call[d], g)
    BY <2>1, <2>4 DEF Return, Idle, Right
  <2>5. ASSUME NEW c \in Calls, ReadFamily(c) \/ Reread(c)
        PROVE  Right(call[d], g)' => Right(call[d], g)
    <3>1. \A n, m \in Nat : ~WithinGrace(n, m)
      BY DEF WithinGrace
    <3>2. call[c].used \in Nat /\ call[c].now \in Nat /\ (call[c].tok \in Tokens => used[call[c].tok] \in Nat)
      BY TimeAssumption DEF Typed, TypeOK, Call
    <3>3. call[c].pc = "reread" => call[c].tok \in Tokens
      BY DEF Typed, Placed, HasToken
    <3>4. call'[d] = call[d] \/ call'[d].pc \notin {"check", "sign", "issue"}
      <4>1. CASE ReadFamily(c)
        <5>1. ~WithinGrace(call[c].used, call[c].now) BY <3>1, <3>2
        <5>2. \/ Return(c) \/ Go(c, "revoke") \/ Go(c, "claim")
              \/ call' = [call EXCEPT ![c].pc = "revoke", ![c].reuse = TRUE]
          BY <4>1, <5>1 DEF ReadFamily
        <5>3. CASE Return(c) BY <2>1, <5>3 DEF Return, Idle
        <5>4. CASE Go(c, "revoke") \/ Go(c, "claim") BY <2>1, <5>4 DEF Go, Call
        <5>5. CASE call' = [call EXCEPT ![c].pc = "revoke", ![c].reuse = TRUE] BY <2>1, <5>5 DEF Call
        <5> QED BY <5>2, <5>3, <5>4, <5>5
      <4>2. CASE Reread(c)
        <5>1. ~WithinGrace(used[call[c].tok], call[c].now) BY <3>1, <3>2, <3>3, <4>2 DEF Reread, At
        <5>2. call' = [call EXCEPT ![c].pc = "revoke", ![c].reuse = TRUE] BY <4>2, <5>1 DEF Reread
        <5> QED BY <2>1, <5>2 DEF Call
      <4> QED BY <2>5, <4>1, <4>2
    <3> QED BY <3>4 DEF Right
  <2> QED
    BY <2>2, <2>3, <2>4, <2>5 DEF vars, Tick, RevokeAll, AbsoluteTimeout, Revoke, Crash, Right
<1>3. \A t \in Tokens : Live(t, g)' => Live(t, g)
  BY <1>1 DEF Live
<1> QED
  BY <1>2, <1>3 DEF OneTicket, Tickets

LEMMA TicketsInvariant == Spec => [](Typed /\ Tickets)
<1>1. Init => Typed /\ Tickets
  <2> SUFFICES ASSUME Init PROVE Tickets
    BY InitTyped
  <2>1. \A t \in Tokens : familyOf[t] = None
    BY DEF Init
  <2>2. \A c \in Calls : call[c].pc = "idle"
    BY DEF Init, Idle
  <2> QED
    BY <2>1, <2>2, NoneAssumption DEF Tickets, Rooted, OneTicket, Live, Right
<1>2. (Typed /\ Tickets) /\ [Next]_vars => (Typed /\ Tickets)'
  <2> SUFFICES ASSUME Typed, Tickets, [Next]_vars
               PROVE  Tickets'
    BY NextTyped
  <2>1. Rooted'
    BY RootedKept
  <2>2. grace' = grace
    BY StepForward DEF Forward
  <2>3. ASSUME grace = 0, NEW g \in Families
        PROVE  OneTicket(g)'
    BY <2>3, LoginTicket, ClaimTicket, IssueTicket, OtherTickets DEF Next
  <2> QED
    BY <2>1, <2>2, <2>3 DEF Tickets
<1> QED
  BY <1>1, <1>2, PTL DEF Spec

LEMMA AtMostOne ==
  ASSUME NEW S, \A x, y \in S : x = y
  PROVE  S = {} \/ (Cardinality(S) = 1 /\ S # {})
<1>1. CASE S # {}
  <2>1. PICK x \in S : TRUE
    BY <1>1
  <2>2. S = {x}
    BY <2>1
  <2> QED
    BY <1>1, <2>2, FS_Singleton
<1> QED
  BY <1>1

\* Without a grace window no family has two tokens that may still be used, nor
\* one while another is on its way, for any number of racing refreshes.
THEOREM OneTokenTheorem == Spec => []OneLiveToken
<1>1. Typed /\ Tickets => OneLiveToken
  <2> SUFFICES ASSUME Tickets, grace = 0, NEW f \in Families
               PROVE  Cardinality(Unused(f)) + Cardinality(Issuing(f)) <= 1
    BY DEF OneLiveToken
  <2>1. OneTicket(f)
    BY DEF Tickets
  <2>2. \A t, u \in Unused(f) : t = u
    BY <2>1 DEF OneTicket, Unused, Live
  <2>3. \A c, d \in Issuing(f) : c = d
    BY <2>1 DEF OneTicket, Issuing, Right
  <2>4. Unused(f) = {} \/ Issuing(f) = {}
    BY <2>1 DEF OneTicket, Unused, Issuing, Live, Right
  <2>5. Cardinality({}) = 0
    BY FS_EmptySet
  <2> QED
    BY <2>2, <2>3, <2>4, <2>5, AtMostOne
<1> QED
  BY <1>1, TicketsInvariant, PTL


--------------------------------------------------------------------------------
(***************************************************************************)
(* Lockout: type correctness.                                              *)
(***************************************************************************)

LEMMA DurationTyped ==
  ASSUME NEW d \in Seq(Nat \ {0}), d # <<>>, NEW n \in Nat \ {0}
  PROVE  Step(d, n) \in Nat \ {0}
<1>1. Len(d) \in Nat \ {0} /\ \A i \in 1..Len(d) : d[i] \in Nat \ {0}
  OBVIOUS
<1>2. (IF n <= Len(d) THEN n ELSE Len(d)) \in 1..Len(d)
  BY <1>1
<1> QED
  BY <1>1, <1>2 DEF Step

LEMMA EntryTyped ==
  ASSUME tick \in Nat, NEW e \in Entry, NEW ttl \in Nat
  PROVE  /\ Incremented(e, ttl) \in Entry /\ Incremented(e, ttl).value \in Nat \ {0}
         /\ NoEntry \in Entry /\ Stored(e) \in Nat
         /\ \A now \in Nat : LockEntry(now, ttl) \in Entry
BY DEF Entry, Incremented, NoEntry, Stored, LockEntry, Lasting

LEMMA LimitsTyped ==
  ASSUME LockoutTypeOK
  PROVE  tick \in Nat /\ refunds \in Nat /\ errors \in Nat /\ unlocks \in Nat
BY LimitAssumption DEF LockoutTypeOK

\* A sign-in keeps its fields typed whichever of them a step sets.
LEMMA SigningTyped ==
  ASSUME LockoutTypeOK, NEW l \in Logins,
         NEW p, p \in {"idle", "password"} \cup Asking \cup Failing \cup Refunding \cup Ended,
         NEW ip \in Ips \cup {NoIp}, NEW n \in Nat
  PROVE  /\ [login[l] EXCEPT !.pc = p] \in Signing
         /\ [login[l] EXCEPT !.pc = p, !.ip = ip, !.now = n] \in Signing
         /\ [login[l] EXCEPT !.pc = p, !.until = n] \in Signing
         /\ [login[l] EXCEPT !.pc = p, !.now = n] \in Signing
<1>1. login[l] \in Signing
  BY DEF LockoutTypeOK
<1>2. [login[l] EXCEPT !.pc = p] \in Signing
  BY <1>1 DEF Signing
<1>3. [login[l] EXCEPT !.pc = p, !.ip = ip, !.now = n] \in Signing
  BY <1>1 DEF Signing
<1>4. [login[l] EXCEPT !.pc = p, !.until = n] \in Signing
  BY <1>1 DEF Signing
<1>5. [login[l] EXCEPT !.pc = p, !.now = n] \in Signing
  BY <1>1 DEF Signing
<1> QED
  BY <1>2, <1>3, <1>4, <1>5

LEMMA CountsTyped ==
  ASSUME LockoutTypeOK
  PROVE  /\ \A ttl \in Nat : /\ Incremented(fail, ttl) \in Entry /\ Incremented(attempt, ttl) \in Entry
                             /\ Incremented(strike, ttl) \in Entry
                             /\ Incremented(strike, ttl).value \in Nat \ {0}
                             /\ \A i \in Ips : Incremented(ipFail[i], ttl) \in Entry
                                               /\ Incremented(ipFail[i], ttl).value \in Nat \ {0}
         /\ Stored(lock) \in Nat /\ \A i \in Ips : Stored(ipLock[i]) \in Nat
         /\ NoEntry \in Entry
         /\ \A l \in Logins : LockEntry(login[l].now, login[l].wait) \in Entry
         /\ FailureWindow \in Nat /\ StrikeWindow \in Nat
<1>1. tick \in Nat
  BY LimitsTyped
<1>2. \A l \in Logins : login[l].now \in Nat /\ login[l].wait \in Nat
  BY DEF LockoutTypeOK, Signing
<1> QED
  BY <1>1, <1>2, EntryTyped, ConfigAssumption DEF LockoutTypeOK

LEMMA PairTyped ==
  ASSUME LockoutTypeOK, NEW i \in Ips, NEW e \in Entry
  PROVE  /\ [ipFail EXCEPT ![i] = e] \in [Ips -> Entry] /\ [ipLock EXCEPT ![i] = e] \in [Ips -> Entry]
BY DEF LockoutTypeOK

\* The client of a sign-in that is counted against one is known.
Pairing == {"ipLock", "ipFail", "setIpLock", "okIpFail", "okIpLock"}
ClientsKnown == \A l \in Logins : login[l].pc \in Pairing => login[l].ip \in Ips
LockoutTyped == LockoutTypeOK /\ ClientsKnown

\* A step that sets the entries of the account and leaves those of the clients.
LEMMA AccountTyped ==
  ASSUME LockoutTyped, NEW l \in Logins, NEW s \in Signing, s.pc \in Pairing => s.ip \in Ips,
         login' = [login EXCEPT ![l] = s], UNCHANGED pairs, UNCHANGED <<admin, tick, unlocks>>,
         errors' \in 0..MaxErrors,
         fail' \in Entry, attempt' \in Entry, strike' \in Entry, lock' \in Entry,
         checked' \subseteq Logins, failed' \subseteq Logins, struck' \subseteq Logins, refunds' \in Nat
  PROVE  LockoutTyped'
<1>1. LockoutTypeOK'
  BY DEF LockoutTyped, LockoutTypeOK, pairs
<1>2. ClientsKnown'
  BY DEF LockoutTyped, LockoutTypeOK, ClientsKnown
<1> QED
  BY <1>1, <1>2 DEF LockoutTyped

\* A step that sets an entry of a client and leaves those of the account.
LEMMA ClientTyped ==
  ASSUME LockoutTyped, NEW l \in Logins, NEW s \in Signing, s.pc \in Pairing => s.ip \in Ips,
         login' = [login EXCEPT ![l] = s], UNCHANGED account, UNCHANGED <<admin, tick, unlocks>>,
         errors' \in 0..MaxErrors, UNCHANGED counted,
         ipFail' \in [Ips -> Entry], ipLock' \in [Ips -> Entry]
  PROVE  LockoutTyped'
<1>1. LockoutTypeOK'
  BY DEF LockoutTyped, LockoutTypeOK, account, counted
<1>2. ClientsKnown'
  BY DEF LockoutTyped, LockoutTypeOK, ClientsKnown
<1> QED
  BY <1>1, <1>2 DEF LockoutTyped

LEMMA SignInTyped ==
  ASSUME LockoutTyped, NEW l \in Logins,
         signIn(l) \/ ReadLock(l) \/ ReadIpLock(l) \/ verifyPassword(l)
  PROVE  LockoutTyped'
<1>1. LockoutTypeOK /\ ClientsKnown /\ tick \in Nat /\ login \in [Logins -> Signing]
  BY LimitsTyped DEF LockoutTyped, LockoutTypeOK
<1>2. ASSUME NEW s \in Signing, s.pc \in Pairing => s.ip \in Ips, login' = [login EXCEPT ![l] = s],
             UNCHANGED <<account, pairs, counted>>, Elsewhere
      PROVE  LockoutTyped'
  BY <1>1, <1>2, ClientTyped DEF Elsewhere, pairs, LockoutTypeOK
<1>3. ASSUME NEW p \in {"idle", "password"} \cup Asking \cup Failing \cup Refunding \cup Ended,
             NEW ip \in Ips \cup {NoIp}, NEW n \in Nat
      PROVE  /\ [login[l] EXCEPT !.pc = p] \in Signing
             /\ [login[l] EXCEPT !.pc = p, !.ip = ip, !.now = n] \in Signing
             /\ [login[l] EXCEPT !.pc = p, !.until = n] \in Signing
             /\ [login[l] EXCEPT !.pc = p, !.now = n] \in Signing
  BY <1>1, <1>3, SigningTyped
<1>4. CASE signIn(l)
  <2>1. PICK ip \in Ips \cup {NoIp} :
          login' = [login EXCEPT ![l].pc = "lock", ![l].ip = ip, ![l].now = tick]
    BY <1>4 DEF signIn
  <2> DEFINE s == [login[l] EXCEPT !.pc = "lock", !.ip = ip, !.now = tick]
  <2>2. s \in Signing /\ s.pc = "lock"
    BY <1>1, <1>3 DEF Asking, Signing
  <2>3. login' = [login EXCEPT ![l] = s]
    BY <2>1
  <2> QED
    BY <1>2, <1>4, <2>2, <2>3 DEF signIn, Pairing
<1>5. ASSUME NEW n \in Nat, Decides(l, n), UNCHANGED <<account, pairs, counted>>, Elsewhere
      PROVE  LockoutTyped'
  <2> DEFINE p == IF n <= login[l].now THEN "slot" ELSE "refused"
             s == [login[l] EXCEPT !.pc = p, !.until = 0]
  <2>1. p \in {"slot", "refused"} /\ p \notin Pairing
    BY DEF Pairing
  <2>2. s \in Signing /\ s.pc = p
    <3>1. p \in Asking \cup Ended
      BY <2>1 DEF Asking, Ended
    <3> HIDE DEF p
    <3>2. s \in Signing
      BY <1>3, <3>1
    <3>3. login[l] \in Signing
      BY <1>1
    <3> QED
      BY <3>2, <3>3 DEF Signing
  <2>3. login' = [login EXCEPT ![l] = s]
    BY <1>5 DEF Decides
  <2> QED
    BY <1>2, <1>5, <2>1, <2>2, <2>3
<1>6. CASE ReadLock(l)
  <2>1. Stored(lock) \in Nat
    BY <1>1, CountsTyped
  <2>2. CASE Decides(l, Stored(lock))
    BY <1>5, <1>6, <2>1, <2>2 DEF ReadLock
  <2>3. CASE login[l].ip # NoIp /\ login' = [login EXCEPT ![l].pc = "ipLock", ![l].until = Stored(lock)]
    <3> DEFINE s == [login[l] EXCEPT !.pc = "ipLock", !.until = Stored(lock)]
    <3>1. s \in Signing /\ s.ip \in Ips
      BY <1>1, <1>3, <2>1, <2>3 DEF Asking, Signing
    <3>2. login' = [login EXCEPT ![l] = s]
      BY <2>3
    <3> QED
      BY <1>2, <1>6, <3>1, <3>2 DEF ReadLock
  <2> QED
    BY <1>6, <2>2, <2>3 DEF ReadLock
<1>7. CASE ReadIpLock(l)
  <2>1. login[l].ip \in Ips /\ login[l].until \in Nat
    BY <1>1, <1>7 DEF ReadIpLock, Doing, ClientsKnown, Pairing, Signing
  <2>2. Larger(login[l].until, Stored(ipLock[login[l].ip])) \in Nat
    BY <1>1, <2>1, CountsTyped DEF Larger
  <2> QED
    BY <1>5, <1>7, <2>2 DEF ReadIpLock
<1>8. CASE verifyPassword(l)
  <2>1. [login[l] EXCEPT !.pc = "okFail"] \in Signing /\ [login[l] EXCEPT !.pc = "okFail"].pc = "okFail"
    <3>1. "okFail" \in Refunding
      BY DEF Refunding
    <3> QED
      BY <1>1, <1>3, <3>1 DEF Signing
  <2>2. [login[l] EXCEPT !.pc = "fail", !.now = tick] \in Signing
        /\ [login[l] EXCEPT !.pc = "fail", !.now = tick].pc = "fail"
    <3>1. "fail" \in Failing
      BY DEF Failing
    <3> QED
      BY <1>1, <1>3, <3>1 DEF Signing
  <2> QED
    BY <1>2, <1>8, <2>1, <2>2 DEF verifyPassword, Goes, Pairing
<1> QED
  BY <1>4, <1>6, <1>7, <1>8


\* The two ways a step leaves a sign-in once its password is checked.
PCs == {"idle", "password"} \cup Asking \cup Failing \cup Refunding \cup Ended
Proceeds(l, p, w) ==
  Goes(l, p) \/ (w \in Nat /\ login' = [login EXCEPT ![l].pc = p, ![l].wait = w])

LEMMA ProceedsTyped ==
  ASSUME LockoutTyped, NEW l \in Logins, NEW p \in PCs, NEW w, Proceeds(l, p, w)
  PROVE  \E s \in Signing : s.pc = p /\ s.ip = login[l].ip /\ login' = [login EXCEPT ![l] = s]
<1>1. login \in [Logins -> Signing] /\ login[l] \in Signing
  BY DEF LockoutTyped, LockoutTypeOK
<1>2. CASE Goes(l, p)
  <2> DEFINE s == [login[l] EXCEPT !.pc = p]
  <2>1. s \in Signing /\ s.pc = p /\ s.ip = login[l].ip
    BY <1>1 DEF Signing, PCs
  <2> QED
    BY <1>2, <2>1 DEF Goes
<1>3. CASE w \in Nat /\ login' = [login EXCEPT ![l].pc = p, ![l].wait = w]
  <2> DEFINE s == [login[l] EXCEPT !.pc = p, !.wait = w]
  <2>1. s \in Signing /\ s.pc = p /\ s.ip = login[l].ip
    BY <1>1, <1>3 DEF Signing, PCs
  <2> QED
    BY <1>3, <2>1
<1> QED
  BY <1>2, <1>3 DEF Proceeds

LEMMA AccountStepTyped ==
  ASSUME LockoutTyped, NEW l \in Logins, NEW p \in PCs, NEW w, Proceeds(l, p, w),
         p \in Pairing => login[l].ip \in Ips,
         UNCHANGED pairs, UNCHANGED <<admin, tick, unlocks>>, errors' \in 0..MaxErrors,
         fail' \in Entry, attempt' \in Entry, strike' \in Entry, lock' \in Entry,
         checked' \subseteq Logins, failed' \subseteq Logins, struck' \subseteq Logins, refunds' \in Nat
  PROVE  LockoutTyped'
BY ProceedsTyped, AccountTyped

LEMMA ClientStepTyped ==
  ASSUME LockoutTyped, NEW l \in Logins, NEW p \in PCs, NEW w, Proceeds(l, p, w),
         p \in Pairing => login[l].ip \in Ips,
         UNCHANGED account, UNCHANGED <<admin, tick, unlocks>>, errors' \in 0..MaxErrors,
         UNCHANGED counted, ipFail' \in [Ips -> Entry], ipLock' \in [Ips -> Entry]
  PROVE  LockoutTyped'
BY ProceedsTyped, ClientTyped

\* What counts in the store keeps its entries typed.
LEMMA CountingTyped ==
  ASSUME LockoutTyped, NEW l \in Logins
  PROVE  /\ CountSlot => attempt' \in Entry /\ refunds' \in Nat
         /\ CountFailure(l) => fail' \in Entry /\ failed' \subseteq Logins
         /\ CountStrike => strike' \in Entry /\ strike'.value \in Nat \ {0}
         /\ login[l].ip \in Ips /\ CountPair(l) =>
              ipFail' \in [Ips -> Entry] /\ ipFail'[login[l].ip].value \in Nat \ {0}
<1>1. LockoutTypeOK /\ refunds \in Nat
  BY LimitsTyped DEF LockoutTyped
<1>2. CountSlot => attempt' \in Entry /\ refunds' \in Nat
  BY <1>1, CountsTyped DEF CountSlot
<1>3. CountFailure(l) => fail' \in Entry /\ failed' \subseteq Logins
  BY <1>1, CountsTyped DEF CountFailure, LockoutTypeOK
<1>4. CountStrike => strike' \in Entry /\ strike'.value \in Nat \ {0}
  BY <1>1, CountsTyped DEF CountStrike
<1>5. ASSUME login[l].ip \in Ips, CountPair(l)
      PROVE  ipFail' \in [Ips -> Entry] /\ ipFail'[login[l].ip].value \in Nat \ {0}
  <2> DEFINE i == login[l].ip
             e == Incremented(ipFail[i], FailureWindow)
  <2>1. e \in Entry /\ e.value \in Nat \ {0}
    BY <1>1, <1>5, CountsTyped
  <2>2. ipFail' = [ipFail EXCEPT ![i] = e]
    BY <1>5 DEF CountPair
  <2>3. [ipFail EXCEPT ![i] = e] \in [Ips -> Entry] /\ ipFail \in [Ips -> Entry]
    BY <1>1, <1>5, <2>1, PairTyped DEF LockoutTypeOK
  <2> QED
    BY <1>5, <2>1, <2>2, <2>3
<1> QED
  BY <1>2, <1>3, <1>4, <1>5

LEMMA ReserveTyped ==
  ASSUME LockoutTyped, NEW l \in Logins, Reserve(l)
  PROVE  LockoutTyped'
<1>1. attempt' \in Entry /\ refunds' \in Nat
  BY CountingTyped DEF Reserve
<1>2. UNCHANGED <<fail, strike, lock, pairs, failed, struck>> /\ Elsewhere
  BY DEF Reserve, CountSlot
<1>3. checked' \subseteq Logins
  BY DEF Reserve, LockoutTyped, LockoutTypeOK
<1>4. /\ fail' \in Entry /\ strike' \in Entry /\ lock' \in Entry /\ errors' \in 0..MaxErrors
      /\ failed' \subseteq Logins /\ struck' \subseteq Logins
  BY <1>2 DEF LockoutTyped, LockoutTypeOK, Elsewhere
<1>5. \E p \in {"refused", "password"} : Goes(l, p)
  BY DEF Reserve
<1>6. {"refused", "password"} \subseteq PCs \ Pairing
  BY DEF PCs, Pairing, Ended
<1>7. PICK p \in PCs : p \notin Pairing /\ Proceeds(l, p, 0)
  BY <1>5, <1>6 DEF Proceeds
<1> QED
  BY <1>1, <1>2, <1>3, <1>4, <1>7, AccountStepTyped DEF Elsewhere

LEMMA AccountFailureTyped ==
  ASSUME LockoutTyped, NEW l \in Logins,
         Fail(l) \/ Strike(l) \/ ForgetFailures(l) \/ ForgetSlots(l) \/ SetLock(l)
  PROVE  LockoutTyped'
<1>1. LockoutTypeOK /\ NoEntry \in Entry /\ LockEntry(login[l].now, login[l].wait) \in Entry
  BY CountsTyped DEF LockoutTyped
<1>2. login[l].ip \in Ips \cup {NoIp}
  BY <1>1 DEF LockoutTypeOK, Signing
<1>3. Pair(l) \in PCs /\ (Pair(l) \in Pairing => login[l].ip \in Ips)
  BY <1>2 DEF Pair, PCs, Pairing, Failing, Ended
<1>4. CASE Fail(l)
  <2>1. UNCHANGED <<attempt, strike, lock, pairs, checked, struck, refunds>> /\ Elsewhere
        /\ fail' \in Entry /\ failed' \subseteq Logins
    BY <1>4, CountingTyped DEF Fail, CountFailure
  <2>2. PICK p \in {"strike", Pair(l)} : Goes(l, p)
    BY <1>4 DEF Fail
  <2>3. p \in PCs /\ (p \in Pairing => login[l].ip \in Ips) /\ Proceeds(l, p, 0)
    BY <1>3, <2>2 DEF PCs, Pairing, Failing, Proceeds
  <2> QED
    BY <1>1, <2>1, <2>3, AccountStepTyped DEF LockoutTypeOK, Elsewhere
<1>5. CASE Strike(l)
  <2>1. UNCHANGED <<fail, attempt, lock, pairs, checked, failed, refunds>> /\ Elsewhere
        /\ strike' \in Entry /\ strike'.value \in Nat \ {0} /\ struck' \subseteq Logins
    BY <1>1, <1>5, CountingTyped DEF Strike, CountStrike, LockoutTypeOK
  <2>2. Step(LockFor, strike'.value) \in Nat
    BY <2>1, DurationTyped, ConfigAssumption
  <2>3. "unfail" \in PCs /\ "unfail" \notin Pairing /\ Proceeds(l, "unfail", Step(LockFor, strike'.value))
    BY <1>5, <2>2 DEF Strike, PCs, Pairing, Failing, Proceeds
  <2> QED
    BY <1>1, <2>1, <2>3, AccountStepTyped DEF LockoutTypeOK, Elsewhere
<1>6. CASE ForgetFailures(l) \/ ForgetSlots(l)
  <2>1. PICK p \in {"unslot", "setLock"} : Goes(l, p)
    BY <1>6 DEF ForgetFailures, ForgetSlots
  <2>2. p \in PCs /\ p \notin Pairing /\ Proceeds(l, p, 0)
    BY <2>1 DEF PCs, Pairing, Failing, Proceeds
  <2>3. UNCHANGED <<strike, lock, pairs, counted>> /\ Elsewhere
        /\ fail' \in {fail, NoEntry} /\ attempt' \in {attempt, NoEntry}
    BY <1>6 DEF ForgetFailures, ForgetSlots
  <2>4. UNCHANGED <<strike, lock, pairs, checked, failed, struck, refunds, admin, tick, errors, unlocks>>
    BY <2>3 DEF counted, Elsewhere
  <2>5. fail' \in Entry /\ attempt' \in Entry
    BY <1>1, <2>3 DEF LockoutTypeOK
  <2> QED
    BY <1>1, <2>2, <2>4, <2>5, AccountStepTyped DEF LockoutTypeOK
<1>7. CASE SetLock(l)
  <2>1. UNCHANGED <<fail, attempt, strike, pairs, counted>> /\ Elsewhere
        /\ lock' \in Entry /\ Proceeds(l, Pair(l), 0)
    BY <1>1, <1>7 DEF SetLock, Proceeds
  <2>2. UNCHANGED <<fail, attempt, strike, pairs, checked, failed, struck, refunds, admin, tick, errors, unlocks>>
    BY <2>1 DEF counted, Elsewhere
  <2> QED
    BY <1>1, <1>3, <2>1, <2>2, AccountStepTyped DEF LockoutTypeOK
<1> QED
  BY <1>4, <1>5, <1>6, <1>7


LEMMA ClientFailureTyped ==
  ASSUME LockoutTyped, NEW l \in Logins, FailPair(l) \/ SetIpLock(l)
  PROVE  LockoutTyped'
<1>1. LockoutTypeOK /\ login[l].ip \in Ips
  BY DEF LockoutTyped, ClientsKnown, Pairing, FailPair, SetIpLock, Doing
<1>2. "wrong" \in PCs \ Pairing /\ "setIpLock" \in PCs
  BY DEF PCs, Pairing, Failing, Ended
<1>3. CASE FailPair(l)
  <2> DEFINE hits == ipFail'[login[l].ip].value
  <2>1. UNCHANGED <<account, ipLock, counted>> /\ Elsewhere
        /\ ipFail' \in [Ips -> Entry] /\ hits \in Nat \ {0}
    BY <1>1, <1>3, CountingTyped DEF FailPair, CountPair
  <2>2. CASE hits <= Grace /\ Goes(l, "wrong")
    <3>1. Proceeds(l, "wrong", 0)
      BY <2>2 DEF Proceeds
    <3> QED
      BY <1>1, <1>2, <2>1, <3>1, ClientStepTyped DEF LockoutTypeOK, Elsewhere
  <2>3. CASE hits > Grace
             /\ login' = [login EXCEPT ![l].pc = "setIpLock", ![l].wait = Step(DelayFor, hits - Grace)]
    <3>1. hits - Grace \in Nat \ {0}
      <4>1. \A n \in Nat : n > Grace => n - Grace \in Nat \ {0}
        BY ConfigAssumption
      <4>2. hits \in Nat /\ hits > Grace
        BY <2>1, <2>3
      <4> HIDE DEF hits
      <4> QED
        BY <4>1, <4>2
    <3>2. Step(DelayFor, hits - Grace) \in Nat
      BY <3>1, DurationTyped, ConfigAssumption
    <3>3. Proceeds(l, "setIpLock", Step(DelayFor, hits - Grace))
      BY <2>3, <3>2 DEF Proceeds
    <3> QED
      BY <1>1, <1>2, <2>1, <3>3, ClientStepTyped DEF LockoutTypeOK, Elsewhere
  <2> QED
    BY <1>3, <2>2, <2>3 DEF FailPair
<1>4. CASE SetIpLock(l)
  <2>1. UNCHANGED <<account, ipFail, counted>> /\ Elsewhere /\ Proceeds(l, "wrong", 0)
    BY <1>4 DEF SetIpLock, Proceeds
  <2>2. LockEntry(login[l].now, login[l].wait) \in Entry
    BY <1>1, CountsTyped
  <2>3. ipLock' \in [Ips -> Entry]
    BY <1>1, <1>4, <2>2, PairTyped DEF SetIpLock
  <2> QED
    BY <1>1, <1>2, <2>1, <2>3, ClientStepTyped DEF LockoutTypeOK, Elsewhere
<1> QED
  BY <1>3, <1>4

LEMMA SuccessTyped ==
  ASSUME LockoutTyped, NEW l \in Logins, recordSuccess(l)
  PROVE  LockoutTyped'
<1>1. LockoutTypeOK /\ NoEntry \in Entry /\ refunds \in Nat
  BY CountsTyped, LimitsTyped DEF LockoutTyped
<1>2. login[l].ip \in Ips \cup {NoIp} /\ (login[l].pc \in Pairing => login[l].ip \in Ips)
  BY <1>1 DEF LockoutTyped, ClientsKnown, LockoutTypeOK, Signing
<1>3. CASE login[l].pc \in {"okFail", "okSlot", "okStrike"}
  <2>1. PICK p \in Refunding \cup {"in"} : Goes(l, p) /\ (p \in Pairing => login[l].ip \in Ips)
    BY <1>2, <1>3 DEF recordSuccess, Doing, Refunding, Pairing
  <2>2. p \in PCs /\ Proceeds(l, p, 0)
    BY <2>1 DEF PCs, Ended, Proceeds
  <2>3. UNCHANGED <<lock, pairs, checked, failed, struck, admin, tick, errors, unlocks>>
    BY <1>3 DEF recordSuccess, Doing, RefundSlots, counted, Elsewhere
  <2>4. /\ fail' \in {fail, NoEntry} /\ attempt' \in {attempt, NoEntry}
        /\ strike' \in {strike, NoEntry} /\ refunds' \in {refunds, refunds + 1}
    BY <1>3 DEF recordSuccess, Doing, RefundSlots, counted
  <2>5. fail' \in Entry /\ attempt' \in Entry /\ strike' \in Entry /\ refunds' \in Nat
    BY <1>1, <2>4 DEF LockoutTypeOK
  <2> QED
    BY <1>1, <2>1, <2>2, <2>3, <2>5, AccountStepTyped DEF LockoutTypeOK
<1>4. CASE login[l].pc \in {"okIpFail", "okIpLock"}
  <2>1. login[l].ip \in Ips
    BY <1>2, <1>4 DEF Pairing
  <2>2. PICK p \in {"okIpLock", "in"} : Goes(l, p)
    BY <1>4 DEF recordSuccess, Doing
  <2>3. p \in PCs /\ Proceeds(l, p, 0)
    BY <2>2 DEF PCs, Refunding, Ended, Proceeds
  <2>4. UNCHANGED <<account, counted>> /\ Elsewhere
    BY <1>4 DEF recordSuccess, Doing
  <2>5. /\ ipFail' \in {ipFail, [ipFail EXCEPT ![login[l].ip] = NoEntry]}
        /\ ipLock' \in {ipLock, [ipLock EXCEPT ![login[l].ip] = NoEntry]}
    BY <1>4 DEF recordSuccess, Doing
  <2>6. ipFail' \in [Ips -> Entry] /\ ipLock' \in [Ips -> Entry]
    BY <1>1, <2>1, <2>5, PairTyped DEF LockoutTypeOK
  <2> QED
    BY <1>1, <2>1, <2>3, <2>4, <2>6, ClientStepTyped DEF LockoutTypeOK, Elsewhere
<1> QED
  BY <1>3, <1>4 DEF recordSuccess, Doing

LEMMA StoreFailsTyped ==
  ASSUME LockoutTyped, NEW l \in Logins, StoreFails(l)
  PROVE  LockoutTyped'
<1>1. LockoutTypeOK /\ errors' \in 0..MaxErrors /\ UNCHANGED <<admin, tick, unlocks>>
  <2>1. errors \in 0..MaxErrors /\ errors < MaxErrors /\ errors' = errors + 1
    BY DEF LockoutTyped, LockoutTypeOK, StoreFails, StoreError
  <2> QED
    BY <2>1, LimitAssumption DEF LockoutTyped, StoreFails, StoreError
<1>2. PICK p \in {"refused", "password", "wrong", "in"} : Goes(l, p)
  BY DEF StoreFails, Excused
<1>3. p \in PCs /\ p \notin Pairing /\ Proceeds(l, p, 0)
  BY <1>2 DEF PCs, Ended, Pairing, Proceeds
<1>4. CASE UNCHANGED <<account, pairs, failed, struck, refunds>>
  <2>1. checked' \subseteq Logins
    BY <1>1 DEF LockoutTypeOK, StoreFails
  <2> QED
    BY <1>1, <1>3, <1>4, <2>1, AccountStepTyped DEF LockoutTypeOK, account
<1>5. CASE Doing(l, "ipFail") /\ CountPair(l)
  <2>1. login[l].ip \in Ips
    BY <1>5 DEF LockoutTyped, ClientsKnown, Pairing, Doing
  <2>2. UNCHANGED <<account, ipLock, counted>> /\ ipFail' \in [Ips -> Entry]
    BY <1>5, <2>1, CountingTyped DEF CountPair
  <2> QED
    BY <1>1, <1>3, <2>2, ClientStepTyped DEF LockoutTypeOK
<1>6. CASE CountSlot
  <2>1. attempt' \in Entry /\ refunds' \in Nat /\ UNCHANGED <<fail, strike, lock, pairs, failed, struck>>
    BY <1>6, CountingTyped DEF CountSlot
  <2>2. checked' \subseteq Logins
    BY <1>1 DEF LockoutTypeOK, StoreFails
  <2> QED
    BY <1>1, <1>3, <2>1, <2>2, AccountStepTyped DEF LockoutTypeOK
<1>7. CASE CountFailure(l)
  <2>1. /\ fail' \in Entry /\ failed' \subseteq Logins
        /\ UNCHANGED <<attempt, strike, lock, pairs, checked, struck, refunds>>
    BY <1>7, CountingTyped DEF CountFailure
  <2> QED
    BY <1>1, <1>3, <2>1, AccountStepTyped DEF LockoutTypeOK
<1>8. CASE CountStrike /\ UNCHANGED struck
  <2>1. strike' \in Entry /\ UNCHANGED <<fail, attempt, lock, pairs, checked, failed, struck, refunds>>
    BY <1>8, CountingTyped DEF CountStrike
  <2> QED
    BY <1>1, <1>3, <2>1, AccountStepTyped DEF LockoutTypeOK
<1> QED
  BY <1>4, <1>5, <1>6, <1>7, <1>8 DEF StoreFails

LEMMA UnlockTyped ==
  ASSUME LockoutTyped, unlock \/ UnlockStep \/ UnlockFails
  PROVE  LockoutTyped'
<1>1. LockoutTypeOK /\ NoEntry \in Entry /\ refunds \in Nat
  BY CountsTyped, LimitsTyped DEF LockoutTyped
<1>2. UNCHANGED <<login, tick>>
  BY DEF unlock, UnlockStep, UnlockFails, StoreError
<1>3. ClientsKnown'
  BY <1>2 DEF LockoutTyped, ClientsKnown
<1>4. CASE unlock
  <2>1. unlocks' \in 0..MaxUnlocks
    BY <1>1, <1>4, LimitAssumption DEF LockoutTypeOK, unlock
  <2>2. admin' \in Unlocking
    BY <1>1, <1>4 DEF LockoutTypeOK, unlock, Unlocking
  <2>3. UNCHANGED <<fail, attempt, strike, ipFail, ipLock, login, tick, errors, checked, failed, struck, refunds>>
        /\ lock' = NoEntry
    BY <1>4 DEF unlock, pairs, counted
  <2> QED
    BY <1>1, <1>3, <2>1, <2>2, <2>3 DEF LockoutTyped, LockoutTypeOK
<1>5. CASE UnlockFails
  <2>1. errors' \in 0..MaxErrors
    BY <1>1, <1>5, LimitAssumption DEF LockoutTypeOK, UnlockFails, StoreError
  <2>2. admin' \in Unlocking
    BY <1>5 DEF UnlockFails, Unlocking
  <2>3. UNCHANGED <<fail, attempt, strike, lock, ipFail, ipLock, login, tick, unlocks, checked, failed, struck, refunds>>
    BY <1>5 DEF UnlockFails, StoreError, account, pairs, counted
  <2> QED
    BY <1>1, <1>3, <2>1, <2>2, <2>3 DEF LockoutTyped, LockoutTypeOK
<1>6. CASE UnlockStep
  <2>1. UNCHANGED <<login, tick, errors, unlocks>>
    BY <1>6 DEF UnlockStep
  <2>2. admin' \in Unlocking
    <3>1. admin \in Unlocking
      BY <1>1 DEF LockoutTypeOK
    <3> QED
      BY <1>6, <3>1 DEF UnlockStep, Unlocking, Turns, Lists
  <2>3. UNCHANGED <<lock, checked, failed, struck>>
    BY <1>6 DEF UnlockStep, Lists, RefundSlots, account, pairs, counted
  <2>4. /\ fail' \in {fail, NoEntry} /\ attempt' \in {attempt, NoEntry}
        /\ strike' \in {strike, NoEntry} /\ refunds' \in {refunds, refunds + 1}
    BY <1>6 DEF UnlockStep, Lists, RefundSlots, account, counted
  <2>5. ipFail' \in [Ips -> Entry] /\ ipLock' \in [Ips -> Entry]
    <3>1. admin.left \subseteq Ips /\ ipFail \in [Ips -> Entry] /\ ipLock \in [Ips -> Entry]
      BY <1>1 DEF LockoutTypeOK, Unlocking
    <3>2. \/ UNCHANGED ipFail
          \/ \E i \in admin.left : ipFail' = [ipFail EXCEPT ![i] = NoEntry]
      BY <1>6 DEF UnlockStep, Lists, pairs
    <3>3. \/ UNCHANGED ipLock
          \/ \E i \in admin.left : ipLock' = [ipLock EXCEPT ![i] = NoEntry]
      BY <1>6 DEF UnlockStep, Lists, pairs
    <3> QED
      BY <1>1, <3>1, <3>2, <3>3, PairTyped
  <2>6. fail' \in Entry /\ attempt' \in Entry /\ strike' \in Entry /\ refunds' \in Nat
    BY <1>1, <2>4 DEF LockoutTypeOK
  <2> QED
    BY <1>1, <1>3, <2>1, <2>2, <2>3, <2>5, <2>6 DEF LockoutTyped, LockoutTypeOK
<1> QED
  BY <1>4, <1>5, <1>6

LEMMA LockoutNextTyped ==
  ASSUME LockoutTyped, [LockoutNext]_lockoutVars
  PROVE  LockoutTyped'
<1>1. ASSUME NEW l \in Logins, LoginStep(l) \/ StoreFails(l)
      PROVE  LockoutTyped'
  BY <1>1, SignInTyped, ReserveTyped, AccountFailureTyped, ClientFailureTyped, SuccessTyped,
     StoreFailsTyped DEF LoginStep
<1>2. CASE Passes
  <2>1. tick' \in 0..LastTick
    BY <1>2, LimitAssumption DEF Passes, LockoutTyped, LockoutTypeOK
  <2> QED
    BY <1>2, <2>1 DEF Passes, LockoutTyped, LockoutTypeOK, ClientsKnown, account, pairs, counted
<1>3. CASE UNCHANGED lockoutVars
  BY <1>3 DEF lockoutVars, LockoutTyped, LockoutTypeOK, ClientsKnown, account, pairs, counted
<1> QED
  BY <1>1, <1>2, <1>3, UnlockTyped DEF LockoutNext

LEMMA LockoutInitTyped == ASSUME LockoutInit PROVE LockoutTyped
<1>1. NoEntry \in Entry
  BY DEF NoEntry, Entry
<1>2. \A l \in Logins : login[l].pc = "idle" /\ login[l] \in Signing
  BY DEF LockoutInit, Signing
<1>3. login \in [Logins -> Signing]
  BY <1>2 DEF LockoutInit
<1>4. LockoutTypeOK
  BY <1>1, <1>3, LimitAssumption DEF LockoutInit, LockoutTypeOK, Unlocking
<1>5. ClientsKnown
  BY <1>2 DEF ClientsKnown, Pairing
<1> QED
  BY <1>4, <1>5 DEF LockoutTyped

\* Counters, locks and the locals of every sign-in keep their types.
THEOREM LockoutTypeCorrect == LockoutSpec => []LockoutTypeOK
<1>1. LockoutTyped => LockoutTypeOK
  BY DEF LockoutTyped
<1> QED
  BY <1>1, LockoutInitTyped, LockoutNextTyped, PTL DEF LockoutSpec


(***************************************************************************)
(* Lockout: where a sign-in that counted a failure or a strike may be.     *)
(***************************************************************************)

Delayed == {"setIpLock", "wrong"}
Locked == Delayed \cup {"setLock", "ipFail"}
InStrike == Locked \cup {"unfail", "unslot"}
Once(l) ==
  /\ l \in failed => login[l].pc \in InStrike \cup {"strike"}
  /\ login[l].pc \in InStrike \cup {"strike"} => l \in failed \/ login[l].pc = "wrong"
  /\ l \in struck => login[l].pc \in InStrike
  /\ login[l].pc \in {"unfail", "unslot"} => l \in struck
Ordered == LockoutTyped /\ \A l \in Logins : Once(l)

\* What a step of one sign-in changes of itself, of the others and of the history.
Past(l) ==
  /\ login[l].pc \in Locked => login'[l].pc \in Locked
  /\ login[l].pc \in Delayed => login'[l].pc \in Delayed
  /\ login[l].pc # "idle" => login'[l].ip = login[l].ip
Alone(l) ==
  /\ \A m \in Logins \ {l} : login'[m] = login[m]
  /\ failed \subseteq failed' /\ failed' \subseteq failed \cup {l}
  /\ struck \subseteq struck' /\ struck' \subseteq struck \cup {l}

LEMMA Moved ==
  ASSUME LockoutTyped, NEW l \in Logins, LoginStep(l) \/ StoreFails(l)
  PROVE  /\ \A m \in Logins \ {l} : login'[m] = login[m]
         /\ login'[l].pc \in PCs
         /\ \A p : Goes(l, p) => login'[l].pc = p /\ login'[l].ip = login[l].ip
         /\ login[l].pc # "idle" => login'[l].ip = login[l].ip
<1>1. login \in [Logins -> Signing] /\ login[l] \in Signing /\ login' \in [Logins -> Signing]
  <2>1. [LockoutNext]_lockoutVars
    BY DEF LockoutNext
  <2> QED
    BY <2>1, LockoutNextTyped DEF LockoutTyped, LockoutTypeOK
<1>2. \A p : Goes(l, p) => \A m \in Logins : login'[m] = IF m = l THEN [login[l] EXCEPT !.pc = p] ELSE login[m]
  BY <1>1 DEF Goes
<1>3. \A p : Goes(l, p) => login'[l].pc = p /\ login'[l].ip = login[l].ip
  BY <1>1, <1>2 DEF Signing
<1>4. \A p, w : Proceeds(l, p, w) => /\ login'[l].pc = p /\ login'[l].ip = login[l].ip
                                    /\ \A m \in Logins \ {l} : login'[m] = login[m]
  BY <1>1, <1>2, <1>3 DEF Proceeds, Signing
<1>5. \/ \E p, w : Proceeds(l, p, w)
      \/ \E p, n : login' = [login EXCEPT ![l].pc = p, ![l].until = n]
      \/ \E p, n : login' = [login EXCEPT ![l].pc = p, ![l].now = n]
      \/ signIn(l)
  <2>1. CASE \E p : Goes(l, p)
    BY <2>1 DEF Proceeds
  <2>2. CASE Strike(l)
    <3>1. strike'.value \in Nat \ {0}
      BY <2>2, CountingTyped DEF Strike
    <3>2. Step(LockFor, strike'.value) \in Nat
      BY <3>1, DurationTyped, ConfigAssumption
    <3> QED
      BY <2>2, <3>2 DEF Strike, Proceeds
  <2>3. CASE FailPair(l)
    <3>1. ASSUME ipFail'[login[l].ip].value > Grace
          PROVE  Step(DelayFor, ipFail'[login[l].ip].value - Grace) \in Nat
      <4> DEFINE hits == ipFail'[login[l].ip].value
      <4>1. login[l].ip \in Ips
        BY <2>3 DEF FailPair, Doing, LockoutTyped, ClientsKnown, Pairing
      <4>2. hits \in Nat
        BY <2>3, <4>1, CountingTyped DEF FailPair
      <4>3. \A n \in Nat : n > Grace => n - Grace \in Nat \ {0}
        BY ConfigAssumption
      <4>4. hits - Grace \in Nat \ {0}
        <5>1. hits > Grace
          BY <3>1
        <5> HIDE DEF hits
        <5> QED
          BY <4>2, <4>3, <5>1
      <4> QED
        BY <4>4, DurationTyped, ConfigAssumption
    <3> QED
      BY <2>3, <3>1 DEF FailPair, Proceeds
  <2>4. CASE ReadLock(l) \/ ReadIpLock(l) \/ verifyPassword(l)
    BY <2>1, <2>4 DEF ReadLock, ReadIpLock, verifyPassword, Decides
  <2>5. CASE \/ Reserve(l) \/ Fail(l) \/ ForgetFailures(l) \/ ForgetSlots(l) \/ SetLock(l) \/ SetIpLock(l)
             \/ recordSuccess(l) \/ StoreFails(l)
    BY <2>1, <2>5 DEF Reserve, Fail, ForgetFailures, ForgetSlots, SetLock, SetIpLock, recordSuccess, StoreFails
  <2> QED
    BY <2>2, <2>3, <2>4, <2>5 DEF LoginStep
<1>6. CASE \E p, w : Proceeds(l, p, w)
  BY <1>1, <1>3, <1>4, <1>6 DEF Signing, PCs
<1>7. CASE \E p, n : login' = [login EXCEPT ![l].pc = p, ![l].until = n]
  BY <1>1, <1>3, <1>7 DEF Signing, PCs
<1>8. CASE \E p, n : login' = [login EXCEPT ![l].pc = p, ![l].now = n]
  BY <1>1, <1>3, <1>8 DEF Signing, PCs
<1>9. CASE signIn(l)
  BY <1>1, <1>3, <1>9 DEF Signing, PCs, signIn, Doing
<1> QED
  BY <1>5, <1>6, <1>7, <1>8, <1>9


\* Where each step takes the sign-in, as far as the counting goes.
Counts(l) ==
  \/ /\ login[l].pc \in {"idle", "password"} \cup Asking \cup Refunding
     /\ login'[l].pc \in {"password", "fail", "refused", "in"} \cup Asking \cup Refunding
     /\ UNCHANGED <<failed, struck>>
  \/ /\ login[l].pc = "fail" /\ login'[l].pc \in {"strike"} \cup (InStrike \ {"unfail", "unslot"})
     /\ failed' = failed \cup {l} /\ UNCHANGED struck
  \/ login[l].pc = "fail" /\ login'[l].pc = "wrong" /\ UNCHANGED <<failed, struck>>
  \/ /\ login[l].pc = "strike" /\ login'[l].pc = "unfail"
     /\ struck' = struck \cup {l} /\ UNCHANGED failed
  \/ /\ login[l].pc = "strike" /\ login'[l].pc = "wrong"
     /\ UNCHANGED <<failed, struck>>
  \/ /\ login[l].pc = "unfail" /\ login'[l].pc \in {"unslot", "wrong"} /\ UNCHANGED <<failed, struck>>
  \/ /\ login[l].pc = "unslot" /\ login'[l].pc \in Locked /\ UNCHANGED <<failed, struck>>
  \/ /\ login[l].pc \in Locked \ {"wrong"} /\ login'[l].pc \in Locked /\ UNCHANGED <<failed, struck>>
     /\ login[l].pc \in Delayed => login'[l].pc \in Delayed

LEMMA PairPlace ==
  ASSUME LockoutTyped, NEW l \in Logins
  PROVE  Pair(l) \in Locked
BY DEF Pair, Locked, Delayed

LEMMA EachCounts ==
  ASSUME LockoutTyped, NEW l \in Logins, LoginStep(l) \/ StoreFails(l)
  PROVE  Counts(l)
<1>1. \A p : Goes(l, p) => login'[l].pc = p
  BY Moved
<1>2. login \in [Logins -> Signing] /\ Pair(l) \in Locked
  BY PairPlace DEF LockoutTyped, LockoutTypeOK
<1>3. CASE signIn(l) \/ ReadLock(l) \/ ReadIpLock(l) \/ verifyPassword(l)
  <2>1. UNCHANGED <<failed, struck>> /\ login[l].pc \in {"idle", "password"} \cup Asking
    BY <1>3 DEF signIn, ReadLock, ReadIpLock, verifyPassword, Doing, counted, Asking
  <2>2. login'[l].pc \in {"lock", "ipLock", "slot", "refused", "okFail", "fail"}
    <3>1. \A p, ip, n : \/ login' = [login EXCEPT ![l].pc = p, ![l].ip = ip, ![l].now = n]
                       \/ login' = [login EXCEPT ![l].pc = p, ![l].until = n]
                       \/ login' = [login EXCEPT ![l].pc = p, ![l].now = n]
                       => login'[l].pc = p
      BY <1>2 DEF Signing
    <3>3. CASE signIn(l)
      <4>1. PICK ip \in Ips \cup {NoIp} :
              login' = [login EXCEPT ![l].pc = "lock", ![l].ip = ip, ![l].now = tick]
        BY <3>3 DEF signIn
      <4> QED
        BY <3>1, <4>1
    <3>4. \A n : Decides(l, n) => login'[l].pc \in {"slot", "refused"}
      BY <3>1 DEF Decides
    <3>5. CASE ReadLock(l)
      <4>1. CASE Decides(l, Stored(lock))
        BY <3>4, <4>1
      <4>2. CASE login' = [login EXCEPT ![l].pc = "ipLock", ![l].until = Stored(lock)]
        BY <3>1, <4>2
      <4> QED
        BY <3>5, <4>1, <4>2 DEF ReadLock
    <3>6. CASE ReadIpLock(l)
      BY <3>4, <3>6 DEF ReadIpLock
    <3>7. CASE verifyPassword(l)
      BY <1>1, <3>1, <3>7 DEF verifyPassword
    <3> QED
      BY <1>3, <3>3, <3>5, <3>6, <3>7
  <2>3. login'[l].pc \in {"password", "fail", "refused", "in"} \cup Asking \cup Refunding
    BY <2>2 DEF Asking, Refunding
  <2> QED
    BY <2>1, <2>3 DEF Counts
<1>4. CASE Reserve(l)
  BY <1>1, <1>4 DEF Reserve, CountSlot, Doing, Counts, Asking
<1>5. CASE Fail(l)
  <2>1. login[l].pc = "fail" /\ failed' = failed \cup {l} /\ UNCHANGED struck
    BY <1>5 DEF Fail, CountFailure, Doing
  <2>2. login'[l].pc \in {"strike", Pair(l)}
    BY <1>1, <1>5 DEF Fail
  <2>3. Pair(l) \in InStrike \ {"unfail", "unslot"}
    BY DEF Pair, InStrike, Locked, Delayed
  <2> QED
    BY <2>1, <2>2, <2>3 DEF Counts
<1>6. CASE Strike(l)
  <2>1. login'[l].pc = "unfail"
    BY <1>2, <1>6 DEF Strike, Signing
  <2> QED
    BY <1>6, <2>1 DEF Strike, CountStrike, Doing, Counts
<1>7. CASE ForgetFailures(l) \/ ForgetSlots(l) \/ SetLock(l)
  <2>1. login'[l].pc = IF login[l].pc = "unfail" THEN "unslot" ELSE IF login[l].pc = "unslot" THEN "setLock" ELSE Pair(l)
    BY <1>1, <1>7 DEF ForgetFailures, ForgetSlots, SetLock, Doing
  <2>2. login[l].pc \in {"unfail", "unslot", "setLock"} /\ UNCHANGED <<failed, struck>>
    BY <1>7 DEF ForgetFailures, ForgetSlots, SetLock, Doing, counted
  <2> QED
    BY <1>2, <2>1, <2>2 DEF Counts, Locked, Delayed
<1>8. CASE FailPair(l) \/ SetIpLock(l)
  <2>1. login[l].pc \in {"ipFail", "setIpLock"} /\ UNCHANGED <<failed, struck>>
    BY <1>8 DEF FailPair, CountPair, SetIpLock, Doing, counted
  <2>2. login'[l].pc \in Delayed
    BY <1>1, <1>2, <1>8 DEF FailPair, SetIpLock, Delayed, Signing
  <2> QED
    BY <2>1, <2>2 DEF Counts, Locked, Delayed
<1>9. CASE recordSuccess(l)
  <2>1. login[l].pc \in Refunding /\ UNCHANGED <<failed, struck>>
    BY <1>9 DEF recordSuccess, RefundSlots, Doing, counted, Refunding
  <2>2. login'[l].pc \in Refunding \cup {"in"}
    BY <1>1, <1>9 DEF recordSuccess, Refunding
  <2> QED
    BY <2>1, <2>2 DEF Counts
<1>10. CASE StoreFails(l)
  <2>1. login'[l].pc = Excused(login[l].pc) /\ login[l].pc \in Asking \cup Failing \cup Refunding
    BY <1>1, <1>10 DEF StoreFails
  <2>2. UNCHANGED struck /\ (UNCHANGED failed \/ (login[l].pc = "fail" /\ failed' = failed \cup {l}))
    BY <1>10 DEF StoreFails, CountSlot, CountFailure, CountStrike, CountPair, Doing, counted
  <2>3. CASE login[l].pc \in Asking \cup Refunding
    BY <2>1, <2>2, <2>3 DEF Counts, Excused, Asking, Refunding, Failing
  <2>4. CASE login[l].pc \in Failing
    BY <2>1, <2>2, <2>4 DEF Counts, Excused, Asking, Failing, Locked, Delayed, InStrike
  <2> QED
    BY <2>1, <2>3, <2>4
<1> QED
  BY <1>3, <1>4, <1>5, <1>6, <1>7, <1>8, <1>9, <1>10 DEF LoginStep

LEMMA OnceKept ==
  ASSUME Ordered, NEW l \in Logins, LoginStep(l) \/ StoreFails(l)
  PROVE  /\ Once(l)' /\ Past(l) /\ Alone(l)
         /\ \A m \in Logins \ {l} : Once(m)'
<1>1. LockoutTyped /\ Once(l) /\ Counts(l)
  BY EachCounts DEF Ordered
<1>2. \A m \in Logins \ {l} : login'[m] = login[m]
  BY <1>1, Moved
<1>3. Alone(l)
  BY <1>1, <1>2 DEF Alone, Counts
<1>5. Once(l)'
  BY <1>1 DEF Once, Counts, Asking, Refunding, InStrike, Locked, Delayed
<1>6. Past(l)
  <2>1. login[l].pc # "idle" => login'[l].ip = login[l].ip
    BY <1>1, Moved
  <2>2. login[l].pc \in Locked => login'[l].pc \in Locked
    BY <1>1 DEF Counts, Asking, Refunding, Locked, Delayed
  <2>3. login[l].pc \in Delayed => login'[l].pc \in Delayed
    BY <1>1 DEF Counts, Asking, Refunding, Locked, Delayed
  <2> QED
    BY <2>1, <2>2, <2>3 DEF Past
<1>7. \A m \in Logins \ {l} : Once(m)'
  BY <1>2, <1>3 DEF Ordered, Once, Alone
<1> QED
  BY <1>3, <1>5, <1>6, <1>7

\* unlock() and the clock leave every sign-in and the history of its steps alone.
LEMMA OtherSteps ==
  ASSUME unlock \/ UnlockStep \/ UnlockFails \/ Passes \/ UNCHANGED lockoutVars
  PROVE  UNCHANGED <<login, checked, failed, struck>>
BY DEF unlock, UnlockStep, UnlockFails, StoreError, Passes, Lists, RefundSlots, lockoutVars, counted

LEMMA OrderedKept ==
  ASSUME Ordered, [LockoutNext]_lockoutVars
  PROVE  /\ Ordered' /\ failed \subseteq failed' /\ struck \subseteq struck'
         /\ \A l \in Logins : Past(l)
<1>1. LockoutTyped'
  BY LockoutNextTyped DEF Ordered
<1>2. ASSUME NEW l \in Logins, LoginStep(l) \/ StoreFails(l)
      PROVE  Ordered' /\ failed \subseteq failed' /\ struck \subseteq struck' /\ \A m \in Logins : Past(m)
  <2>1. /\ Once(l)' /\ Past(l) /\ Alone(l)
        /\ \A m \in Logins \ {l} : Once(m)'
    BY <1>2, OnceKept
  <2>2. \A m \in Logins \ {l} : Past(m)
    BY <2>1 DEF Alone, Past
  <2> QED
    BY <1>1, <2>1, <2>2 DEF Ordered, Alone
<1>3. CASE unlock \/ UnlockStep \/ UnlockFails \/ Passes \/ UNCHANGED lockoutVars
  <2>1. UNCHANGED <<login, checked, failed, struck>>
    BY <1>3, OtherSteps
  <2>2. \A l \in Logins : Once(l)' /\ Past(l)
    BY <2>1 DEF Ordered, Once, Past
  <2> QED
    BY <1>1, <2>1, <2>2 DEF Ordered
<1> QED
  BY <1>2, <1>3 DEF LockoutNext


(***************************************************************************)
(* Lockout: what the counters count.                                       *)
(***************************************************************************)

LEMMA Scaled ==
  /\ \A m, a \in Nat : m * a \in Nat /\ m * (a + 1) = m * a + m
  /\ \A m, a, b \in Nat : a <= b => m * a <= m * b
<1>1. \A m, a \in Nat : m * a \in Nat /\ m * (a + 1) = m * a + m
  OBVIOUS
<1>2. ASSUME NEW m \in Nat, NEW a \in Nat, NEW b \in Nat, a <= b
      PROVE  m * a <= m * b
  <2>1. PICK c \in Nat : b = a + c
    <3>1. b - a \in Nat /\ b = a + (b - a)
      BY <1>2
    <3> QED
      BY <3>1
  <2>2. m * b = m * a + m * c /\ m * c \in Nat /\ m * a \in Nat
    BY <2>1
  <2> QED
    BY <2>2
<1> QED
  BY <1>1, <1>2

LEMMA Sizes ==
  ASSUME NEW S \in SUBSET Logins
  PROVE  /\ IsFiniteSet(S) /\ Cardinality(S) \in Nat
         /\ \A T \in SUBSET S : Cardinality(T) <= Cardinality(S) /\ Cardinality(T) \in Nat
         /\ \A l \in Logins : /\ Cardinality(S \cup {l}) = IF l \in S THEN Cardinality(S) ELSE Cardinality(S) + 1
                              /\ \A T \in SUBSET (S \cup {l}) : Cardinality(T) <= Cardinality(S) + 1
<1>1. \A T \in SUBSET Logins : IsFiniteSet(T) /\ Cardinality(T) \in Nat
  BY LoginsAssumption, FS_Subset, FS_CardinalityType
<1>2. \A T \in SUBSET S : Cardinality(T) <= Cardinality(S) /\ Cardinality(T) \in Nat
  BY <1>1, FS_Subset
<1>3. ASSUME NEW l \in Logins
      PROVE  /\ Cardinality(S \cup {l}) = IF l \in S THEN Cardinality(S) ELSE Cardinality(S) + 1
             /\ \A T \in SUBSET (S \cup {l}) : Cardinality(T) <= Cardinality(S) + 1
  <2>1. Cardinality(S \cup {l}) = IF l \in S THEN Cardinality(S) ELSE Cardinality(S) + 1
    BY <1>1, FS_AddElement
  <2>2. \A T \in SUBSET (S \cup {l}) : Cardinality(T) <= Cardinality(S \cup {l}) /\ Cardinality(T) \in Nat
    BY <1>1, <1>3, FS_Subset
  <2> QED
    BY <1>1, <2>1, <2>2
<1> QED
  BY <1>1, <1>2, <1>3

\* The passwords checked, against the rounds of slots that were given out.
Within(n) == IF n <= MaxFailures THEN n ELSE MaxFailures
\* How the two may grow: c to d passwords, v to w slots taken, g to h rounds.
Affords(c, d, v, w, g, h) ==
  \/ d <= c /\ v <= w
  \/ d <= c + 1 /\ v < w /\ w <= MaxFailures
  \/ d <= c /\ g < h
  \/ d <= c + 1 /\ g < h /\ w >= 1
LEMMA SlotBudget ==
  ASSUME NEW c \in Nat, NEW g \in Nat, NEW v \in Nat, NEW d \in Nat, NEW h \in Nat, NEW w \in Nat,
         NEW s \in Nat, NEW t \in Nat, NEW e \in Nat,
         c <= MaxFailures * g + Within(v) + s, g <= h, Affords(c, e, v, w, g, h), d + s <= e + t
  PROVE  d <= MaxFailures * h + Within(w) + t
<1>1. MaxFailures \in Nat /\ MaxFailures >= 1
  BY ConfigAssumption
<1>2. /\ MaxFailures * g \in Nat /\ MaxFailures * h \in Nat /\ MaxFailures * g <= MaxFailures * h
      /\ g < h => MaxFailures * g + MaxFailures <= MaxFailures * h
  <2>1. MaxFailures * (g + 1) = MaxFailures * g + MaxFailures
    BY <1>1, Scaled
  <2>2. g < h => g + 1 <= h
    OBVIOUS
  <2> QED
    BY <1>1, <2>1, <2>2, Scaled
<1>3. ASSUME NEW A \in Nat, NEW B \in Nat, c <= A + Within(v) + s, A <= B, g < h => A + MaxFailures <= B
      PROVE  d <= B + Within(w) + t
  <2>1. e <= B + Within(w) + s
    BY <1>1, <1>3 DEF Within, Affords
  <2>2. B + Within(w) \in Nat
    BY <1>1 DEF Within
  <2> QED
    BY <2>1, <2>2
<1> QED
  BY <1>2, <1>3

\* The strikes, against the failures they were counted for.
Beyond(n) == IF n >= MaxFailures THEN n - MaxFailures ELSE n
LEMMA StrikeRate ==
  ASSUME NEW c \in Nat, NEW g \in Nat, NEW v \in Nat, NEW d \in Nat, NEW h \in Nat, NEW w \in Nat,
         MaxFailures * g + Beyond(v) <= c,
         \/ h <= g /\ c <= d /\ w \in {0, v}
         \/ h <= g /\ d = c + 1 /\ w \in {1, v + 1}
         \/ h <= g + 1 /\ d = c + 1 /\ w = MaxFailures /\ w \in {1, v + 1}
  PROVE  MaxFailures * h + Beyond(w) <= d
<1>1. MaxFailures \in Nat /\ MaxFailures >= 1
  BY ConfigAssumption
<1>2. /\ MaxFailures * g \in Nat /\ MaxFailures * h \in Nat
      /\ h <= g => MaxFailures * h <= MaxFailures * g
      /\ h <= g + 1 => MaxFailures * h <= MaxFailures * g + MaxFailures
  <2>1. MaxFailures * (g + 1) = MaxFailures * g + MaxFailures
    BY <1>1, Scaled
  <2> QED
    BY <1>1, <2>1, Scaled
<1>3. ASSUME NEW A \in Nat, NEW B \in Nat, A + Beyond(v) <= c, h <= g => B <= A,
             h <= g + 1 => B <= A + MaxFailures
      PROVE  B + Beyond(w) <= d
  BY <1>1, <1>3 DEF Beyond
<1> QED
  BY <1>2, <1>3


\* A store that throws lets a password be checked without a slot.
LetThrough(l) ==
  /\ ~FailClosed /\ errors' = errors + 1 /\ checked' = checked \cup {l}
  /\ UNCHANGED <<attempt, refunds>> \/ CountSlot

\* What a step does to the slots of the account.
LEMMA SlotChanges ==
  ASSUME [LockoutNext]_lockoutVars
  PROVE  \/ UNCHANGED <<attempt, checked, refunds>>
         \/ CountSlot /\ UNCHANGED checked
         \/ \E l \in Logins : CountSlot /\ checked' = checked \cup {l} /\ ~Over(attempt'.value)
         \/ RefundSlots
         \/ \E l \in Logins : ForgetSlots(l)
         \/ \E l \in Logins : LetThrough(l)
<1>1. ASSUME NEW l \in Logins,
             \/ signIn(l) \/ ReadLock(l) \/ ReadIpLock(l) \/ verifyPassword(l) \/ Fail(l) \/ Strike(l)
             \/ ForgetFailures(l) \/ SetLock(l) \/ FailPair(l) \/ SetIpLock(l)
      PROVE  UNCHANGED <<attempt, checked, refunds>>
  BY <1>1 DEF signIn, ReadLock, ReadIpLock, verifyPassword, Fail, CountFailure, Strike, CountStrike,
              ForgetFailures, SetLock, FailPair, CountPair, SetIpLock, account, counted
<1>2. ASSUME NEW l \in Logins, Reserve(l)
      PROVE  CountSlot /\ (UNCHANGED checked \/ (checked' = checked \cup {l} /\ ~Over(attempt'.value)))
  BY <1>2 DEF Reserve
<1>3. ASSUME NEW l \in Logins, recordSuccess(l)
      PROVE  UNCHANGED <<attempt, checked, refunds>> \/ RefundSlots
  BY <1>3 DEF recordSuccess, account, counted
<1>4. ASSUME NEW l \in Logins, StoreFails(l)
      PROVE  UNCHANGED <<attempt, checked, refunds>> \/ (CountSlot /\ UNCHANGED checked) \/ LetThrough(l)
  <2>1. UNCHANGED <<attempt, refunds>> \/ CountSlot
    BY <1>4 DEF StoreFails, CountFailure, CountStrike, CountPair, account, counted
  <2>2. CASE Excused(login[l].pc) = "password"
    <3>1. ~FailClosed
      BY <2>2 DEF Excused
    <3>2. errors' = errors + 1 /\ checked' = checked \cup {l}
      BY <1>4, <2>2 DEF StoreFails, StoreError
    <3> QED
      BY <2>1, <3>1, <3>2 DEF LetThrough
  <2>3. CASE Excused(login[l].pc) # "password"
    BY <1>4, <2>1, <2>3 DEF StoreFails
  <2> QED
    BY <2>2, <2>3
<1>5. CASE unlock \/ UnlockStep \/ UnlockFails \/ Passes \/ UNCHANGED lockoutVars
  BY <1>5 DEF unlock, UnlockStep, UnlockFails, Passes, Lists, lockoutVars, account, counted
<1> QED
  BY <1>1, <1>2, <1>3, <1>4, <1>5 DEF LockoutNext, LoginStep

LEMMA SlotCounted ==
  ASSUME LockoutTypeOK, CountSlot
  PROVE  \/ attempt'.value = attempt.value + 1 /\ refunds' = refunds
         \/ attempt'.value = 1 /\ refunds' = refunds + 1
<1>1. attempt \in Entry /\ attempt.value \in Nat
  BY DEF LockoutTypeOK, Entry
<1>2. attempt' = Incremented(attempt, FailureWindow)
  BY DEF CountSlot
<1>3. CASE Lasting(attempt)
  <2>1. attempt'.value = attempt.value + 1
    BY <1>1, <1>2, <1>3 DEF Incremented, Entry
  <2> QED
    BY <1>3, <2>1 DEF CountSlot, Lapsed
<1>4. CASE ~Lasting(attempt)
  <2>1. attempt'.value = 1
    BY <1>2, <1>4 DEF Incremented
  <2> QED
    BY <1>1, <1>4, <2>1 DEF CountSlot, Lapsed
<1> QED
  BY <1>3, <1>4

\* A strike pays for the slots it has forgotten, or never will.
Cleared == {l \in struck : login[l].pc \in Locked}
Paid == Cardinality(checked) <= MaxFailures * (Cardinality(Cleared) + refunds) + Within(attempt.value) + Unpaid

LEMMA UnpaidGrows ==
  ASSUME LockoutTypeOK, [LockoutNext]_lockoutVars
  PROVE  Unpaid \in Nat /\ Unpaid' \in Nat /\ Unpaid <= Unpaid'
<1>1. errors \in Nat
  BY LimitAssumption DEF LockoutTypeOK
<1>2. ASSUME NEW l \in Logins, LoginStep(l)
      PROVE  UNCHANGED errors
  BY <1>2 DEF LoginStep, signIn, ReadLock, ReadIpLock, Reserve, verifyPassword, Fail, Strike, ForgetFailures,
              ForgetSlots, SetLock, FailPair, SetIpLock, recordSuccess, Elsewhere
<1>3. errors' \in {errors, errors + 1}
  BY <1>2 DEF LockoutNext, StoreFails, UnlockFails, StoreError, unlock, UnlockStep, Passes, lockoutVars
<1> QED
  BY <1>1, <1>3, ConfigAssumption DEF Unpaid

LEMMA PaidKept ==
  ASSUME Ordered, Paid, [LockoutNext]_lockoutVars
  PROVE  Paid'
<1>1. Ordered' /\ struck \subseteq struck' /\ \A l \in Logins : Past(l)
  BY OrderedKept
<1>2. LockoutTypeOK /\ LockoutTypeOK'
  BY <1>1 DEF Ordered, LockoutTyped
<1>3. Cleared \subseteq Cleared' /\ Cleared' \subseteq Logins /\ checked' \subseteq Logins /\ checked \subseteq Logins
  BY <1>1, <1>2 DEF Cleared, Past, LockoutTypeOK
<1> DEFINE c == Cardinality(checked)
           d == Cardinality(checked')
           j == Cardinality(Cleared)
           k == Cardinality(Cleared')
           v == attempt.value
           w == attempt'.value
           g == j + refunds
           h == k + refunds'
           s == Unpaid
           t == Unpaid'
           Buys(e) == Affords(c, e, v, w, g, h) /\ d + s <= e + t
<1>4. c \in Nat /\ d \in Nat /\ j \in Nat /\ k \in Nat /\ j <= k
  BY <1>3, Sizes
<1>5. v \in Nat /\ w \in Nat /\ refunds \in Nat /\ refunds' \in Nat
  BY <1>2 DEF LockoutTypeOK, Entry
<1>6. c <= MaxFailures * g + Within(v) + s /\ g \in Nat /\ h \in Nat
  BY <1>4, <1>5 DEF Paid
<1>7. UNCHANGED checked => d = c
  OBVIOUS
<1>8. s \in Nat /\ t \in Nat /\ s <= t
  BY <1>2, UnpaidGrows
<1> HIDE DEF c, d, j, k, v, w, s, t
<1>9. \/ g <= h /\ Buys(d)
      \/ g <= h /\ Buys(c)
  <2>1. CASE UNCHANGED <<attempt, checked, refunds>>
    <3>1. d <= c /\ v <= w /\ g <= h
      BY <1>4, <1>5, <1>7, <2>1 DEF v, w
    <3> QED
      BY <1>4, <1>6, <1>8, <3>1 DEF Affords
  <2>2. CASE RefundSlots
    <3>1. d <= c /\ refunds' = refunds + 1
      BY <1>4, <1>7, <2>2 DEF RefundSlots
    <3>2. g < h
      BY <1>4, <1>5, <3>1
    <3> QED
      BY <1>4, <1>6, <1>8, <3>1, <3>2 DEF Affords
  <2>3. CASE CountSlot /\ UNCHANGED checked
    <3>1. d <= c
      BY <1>4, <1>7, <2>3
    <3>2. CASE w = v + 1 /\ refunds' = refunds
      <4>1. v <= w /\ g <= h
        BY <1>4, <1>5, <3>2
      <4> QED
        BY <1>4, <1>6, <1>8, <3>1, <4>1 DEF Affords
    <3>3. CASE w = 1 /\ refunds' = refunds + 1
      <4>1. g < h
        BY <1>4, <1>5, <3>3
      <4> QED
        BY <1>4, <1>6, <1>8, <3>1, <4>1 DEF Affords
    <3> QED
      BY <1>2, <2>3, <3>2, <3>3, SlotCounted DEF v, w
  <2>4. ASSUME NEW l \in Logins, CountSlot, checked' = checked \cup {l}, ~Over(attempt'.value)
        PROVE  g <= h /\ Buys(d)
    <3>1. d <= c + 1
      BY <1>3, <2>4, Sizes DEF c, d
    <3>2. w <= MaxFailures
      BY <1>5, <2>4, ConfigAssumption DEF Over, w
    <3>3. CASE w = v + 1 /\ refunds' = refunds
      <4>1. v < w /\ g <= h
        BY <1>4, <1>5, <3>3
      <4> QED
        BY <1>4, <1>6, <1>8, <3>1, <3>2, <4>1 DEF Affords
    <3>4. CASE w = 1 /\ refunds' = refunds + 1
      <4>1. g < h /\ w >= 1
        BY <1>4, <1>5, <3>4
      <4> QED
        BY <1>4, <1>6, <1>8, <3>1, <4>1 DEF Affords
    <3> QED
      BY <1>2, <2>4, <3>3, <3>4, SlotCounted DEF v, w
  <2>5. ASSUME NEW l \in Logins, ForgetSlots(l)
        PROVE  g <= h /\ Buys(d)
    <3>1. d <= c /\ refunds' = refunds
      BY <1>4, <1>7, <2>5 DEF ForgetSlots, counted
    <3>2. l \notin Cleared /\ l \in Cleared'
      <4>1. login[l].pc = "unslot" /\ l \in struck
        BY <2>5 DEF ForgetSlots, Doing, Ordered, Once
      <4>2. login'[l].pc = "setLock"
        BY <1>2, <2>5 DEF ForgetSlots, Goes, LockoutTypeOK, Signing
      <4> QED
        BY <1>1, <4>1, <4>2 DEF Cleared, Locked, Delayed
    <3>3. Cleared \subseteq Cleared' \ {l} /\ Cardinality(Cleared' \ {l}) <= k - 1 /\ k \in Nat
      <4>1. IsFiniteSet(Cleared') /\ Cardinality(Cleared' \ {l}) = k - 1
        BY <1>3, <3>2, Sizes, FS_RemoveElement DEF k
      <4> QED
        BY <1>3, <1>4, <3>2, <4>1
    <3>4. j <= k - 1
      <4>1. j <= Cardinality(Cleared' \ {l}) /\ Cardinality(Cleared' \ {l}) \in Nat
        BY <1>3, <3>3, Sizes DEF j
      <4> QED
        BY <1>4, <3>3, <4>1
    <3>5. g < h
      BY <1>4, <1>5, <3>1, <3>4
    <3> QED
      BY <1>4, <1>6, <1>8, <3>1, <3>5 DEF Affords
  <2>6. ASSUME NEW l \in Logins, LetThrough(l)
        PROVE  g <= h /\ Buys(c)
    <3>1. d <= c + 1
      BY <1>3, <2>6, Sizes DEF LetThrough, c, d
    <3>2. t = s + 1
      <4>1. errors \in Nat
        BY <1>2, LimitAssumption DEF LockoutTypeOK
      <4> QED
        BY <2>6, <4>1 DEF LetThrough, Unpaid, s, t
    <3>3. d + s <= c + t
      BY <1>4, <1>8, <3>1, <3>2
    <3>4. CASE UNCHANGED <<attempt, refunds>>
      <4>1. v <= w /\ g <= h
        BY <1>4, <1>5, <3>4 DEF v, w
      <4> QED
        BY <1>4, <1>6, <3>3, <4>1 DEF Affords
    <3>5. CASE w = v + 1 /\ refunds' = refunds
      <4>1. v <= w /\ g <= h
        BY <1>4, <1>5, <3>5
      <4> QED
        BY <1>4, <1>6, <3>3, <4>1 DEF Affords
    <3>6. CASE w = 1 /\ refunds' = refunds + 1
      <4>1. g < h
        BY <1>4, <1>5, <3>6
      <4> QED
        BY <1>4, <1>6, <3>3, <4>1 DEF Affords
    <3> QED
      BY <1>2, <2>6, <3>4, <3>5, <3>6, SlotCounted DEF LetThrough, v, w
  <2> QED
    BY <2>1, <2>2, <2>3, <2>4, <2>5, <2>6, SlotChanges
<1>10. d <= MaxFailures * h + Within(w) + t
  <2> HIDE DEF g, h
  <2> QED
    BY <1>4, <1>5, <1>6, <1>8, <1>9, SlotBudget
<1> QED
  BY <1>10 DEF Paid, d, k, w, t

LEMMA OrderedInit == ASSUME LockoutInit PROVE Ordered /\ login \in [Logins -> Signing]
<1>1. LockoutTyped
  BY LockoutInitTyped
<1>2. \A l \in Logins : login[l].pc = "idle"
  BY DEF LockoutInit
<1>3. \A l \in Logins : Once(l)
  BY <1>2 DEF LockoutInit, Once, InStrike, Locked, Delayed
<1> QED
  BY <1>1, <1>3 DEF Ordered, LockoutTyped, LockoutTypeOK

LEMMA LockoutOrdered == LockoutSpec => []Ordered
<1>1. LockoutInit => Ordered
  BY OrderedInit
<1>2. Ordered /\ [LockoutNext]_lockoutVars => Ordered'
  BY OrderedKept
<1> QED
  BY <1>1, <1>2, PTL DEF LockoutSpec

\* Every further MaxFailures passwords that are checked cost the account a
\* strike, unless its slots were given back, however sign-ins, unlock() and
\* failures of the store come in between; a failure of a store that is open buys
\* one more at most.
THEOREM ChecksArePaidTheorem == LockoutSpec => []ChecksArePaid
<1>1. LockoutInit => Paid
  <2> SUFFICES ASSUME LockoutInit PROVE Paid
    OBVIOUS
  <2>1. Cleared = {} /\ checked = {} /\ refunds = 0 /\ attempt.value = 0 /\ Unpaid = 0
    BY DEF LockoutInit, Cleared, NoEntry, Unpaid
  <2>2. Cardinality({}) = 0
    BY FS_EmptySet
  <2> QED
    BY <2>1, <2>2, ConfigAssumption, Scaled DEF Paid, Within
<1>2. Ordered /\ Paid /\ [LockoutNext]_lockoutVars => Paid'
  BY PaidKept
<1>3. Ordered /\ Paid => ChecksArePaid
  <2> SUFFICES ASSUME Ordered, Paid PROVE ChecksArePaid
    OBVIOUS
  <2>1. /\ struck \subseteq Logins /\ checked \subseteq Logins /\ Cleared \subseteq struck
        /\ attempt.value \in Nat /\ refunds \in Nat /\ Unpaid \in Nat
    BY LimitAssumption DEF Ordered, LockoutTyped, LockoutTypeOK, Cleared, Entry, Unpaid
  <2> DEFINE c == Cardinality(checked)
             j == Cardinality(Cleared)
             k == Cardinality(struck)
  <2>2. c \in Nat /\ j \in Nat /\ k \in Nat /\ j <= k
    BY <2>1, Sizes
  <2>3. MaxFailures \in Nat /\ Within(attempt.value) <= MaxFailures /\ Within(attempt.value) \in Nat
    BY <2>1, ConfigAssumption DEF Within
  <2>4. j + refunds <= k + refunds /\ 1 + k + refunds = (k + refunds) + 1
    BY <2>1, <2>2
  <2>5. /\ MaxFailures * (j + refunds) <= MaxFailures * (k + refunds)
        /\ MaxFailures * (1 + k + refunds) = MaxFailures * (k + refunds) + MaxFailures
        /\ MaxFailures * (j + refunds) \in Nat /\ MaxFailures * (k + refunds) \in Nat
    BY <2>1, <2>2, <2>3, <2>4, Scaled
  <2>6. c <= MaxFailures * (j + refunds) + Within(attempt.value) + Unpaid
    BY DEF Paid
  <2>7. c <= MaxFailures * (1 + k + refunds) + Unpaid
    <3> HIDE DEF c, j, k
    <3> QED
      BY <2>1, <2>2, <2>3, <2>5, <2>6
  <2> QED
    BY <2>7 DEF ChecksArePaid
<1> QED
  BY <1>1, <1>2, <1>3, LockoutOrdered, PTL DEF LockoutSpec


\* What a step does to the failures of the account.
LEMMA FailureChanges ==
  ASSUME [LockoutNext]_lockoutVars
  PROVE  \/ fail' \in {fail, NoEntry} /\ UNCHANGED failed
         \/ \E l \in Logins : login[l].pc = "fail" /\ CountFailure(l)
<1>1. ASSUME NEW l \in Logins,
             \/ signIn(l) \/ ReadLock(l) \/ ReadIpLock(l) \/ Reserve(l) \/ verifyPassword(l) \/ Strike(l)
             \/ ForgetFailures(l) \/ ForgetSlots(l) \/ SetLock(l) \/ FailPair(l) \/ SetIpLock(l)
             \/ recordSuccess(l)
      PROVE  fail' \in {fail, NoEntry} /\ UNCHANGED failed
  BY <1>1 DEF signIn, ReadLock, ReadIpLock, Reserve, CountSlot, verifyPassword, Strike, CountStrike,
              ForgetFailures, ForgetSlots, SetLock, FailPair, CountPair, SetIpLock, recordSuccess,
              RefundSlots, account, counted
<1>2. ASSUME NEW l \in Logins, Fail(l)
      PROVE  login[l].pc = "fail" /\ CountFailure(l)
  BY <1>2 DEF Fail, Doing
<1>3. ASSUME NEW l \in Logins, StoreFails(l)
      PROVE  \/ fail' \in {fail, NoEntry} /\ UNCHANGED failed
             \/ login[l].pc = "fail" /\ CountFailure(l)
  BY <1>3 DEF StoreFails, Doing, CountSlot, CountStrike, CountPair, account, counted
<1>4. CASE unlock \/ UnlockStep \/ UnlockFails \/ Passes \/ UNCHANGED lockoutVars
  BY <1>4 DEF unlock, UnlockStep, UnlockFails, Passes, Lists, RefundSlots, lockoutVars, account, counted
<1> QED
  BY <1>1, <1>2, <1>3, <1>4 DEF LockoutNext, LoginStep

\* Sign-ins that struck the account, or are about to: only the one whose failure
\* is the MaxFailures-th becomes one.
Crossing == struck \cup {l \in Logins : login[l].pc = "strike"}

LEMMA CrossingSteps ==
  ASSUME Ordered, NEW l \in Logins, LoginStep(l) \/ StoreFails(l)
  PROVE  /\ Crossing' \subseteq Crossing \cup {l}
         /\ l \notin Crossing /\ l \in Crossing' => Fail(l) /\ Crosses(fail'.value)
<1>1. LockoutTyped /\ \A m \in Logins \ {l} : login'[m] = login[m]
  BY Moved DEF Ordered
<1>2. struck' \subseteq struck \cup {l}
  BY OnceKept DEF Alone
<1>3. Crossing' \subseteq Crossing \cup {l}
  BY <1>1, <1>2 DEF Crossing
<1>4. Counts(l)
  BY <1>1, EachCounts
<1>5. ASSUME l \notin Crossing, l \in Crossing'
      PROVE  Fail(l) /\ Crosses(fail'.value)
  <2>1. l \notin struck /\ login[l].pc # "strike"
    BY <1>5 DEF Crossing
  <2>2. login[l].pc = "fail" /\ login'[l].pc = "strike"
    BY <1>4, <1>5, <2>1 DEF Crossing, Counts, Asking, Refunding, Locked, Delayed
  <2>3. Fail(l)
    <3>1. ~StoreFails(l)
      <4>1. Excused("fail") = "wrong"
        BY DEF Excused, Asking, Failing
      <4> QED
        BY <1>1, <2>2, <4>1, Moved DEF StoreFails
    <3>2. LoginStep(l)
      BY <3>1
    <3> QED
      BY <2>2, <3>2 DEF LoginStep, signIn, ReadLock, ReadIpLock, Reserve, verifyPassword, Strike,
                        ForgetFailures, ForgetSlots, SetLock, FailPair, SetIpLock, recordSuccess, Doing
  <2>4. login'[l].pc = IF Crosses(fail'.value) THEN "strike" ELSE Pair(l)
    BY <1>1, <2>3, Moved DEF Fail
  <2>5. Pair(l) # "strike"
    BY DEF Pair
  <2> QED
    BY <2>2, <2>3, <2>4, <2>5
<1> QED
  BY <1>3, <1>5

\* Every strike has MaxFailures failures of its own behind it, and those that
\* are counted towards the next are on top.
Earned == MaxFailures * Cardinality(Crossing) + Beyond(fail.value) <= Cardinality(failed)

LEMMA EarnedKept ==
  ASSUME Ordered, Earned, [LockoutNext]_lockoutVars
  PROVE  Earned'
<1>1. Ordered'
  BY OrderedKept
<1>2. LockoutTypeOK /\ LockoutTypeOK'
  BY <1>1 DEF Ordered, LockoutTyped
<1>3. Crossing \subseteq Logins /\ Crossing' \subseteq Logins /\ failed \subseteq Logins /\ failed' \subseteq Logins
  BY <1>2 DEF Crossing, LockoutTypeOK
<1> DEFINE c == Cardinality(failed)
           d == Cardinality(failed')
           g == Cardinality(Crossing)
           h == Cardinality(Crossing')
           v == fail.value
           w == fail'.value
           Enough == \/ h <= g /\ c <= d /\ w \in {0, v}
                     \/ h <= g /\ d = c + 1 /\ w \in {1, v + 1}
                     \/ h <= g + 1 /\ d = c + 1 /\ w = MaxFailures /\ w \in {1, v + 1}
<1>4. c \in Nat /\ d \in Nat /\ g \in Nat /\ h \in Nat /\ v \in Nat /\ w \in Nat
  BY <1>2, <1>3, Sizes DEF LockoutTypeOK, Entry
<1>5. MaxFailures * g + Beyond(v) <= c
  BY DEF Earned
<1>6. Crossing' \subseteq Crossing => h <= g
  BY <1>3, Sizes
<1>7. UNCHANGED failed => c <= d
  BY <1>4
<1>8. fail' \in {fail, NoEntry} => w \in {0, v}
  BY DEF NoEntry
<1>9. ASSUME NEW l \in Logins, login[l].pc = "fail", CountFailure(l)
      PROVE  d = c + 1 /\ w \in {1, v + 1}
  <2>1. l \notin failed
    BY <1>9 DEF Ordered, Once, InStrike, Locked, Delayed
  <2>2. d = c + 1
    <3>1. failed' = failed \cup {l}
      BY <1>9 DEF CountFailure
    <3> QED
      BY <1>3, <2>1, <3>1, Sizes
  <2>3. w \in {1, v + 1}
    BY <1>2, <1>9 DEF CountFailure, Incremented, LockoutTypeOK, Entry
  <2> QED
    BY <2>2, <2>3
<1>10. Enough
  <2>1. ASSUME NEW l \in Logins, LoginStep(l) \/ StoreFails(l)
        PROVE  Enough
    <3>1. Crossing' \subseteq Crossing \cup {l}
      BY <2>1, CrossingSteps
    <3>2. CASE l \notin Crossing /\ l \in Crossing'
      <4>1. Fail(l) /\ Crosses(fail'.value)
        BY <2>1, <3>2, CrossingSteps
      <4>2. h <= g + 1
        BY <1>3, <3>1, Sizes
      <4>3. d = c + 1 /\ w \in {1, v + 1}
        BY <1>9, <4>1 DEF Fail, Doing
      <4>4. w = MaxFailures
        BY <4>1 DEF Crosses
      <4> QED
        BY <4>2, <4>3, <4>4
    <3>3. CASE ~(l \notin Crossing /\ l \in Crossing')
      <4>1. h <= g
        BY <1>6, <3>1, <3>3
      <4>2. \/ c <= d /\ w \in {0, v}
            \/ d = c + 1 /\ w \in {1, v + 1}
        BY <1>7, <1>8, <1>9, FailureChanges
      <4> QED
        BY <4>1, <4>2
    <3> QED
      BY <3>2, <3>3
  <2>2. CASE unlock \/ UnlockStep \/ UnlockFails \/ Passes \/ UNCHANGED lockoutVars
    <3>1. UNCHANGED <<login, checked, failed, struck>>
      BY <2>2, OtherSteps
    <3>2. h <= g /\ c <= d
      BY <1>6, <1>7, <3>1 DEF Crossing
    <3>3. fail' \in {fail, NoEntry}
      BY <2>2 DEF unlock, UnlockStep, UnlockFails, Passes, Lists, RefundSlots, lockoutVars, account
    <3> QED
      BY <1>8, <3>2, <3>3
  <2> QED
    BY <2>1, <2>2 DEF LockoutNext
<1>11. MaxFailures * h + Beyond(w) <= d
  <2> HIDE DEF c, d, g, h, v, w
  <2> QED
    BY <1>4, <1>5, <1>10, StrikeRate
<1> QED
  BY <1>11 DEF Earned

\* The account is never struck for fewer than MaxFailures failures of its own.
THEOREM StrikesAreEarnedTheorem == LockoutSpec => []StrikesAreEarned
<1>1. LockoutInit => Earned
  <2> SUFFICES ASSUME LockoutInit PROVE Earned
    OBVIOUS
  <2>1. Crossing = {} /\ failed = {} /\ fail.value = 0
    BY DEF LockoutInit, Crossing, NoEntry
  <2>2. Cardinality({}) = 0
    BY FS_EmptySet
  <2> QED
    BY <2>1, <2>2, ConfigAssumption DEF Earned, Beyond
<1>2. Ordered /\ Earned /\ [LockoutNext]_lockoutVars => Earned'
  BY EarnedKept
<1>3. Ordered /\ Earned => StrikesAreEarned
  <2> SUFFICES ASSUME Ordered, Earned PROVE StrikesAreEarned
    OBVIOUS
  <2>1. struck \subseteq Crossing /\ Crossing \subseteq Logins /\ failed \subseteq Logins /\ fail.value \in Nat
    BY DEF Ordered, LockoutTyped, LockoutTypeOK, Crossing, Entry
  <2> DEFINE c == Cardinality(failed)
             j == Cardinality(struck)
             g == Cardinality(Crossing)
  <2>2. c \in Nat /\ j \in Nat /\ g \in Nat /\ j <= g
    BY <2>1, Sizes
  <2>3. Beyond(fail.value) \in Nat
    BY <2>1, ConfigAssumption DEF Beyond
  <2>4. MaxFailures * j <= MaxFailures * g /\ MaxFailures * j \in Nat /\ MaxFailures * g \in Nat
    BY <2>2, ConfigAssumption, Scaled
  <2>5. MaxFailures * g + Beyond(fail.value) <= c
    BY DEF Earned
  <2>6. MaxFailures * j <= c
    <3> HIDE DEF c, j, g
    <3> QED
      BY <2>2, <2>3, <2>4, <2>5
  <2> QED
    BY <2>6 DEF StrikesAreEarned
<1> QED
  BY <1>1, <1>2, <1>3, LockoutOrdered, PTL DEF LockoutSpec


\* What a step does to the failures and the lock of a client.
LEMMA ClientChanges ==
  ASSUME Ordered, [LockoutNext]_lockoutVars, NEW i \in Ips
  PROVE  /\ \/ ipFail'[i] \in {ipFail[i], NoEntry}
            \/ \E l \in Logins : /\ login[l].pc = "ipFail" /\ login[l].ip = i
                                 /\ CountPair(l) /\ login'[l].pc \in Delayed
         /\ \/ ipLock'[i] \in {ipLock[i], NoEntry}
            \/ \E l \in Logins : login[l].pc = "setIpLock" /\ login[l].ip = i
<1>1. ipFail \in [Ips -> Entry] /\ ipLock \in [Ips -> Entry] /\ LockoutTyped
  BY DEF Ordered, LockoutTyped, LockoutTypeOK
<1>2. CASE UNCHANGED pairs
  BY <1>1, <1>2 DEF pairs
<1>3. ASSUME NEW l \in Logins,
             \/ signIn(l) \/ ReadLock(l) \/ ReadIpLock(l) \/ Reserve(l) \/ verifyPassword(l)
             \/ Fail(l) \/ Strike(l) \/ ForgetFailures(l) \/ ForgetSlots(l) \/ SetLock(l)
      PROVE  UNCHANGED pairs
  BY <1>3 DEF signIn, ReadLock, ReadIpLock, Reserve, CountSlot, verifyPassword, Fail, CountFailure, Strike,
              CountStrike, ForgetFailures, ForgetSlots, SetLock, pairs
<1>4. ASSUME NEW l \in Logins, login[l].pc = "ipFail", login'[l].pc \in Delayed, CountPair(l)
      PROVE  /\ \/ ipFail'[i] \in {ipFail[i], NoEntry}
                \/ \E m \in Logins : /\ login[m].pc = "ipFail" /\ login[m].ip = i
                                     /\ CountPair(m) /\ login'[m].pc \in Delayed
             /\ \/ ipLock'[i] \in {ipLock[i], NoEntry}
                \/ \E m \in Logins : login[m].pc = "setIpLock" /\ login[m].ip = i
  <2>1. UNCHANGED ipLock /\ (login[l].ip # i => ipFail'[i] = ipFail[i])
    BY <1>1, <1>4 DEF CountPair
  <2> QED
    BY <1>4, <2>1
<1>5. ASSUME NEW l \in Logins, FailPair(l)
      PROVE  login[l].pc = "ipFail" /\ login'[l].pc \in Delayed /\ CountPair(l)
  <2>1. login[l].pc = "ipFail" /\ CountPair(l)
    BY <1>5 DEF FailPair, Doing
  <2>2. login'[l].pc \in Delayed
    <3>1. login \in [Logins -> Signing]
      BY <1>1 DEF LockoutTyped, LockoutTypeOK
    <3> QED
      BY <1>5, <3>1 DEF FailPair, Goes, Delayed, Signing
  <2> QED
    BY <2>1, <2>2
<1>6. ASSUME NEW l \in Logins, SetIpLock(l) \/ recordSuccess(l)
      PROVE  /\ ipFail'[i] \in {ipFail[i], NoEntry}
             /\ \/ ipLock'[i] \in {ipLock[i], NoEntry}
                \/ login[l].pc = "setIpLock" /\ login[l].ip = i
  BY <1>1, <1>6 DEF SetIpLock, recordSuccess, RefundSlots, Doing, account, pairs, counted
<1>7. ASSUME NEW l \in Logins, StoreFails(l)
      PROVE  UNCHANGED pairs \/ (login[l].pc = "ipFail" /\ login'[l].pc \in Delayed /\ CountPair(l))
  <2>1. login[l].pc = "ipFail" => login'[l].pc \in Delayed
    <3>1. Excused("ipFail") = "wrong"
      BY DEF Excused, Asking, Failing
    <3> QED
      BY <1>1, <1>7, <3>1, Moved DEF StoreFails, Delayed
  <2> QED
    BY <1>7, <2>1 DEF StoreFails, CountSlot, CountFailure, CountStrike, Doing, pairs
<1>8. CASE unlock \/ UnlockStep \/ UnlockFails \/ Passes \/ UNCHANGED lockoutVars
  <2>1. CASE UnlockStep
    <3>1. admin.left \subseteq Ips
      BY <1>1 DEF LockoutTyped, LockoutTypeOK, Unlocking
    <3> QED
      BY <1>1, <2>1, <3>1 DEF UnlockStep, Lists, RefundSlots, pairs
  <2>2. CASE unlock \/ UnlockFails \/ Passes \/ UNCHANGED lockoutVars
    <3>1. UNCHANGED pairs
      BY <2>2 DEF unlock, UnlockFails, Passes, lockoutVars, pairs
    <3> QED
      BY <1>2, <3>1
  <2> QED
    BY <1>8, <2>1, <2>2
<1> QED
  <2>1. ASSUME NEW l \in Logins, LoginStep(l)
        PROVE  \/ UNCHANGED pairs
               \/ login[l].pc = "ipFail" /\ login'[l].pc \in Delayed /\ CountPair(l)
               \/ SetIpLock(l) \/ recordSuccess(l)
    BY <1>3, <1>5, <2>1 DEF LoginStep
  <2> QED
    BY <1>2, <1>4, <1>6, <1>7, <1>8, <2>1 DEF LockoutNext

\* The sign-ins that were counted against a client.
Missed(i) == {l \in failed : login[l].ip = i /\ login[l].pc \in Delayed}
Overdue(i) == Cardinality(Missed(i)) > Grace
Delays ==
  /\ \A i \in Ips : ipFail[i].value <= Cardinality(Missed(i)) /\ (ipLock[i].value # 0 => Overdue(i))
  /\ \A l \in Logins, i \in Ips : login[l].pc = "setIpLock" /\ login[l].ip = i => Overdue(i)

LEMMA MissedGrows ==
  ASSUME Ordered, [LockoutNext]_lockoutVars
  PROVE  \A i \in Ips : /\ Missed(i) \subseteq Missed(i)' /\ Missed(i)' \subseteq Logins /\ Missed(i) \subseteq Logins
                        /\ Cardinality(Missed(i)) <= Cardinality(Missed(i)')
                        /\ Cardinality(Missed(i)) \in Nat /\ Cardinality(Missed(i)') \in Nat
                        /\ Overdue(i) => Overdue(i)'
<1>1. Ordered' /\ failed \subseteq failed' /\ \A l \in Logins : Past(l)
  BY OrderedKept
<1>2. failed \subseteq Logins /\ failed' \subseteq Logins
  BY <1>1 DEF Ordered, LockoutTyped, LockoutTypeOK
<1>3. ASSUME NEW i \in Ips
      PROVE  Missed(i) \subseteq Missed(i)' /\ Missed(i)' \subseteq Logins /\ Missed(i) \subseteq Logins
  BY <1>1, <1>2 DEF Missed, Past, Delayed, Locked
<1>4. ASSUME NEW i \in Ips
      PROVE  /\ Cardinality(Missed(i)) <= Cardinality(Missed(i)')
             /\ Cardinality(Missed(i)) \in Nat /\ Cardinality(Missed(i)') \in Nat
  BY <1>3, Sizes
<1>5. \A i \in Ips : Overdue(i) => Overdue(i)'
  BY <1>4, ConfigAssumption DEF Overdue
<1> QED
  BY <1>3, <1>4, <1>5

LEMMA DelaysKept ==
  ASSUME Ordered, Delays, [LockoutNext]_lockoutVars
  PROVE  Delays'
<1>1. Ordered' /\ failed \subseteq failed' /\ \A l \in Logins : Past(l)
  BY OrderedKept
<1>2. LockoutTyped /\ LockoutTypeOK /\ LockoutTypeOK'
  BY <1>1 DEF Ordered, LockoutTyped
<1>3. ASSUME NEW l \in Logins, NEW i \in Ips, login[l].pc = "ipFail", login[l].ip = i,
             login'[l].pc \in Delayed, CountPair(l)
      PROVE  ipFail'[i].value <= Cardinality(Missed(i)')
  <2> DEFINE v == ipFail[i].value
             w == ipFail'[i].value
             c == Cardinality(Missed(i))
             d == Cardinality(Missed(i)')
  <2>1. ipFail \in [Ips -> Entry]
    BY <1>2 DEF LockoutTypeOK
  <2>2. v \in Nat /\ w \in {1, v + 1}
    BY <2>1, <1>3 DEF CountPair, Incremented, Entry
  <2>3. c \in Nat /\ d \in Nat /\ v <= c
    BY MissedGrows DEF Delays
  <2>4. l \in failed /\ l \notin Missed(i)
    BY <1>3 DEF Ordered, Once, InStrike, Locked, Missed, Delayed
  <2>5. l \in Missed(i)'
    <3>1. login'[l].ip = i
      BY <1>1, <1>3 DEF Past
    <3> QED
      BY <1>1, <1>3, <2>4, <3>1 DEF Missed
  <2>6. c + 1 <= d
    <3>1. Missed(i) \subseteq Logins /\ Missed(i)' \subseteq Logins /\ Missed(i) \cup {l} \subseteq Missed(i)'
      <4>1. Missed(i) \subseteq Logins /\ Missed(i)' \subseteq Logins /\ Missed(i) \subseteq Missed(i)'
        BY MissedGrows
      <4> QED
        BY <2>5, <4>1
    <3>2. Cardinality(Missed(i) \cup {l}) = c + 1
      BY <2>4, <3>1, Sizes
    <3>3. Cardinality(Missed(i) \cup {l}) <= d
      BY <3>1, Sizes
    <3> QED
      BY <3>2, <3>3
  <2> HIDE DEF c, d, v, w
  <2>7. w <= d
    BY <2>2, <2>3, <2>6
  <2> QED
    BY <2>7 DEF w, d
<1>4. ASSUME NEW i \in Ips
      PROVE  ipFail'[i].value <= Cardinality(Missed(i)')
  <2>1. CASE ipFail'[i] = ipFail[i]
    <3>1. ipFail[i].value \in Nat /\ ipFail[i].value <= Cardinality(Missed(i))
      BY <1>2 DEF LockoutTypeOK, Entry, Delays
    <3> QED
      BY <2>1, <3>1, MissedGrows
  <2>2. CASE ipFail'[i] = NoEntry
    BY <2>2, MissedGrows DEF NoEntry
  <2> QED
    BY <1>3, <2>1, <2>2, ClientChanges
<1>5. ASSUME NEW i \in Ips, ipLock'[i].value # 0
      PROVE  Overdue(i)'
  <2>1. Overdue(i)
    BY <1>5, ClientChanges DEF Delays, NoEntry
  <2> QED
    BY <2>1, MissedGrows
<1>6. ASSUME NEW l \in Logins, NEW i \in Ips, login'[l].pc = "setIpLock", login'[l].ip = i
      PROVE  Overdue(i)'
  <2>1. CASE login[l].pc = "setIpLock"
    <3>1. login[l].ip = i /\ Overdue(i)
      BY <1>1, <1>6, <2>1 DEF Past, Delays
    <3> QED
      BY <3>1, MissedGrows
  <2>2. CASE login[l].pc # "setIpLock"
    <3>1. LoginStep(l) \/ StoreFails(l)
      <4>1. \A m \in Logins : LoginStep(m) \/ StoreFails(m) => m = l
        BY <1>2, <1>6, <2>2, Moved
      <4>2. ~(unlock \/ UnlockStep \/ UnlockFails \/ Passes \/ UNCHANGED lockoutVars)
        BY <1>6, <2>2, OtherSteps
      <4> QED
        BY <4>1, <4>2 DEF LockoutNext
    <3>2. FailPair(l) /\ ipFail'[login[l].ip].value > Grace
      <4>1. ~StoreFails(l)
        BY <1>2, <1>6, <3>1, Moved DEF StoreFails, Excused
      <4>2. Counts(l) /\ LoginStep(l)
        BY <1>2, <3>1, <4>1, EachCounts
      <4>3. login[l].pc \in {"fail", "unslot", "setLock", "ipFail"}
        BY <1>6, <2>2, <4>2 DEF Counts, Asking, Refunding, InStrike, Locked, Delayed
      <4>4. Fail(l) \/ ForgetSlots(l) \/ SetLock(l) \/ FailPair(l)
        BY <4>2, <4>3 DEF LoginStep, signIn, ReadLock, ReadIpLock, Reserve, verifyPassword, Strike,
                          ForgetFailures, SetIpLock, recordSuccess, Doing
      <4>5. \A p : Goes(l, p) => p = "setIpLock"
        BY <1>2, <1>6, <3>1, Moved
      <4> QED
        BY <4>4, <4>5 DEF Fail, ForgetSlots, SetLock, FailPair, Pair
    <3>3. login[l].pc = "ipFail" /\ CountPair(l) /\ login'[l].pc \in Delayed
      BY <1>6, <3>2 DEF FailPair, Doing, Delayed
    <3>4. login[l].ip = i
      BY <1>1, <1>6, <3>3 DEF Past
    <3> DEFINE w == ipFail'[i].value
               d == Cardinality(Missed(i)')
    <3>5. w \in Nat /\ d \in Nat
      BY <1>2, MissedGrows DEF LockoutTypeOK, Entry
    <3>6. w <= d /\ w > Grace
      BY <1>4, <3>2, <3>4
    <3>7. d > Grace
      <4> HIDE DEF w, d
      <4> QED
        BY <3>5, <3>6, ConfigAssumption
    <3> QED
      BY <3>7 DEF Overdue
  <2> QED
    BY <2>1, <2>2
<1>7. \A i \in Ips : ipFail'[i].value <= Cardinality(Missed(i)') /\ (ipLock'[i].value # 0 => Overdue(i)')
  BY <1>4, <1>5
<1>8. \A l \in Logins, i \in Ips : login'[l].pc = "setIpLock" /\ login'[l].ip = i => Overdue(i)'
  BY <1>6
<1> QED
  BY <1>7, <1>8 DEF Delays

\* A client is delayed only for more than Grace wrong passwords it gave, for any
\* number of sign-ins counted at once and forgotten in between.
THEOREM DelaysAreEarnedTheorem == LockoutSpec => []DelaysAreEarned
<1>1. LockoutInit => Delays
  <2> SUFFICES ASSUME LockoutInit PROVE Delays
    OBVIOUS
  <2>1. \A l \in Logins : login[l].pc = "idle"
    BY DEF LockoutInit
  <2>2. \A i \in Ips : ipFail[i].value = 0 /\ ipLock[i].value = 0 /\ Missed(i) = {}
    BY DEF LockoutInit, NoEntry, Missed
  <2>3. Cardinality({}) = 0
    BY FS_EmptySet
  <2>4. \A i \in Ips : Cardinality(Missed(i)) = 0
    BY <2>2, <2>3
  <2>5. \A i \in Ips : ipFail[i].value <= Cardinality(Missed(i)) /\ (ipLock[i].value # 0 => Overdue(i))
    BY <2>2, <2>4
  <2>6. \A l \in Logins, i \in Ips : login[l].pc = "setIpLock" /\ login[l].ip = i => Overdue(i)
    BY <2>1
  <2> QED
    BY <2>5, <2>6 DEF Delays
<1>2. Ordered /\ Delays /\ [LockoutNext]_lockoutVars => Delays'
  BY DelaysKept
<1>3. Ordered /\ Delays => DelaysAreEarned
  <2> SUFFICES ASSUME Ordered, Delays, NEW i \in Ips, Stored(ipLock[i]) # 0
               PROVE  Cardinality({l \in failed : login[l].ip = i}) > Grace
    BY DEF DelaysAreEarned
  <2> DEFINE S == {l \in failed : login[l].ip = i}
  <2>1. ipLock[i].value # 0
    BY DEF Stored
  <2>2. Overdue(i)
    BY <2>1 DEF Delays
  <2>3. Missed(i) \subseteq S /\ S \subseteq Logins
    BY DEF Missed, Ordered, LockoutTyped, LockoutTypeOK
  <2>4. /\ Cardinality(Missed(i)) <= Cardinality(S)
        /\ Cardinality(Missed(i)) \in Nat /\ Cardinality(S) \in Nat
    BY <2>3, Sizes
  <2> HIDE DEF S
  <2>5. Cardinality(S) > Grace
    BY <2>2, <2>4, ConfigAssumption DEF Overdue
  <2> QED
    BY <2>5 DEF S
<1> QED
  BY <1>1, <1>2, <1>3, LockoutOrdered, PTL DEF LockoutSpec
================================================================================

------------------------------ MODULE TokenFamily ------------------------------
(***************************************************************************)
(* Refresh token families (session/token-family.ts and session/refresh.ts):*)
(* login opens a family and issues its first token, refresh consumes a     *)
(* token and issues the next, a token presented twice revokes the family   *)
(* unless the grace window covers it, logout revokes every family of a     *)
(* user.  A call is a sequence of database statements and calls interleave *)
(* freely; one that is cut short leaves what it has written.               *)
(*                                                                         *)
(* Time counts ticks, Second of them to a second: the used column keeps    *)
(* whole seconds, everything else milliseconds.                            *)
(*                                                                         *)
(* WithinGraceRoundedUp, ClaimableAgain, FamilyUnknown and ReportOnly are  *)
(* not the code: each is a plausible mistake in the definition it          *)
(* precedes, used in its place to confirm that the properties notice it.   *)
(***************************************************************************)
EXTENDS Naturals, FiniteSets

CONSTANTS Users, Families, Tokens, Calls,
          None,       \* no user, family or token
          Second,     \* ticks in a second
          Graces,     \* values of reuseGracePeriod in use, in ticks
          TokenTtl, FamilyTtl,
          MaxTime, MaxCrashes  \* bounds

ASSUME NoneAssumption == None \notin Users \cup Families \cup Tokens
ASSUME TimeAssumption ==
  /\ Second \in Nat \ {0} /\ TokenTtl \in Nat \ {0} /\ FamilyTtl \in Nat \ {0}
  /\ Graces \subseteq Nat /\ MaxTime \in Nat /\ MaxTime >= Second /\ MaxCrashes \in Nat

VARIABLES
  owner,     \* user_id of each family, None before it exists
  absolute,  \* absolute_expires_at of each family
  revoked,   \* revoked column of each family
  familyOf,  \* family_id of each token, None before it exists
  used,      \* used column: 0, or the second the token was consumed
  expires,   \* expires_at of each token
  call,      \* the local variables of each call
  grace,     \* the refresher's configuration
  clock,
  crashes,
  usedAt,    \* history: the exact tick the used column was computed from
  reported   \* history: tokens a caller was told were reused

families == <<owner, absolute, revoked>>
tokens == <<familyOf, used, expires>>
history == <<usedAt, reported>>
vars == <<families, tokens, call, grace, clock, crashes, history>>

--------------------------------------------------------------------------------
Time == Second..MaxTime
Steps == {"idle", "family", "claim", "reread", "revoke", "check", "sign", "issue"}
\* late (history): the family was revoked before the call began.
Call == [pc : Steps, tok : Tokens \cup {None}, fam : Families \cup {None},
         now : 0..MaxTime, used : 0..MaxTime, reuse : BOOLEAN, ttl : 0..FamilyTtl,
         late : BOOLEAN]

Idle == [pc |-> "idle", tok |-> None, fam |-> None, now |-> 0, used |-> 0,
         reuse |-> FALSE, ttl |-> 0, late |-> FALSE]

TypeOK ==
  /\ owner \in [Families -> Users \cup {None}]
  /\ absolute \in [Families -> 0..(MaxTime + FamilyTtl)]
  /\ revoked \in [Families -> BOOLEAN]
  /\ familyOf \in [Tokens -> Families \cup {None}]
  /\ used \in [Tokens -> 0..MaxTime]
  /\ expires \in [Tokens -> 0..(MaxTime + TokenTtl)]
  /\ call \in [Calls -> Call]
  /\ grace \in Graces
  /\ clock \in Time
  /\ crashes \in 0..MaxCrashes
  /\ usedAt \in [Tokens -> 0..MaxTime]
  /\ reported \subseteq Tokens

\* The clock starts one second into the epoch, so that no used column is 0 by
\* accident.
Init ==
  /\ owner = [f \in Families |-> None]
  /\ absolute = [f \in Families |-> 0]
  /\ revoked = [f \in Families |-> FALSE]
  /\ familyOf = [t \in Tokens |-> None]
  /\ used = [t \in Tokens |-> 0]
  /\ expires = [t \in Tokens |-> 0]
  /\ call = [c \in Calls |-> Idle]
  /\ grace \in Graces
  /\ clock = Second
  /\ crashes = 0
  /\ usedAt = [t \in Tokens |-> 0]
  /\ reported = {}

--------------------------------------------------------------------------------
Lesser(a, b) == IF a < b THEN a ELSE b

At(c, pc) == call[c].pc = pc
Go(c, pc) == call' = [call EXCEPT ![c].pc = pc]
Return(c) == call' = [call EXCEPT ![c] = Idle]

\* The used column keeps the second, never 0.
UsedColumn(now) == LET s == now \div Second IN IF s = 0 THEN 1 ELSE s

WithinGraceRoundedUp(u, now) == grace > 0 /\ now <= (u + 1) * Second + grace
WithinGrace(u, now) == grace > 0 /\ now <= u * Second + grace

ClaimableAgain(t) == familyOf[t] # None
\* refreshTokens.claim: UPDATE ... SET used WHERE used = 0
Claimable(t) == used[t] = 0

--------------------------------------------------------------------------------
(* issueInitial(): createFamily, then the first token *)

Login(c, u, f) ==
  /\ call[c] = Idle
  /\ owner[f] = None
  /\ owner' = [owner EXCEPT ![f] = u]
  /\ absolute' = [absolute EXCEPT ![f] = clock + FamilyTtl]
  /\ call' = [call EXCEPT ![c] = [Idle EXCEPT !.pc = "sign", !.fam = f]]
  /\ UNCHANGED <<revoked, tokens, grace, clock, crashes, history>>

(* buildRefreshResult(): the lifetime is cut to the family's before the access
   token is signed, the refresh token is inserted after.  refresh() first asks
   isFamilyActive once more; only the deadline can have changed, the revoked
   flag it looks at is the copy read before. *)

Sign(c) ==
  LET f == call[c].fam
      left == IF absolute[f] > clock THEN absolute[f] - clock ELSE 0 IN
  /\ At(c, "sign") \/ (At(c, "check") /\ absolute[f] > clock)
  /\ call' = [call EXCEPT ![c].pc = "issue", ![c].ttl = Lesser(TokenTtl, left)]
  /\ UNCHANGED <<families, tokens, grace, clock, crashes, history>>

AbsoluteTimeout(c) ==
  /\ At(c, "check") /\ absolute[call[c].fam] <= clock
  /\ Return(c)
  /\ UNCHANGED <<families, tokens, grace, clock, crashes, history>>

Issue(c, t) ==
  /\ At(c, "issue")
  /\ familyOf[t] = None
  /\ familyOf' = [familyOf EXCEPT ![t] = call[c].fam]
  /\ expires' = [expires EXCEPT ![t] = clock + call[c].ttl]
  /\ Return(c)
  /\ UNCHANGED <<families, used, grace, clock, crashes, history>>

(* revokeAll(): every family of the user, one UPDATE *)

RevokeAll(u) ==
  /\ \E f \in Families : owner[f] = u /\ ~revoked[f]
  /\ revoked' = [f \in Families |-> revoked[f] \/ owner[f] = u]
  /\ UNCHANGED <<owner, absolute, tokens, call, grace, clock, crashes, history>>

--------------------------------------------------------------------------------
(* refresh() and consumeToken() *)

Present(c, t) ==
  /\ call[c] = Idle
  /\ familyOf[t] # None
  /\ call' = [call EXCEPT ![c] = [Idle EXCEPT !.pc = "family", !.tok = t, !.fam = familyOf[t],
                                    !.now = clock, !.used = used[t],
                                    !.late = revoked[familyOf[t]]]]
  /\ UNCHANGED <<families, tokens, grace, clock, crashes, history>>

FamilyUnknown(f) == owner[f] = None
FamilyDead(f) == revoked[f]

\* The family row is read, then the call decides on its two snapshots.
ReadFamily(c) ==
  LET l == call[c]
      fresh == /\ ~FamilyDead(l.fam)
               /\ absolute[l.fam] > l.now /\ expires[l.tok] > l.now IN
  /\ At(c, "family")
  /\ \/ /\ FamilyDead(l.fam)
        /\ Return(c)
     \/ /\ ~FamilyDead(l.fam) /\ absolute[l.fam] <= l.now
        /\ Go(c, "revoke")
     \/ /\ ~FamilyDead(l.fam) /\ absolute[l.fam] > l.now /\ expires[l.tok] <= l.now
        /\ Return(c)
     \/ /\ fresh /\ l.used # 0 /\ WithinGrace(l.used, l.now)
        /\ Go(c, "check")
     \/ /\ fresh /\ l.used # 0 /\ ~WithinGrace(l.used, l.now)
        /\ call' = [call EXCEPT ![c].pc = "revoke", ![c].reuse = TRUE]
     \/ /\ fresh /\ l.used = 0
        /\ Go(c, "claim")
  /\ UNCHANGED <<families, tokens, grace, clock, crashes, history>>

\* One caller of several claims the token.
ClaimToken(c) ==
  LET t == call[c].tok IN
  /\ At(c, "claim")
  /\ \/ /\ Claimable(t)
        /\ used' = [used EXCEPT ![t] = UsedColumn(call[c].now)]
        /\ usedAt' = [usedAt EXCEPT ![t] = call[c].now]
        /\ Go(c, "check")
     \/ /\ ~Claimable(t)
        /\ call' = IF grace > 0
                   THEN [call EXCEPT ![c].pc = "reread"]
                   ELSE [call EXCEPT ![c].pc = "revoke", ![c].reuse = TRUE]
        /\ UNCHANGED <<used, usedAt>>
  /\ UNCHANGED <<families, familyOf, expires, grace, clock, crashes, reported>>

\* A loser of that race inside the grace window is an overlapping refresh.
Reread(c) ==
  /\ At(c, "reread")
  /\ call' = IF WithinGrace(used[call[c].tok], call[c].now)
             THEN [call EXCEPT ![c].pc = "check"]
             ELSE [call EXCEPT ![c].pc = "revoke", ![c].reuse = TRUE]
  /\ UNCHANGED <<families, tokens, grace, clock, crashes, history>>

ReportOnly(c) ==
  /\ At(c, "revoke")
  /\ reported' = IF call[c].reuse THEN reported \cup {call[c].tok} ELSE reported
  /\ Return(c)
  /\ UNCHANGED <<families, tokens, grace, clock, crashes, usedAt>>
\* revokeFamily(), and only then the answer.
Revoke(c) ==
  /\ At(c, "revoke")
  /\ revoked' = [revoked EXCEPT ![call[c].fam] = TRUE]
  /\ reported' = IF call[c].reuse THEN reported \cup {call[c].tok} ELSE reported
  /\ Return(c)
  /\ UNCHANGED <<owner, absolute, tokens, grace, clock, crashes, usedAt>>

--------------------------------------------------------------------------------

Crash(c) ==
  /\ call[c] # Idle
  /\ crashes < MaxCrashes
  /\ crashes' = crashes + 1
  /\ Return(c)
  /\ UNCHANGED <<families, tokens, grace, clock, history>>

Tick ==
  /\ clock < MaxTime
  /\ clock' = clock + 1
  /\ UNCHANGED <<families, tokens, call, grace, crashes, history>>

Next ==
  \/ Tick
  \/ \E u \in Users : RevokeAll(u)
  \/ \E c \in Calls :
       \/ \E u \in Users, f \in Families : Login(c, u, f)
       \/ \E t \in Tokens : Present(c, t) \/ Issue(c, t)
       \/ Sign(c) \/ AbsoluteTimeout(c) \/ ReadFamily(c) \/ ClaimToken(c)
       \/ Reread(c) \/ Revoke(c) \/ Crash(c)

Spec == Init /\ [][Next]_vars

--------------------------------------------------------------------------------
(* Properties *)

Unused(f) == {t \in Tokens : familyOf[t] = f /\ used[t] = 0}
\* Calls that are about to issue a token in the family.
Issuing(f) == {c \in Calls : call[c].fam = f /\ call[c].pc \in {"check", "sign", "issue"}}

\* Without a grace window a family is one chain: it never has two tokens that
\* could still be used, nor one while another is about to be issued, whatever
\* tokens are presented twice, raced, or lost with a crash.
OneLiveToken ==
  grace = 0 =>
    \A f \in Families : Cardinality(Unused(f)) + Cardinality(Issuing(f)) <= 1

\* When a caller hears that a token was reused, the family is already dead.
ReuseRevokes == \A t \in reported : revoked[familyOf[t]]

\* No refresh that began after a logout or a detected reuse had revoked the
\* family ever gets as far as claiming or issuing a token.
NoRefreshAfterRevocation ==
  \A c \in Calls : call[c].late => call[c].pc = "family"

\* Rounding the time of use to a second never stretches the grace window: what
\* is accepted is the winner or a replay at most grace after the true time.
GraceNotExceeded ==
  \A c \in Calls : At(c, "check") => call[c].now <= usedAt[call[c].tok] + grace

\* What token-family.ts says of the window: a token consumed less than that
\* long ago is accepted again, so it is never treated as reuse.
GraceHonoured ==
  \A c \in Calls : At(c, "revoke") /\ call[c].reuse => call[c].now >= usedAt[call[c].tok] + grace
================================================================================

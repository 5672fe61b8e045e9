-------------------------------- MODULE Lockout --------------------------------
(***************************************************************************)
(* The lockout of password sign-in (auth/login-lockout.ts, called by       *)
(* signIn() of auth/username.ts and auth/email-password.ts): counters and  *)
(* locks with an expiry in a shared store.  A sign-in takes a slot before  *)
(* its password is checked; a wrong password counts a failure, and the one *)
(* that makes MaxFailures strikes the account, forgets both counters and   *)
(* sets the lock, each with a call of the store of its own; a right one    *)
(* forgets everything but the lock of the account.                         *)
(*                                                                         *)
(* One account: nothing is shared between two.  A call of the store that   *)
(* throws may or may not have counted.                                     *)
(*                                                                         *)
(* OneOver, AtOrOver and Retried are not the code: each is a mistake in    *)
(* the definition it precedes, used in its place to confirm that the       *)
(* properties notice it.                                                   *)
(***************************************************************************)
EXTENDS Naturals, FiniteSets, Sequences

CONSTANTS Logins,      \* sign-ins to the account
          Ips, NoIp,   \* clients, and the sign-in whose client is not known
          MaxFailures, Grace,
          FailureWindow, StrikeWindow,
          LockFor,     \* how long the nth lock lasts, the last for any later one
          DelayFor,    \* how long the nth failure past the grace delays the pair
          FailClosed,  \* failClosed of the configuration
          LastTick, MaxErrors, MaxUnlocks \* bounds

ASSUME LoginsAssumption == IsFiniteSet(Logins) /\ NoIp \notin Ips
ASSUME ConfigAssumption ==
  /\ MaxFailures \in Nat \ {0} /\ Grace \in Nat \ {0}
  /\ FailureWindow \in Nat \ {0} /\ StrikeWindow \in Nat \ {0}
  /\ LockFor \in Seq(Nat \ {0}) /\ LockFor # <<>>
  /\ DelayFor \in Seq(Nat \ {0}) /\ DelayFor # <<>>
  /\ FailClosed \in BOOLEAN
ASSUME LimitAssumption == LastTick \in Nat /\ MaxErrors \in Nat /\ MaxUnlocks \in Nat

VARIABLES
  fail, attempt, strike, lock, \* entries of the account in the store
  ipFail, ipLock,              \* and of the account and each client
  login,    \* the local variables of each sign-in
  admin,    \* and of unlock()
  tick,
  errors, unlocks,
  checked,  \* history: sign-ins whose password is checked
  failed,   \* history: sign-ins that counted a failure
  struck,   \* history: sign-ins that struck the account
  refunds   \* history: how often slots were forgotten without a strike

account == <<fail, attempt, strike, lock>>
pairs == <<ipFail, ipLock>>
counted == <<checked, failed, struck, refunds>>
lockoutVars == <<account, pairs, login, admin, tick, errors, unlocks, counted>>

--------------------------------------------------------------------------------
(* The store *)

Entry == [value : Nat, expires : Nat]
NoEntry == [value |-> 0, expires |-> 0]
Lasting(e) == e.expires > tick
Stored(e) == IF Lasting(e) THEN e.value ELSE 0
Incremented(e, ttl) ==
  IF Lasting(e) THEN [e EXCEPT !.value = @ + 1] ELSE [value |-> 1, expires |-> tick + ttl]
\* The locks keep the time they end, for as long as they last.
LockEntry(now, wait) == [value |-> now + wait, expires |-> tick + wait]
Step(durations, n) == durations[IF n <= Len(durations) THEN n ELSE Len(durations)]

Asking == {"lock", "ipLock", "slot"}
Failing == {"fail", "strike", "unfail", "unslot", "setLock", "ipFail", "setIpLock"}
Refunding == {"okFail", "okSlot", "okStrike", "okIpFail", "okIpLock"}
Ended == {"in", "wrong", "refused"}
Signing == [pc : {"idle", "password"} \cup Asking \cup Failing \cup Refunding \cup Ended,
            ip : Ips \cup {NoIp}, now : Nat, until : Nat, wait : Nat]
Unlocking == [pc : {"idle", "fail", "slot", "strike", "list", "ipFail", "listLocks", "ipLock"}, left : SUBSET Ips]

LockoutTypeOK ==
  /\ fail \in Entry /\ attempt \in Entry /\ strike \in Entry /\ lock \in Entry
  /\ ipFail \in [Ips -> Entry] /\ ipLock \in [Ips -> Entry]
  /\ login \in [Logins -> Signing]
  /\ admin \in Unlocking
  /\ tick \in 0..LastTick /\ errors \in 0..MaxErrors /\ unlocks \in 0..MaxUnlocks
  /\ checked \subseteq Logins /\ failed \subseteq Logins /\ struck \subseteq Logins
  /\ refunds \in Nat

LockoutInit ==
  /\ fail = NoEntry /\ attempt = NoEntry /\ strike = NoEntry /\ lock = NoEntry
  /\ ipFail = [i \in Ips |-> NoEntry] /\ ipLock = [i \in Ips |-> NoEntry]
  /\ login = [l \in Logins |-> [pc |-> "idle", ip |-> NoIp, now |-> 0, until |-> 0, wait |-> 0]]
  /\ admin = [pc |-> "idle", left |-> {}]
  /\ tick = 0 /\ errors = 0 /\ unlocks = 0
  /\ checked = {} /\ failed = {} /\ struck = {} /\ refunds = 0

Doing(l, pc) == login[l].pc = pc
Goes(l, pc) == login' = [login EXCEPT ![l].pc = pc]
Elsewhere == UNCHANGED <<admin, tick, errors, unlocks>>

--------------------------------------------------------------------------------
(* check() *)

signIn(l) ==
  /\ Doing(l, "idle")
  /\ \E ip \in Ips \cup {NoIp} :
       login' = [login EXCEPT ![l].pc = "lock", ![l].ip = ip, ![l].now = tick]
  /\ UNCHANGED <<account, pairs, counted>> /\ Elsewhere

Decides(l, until) ==
  login' = [login EXCEPT ![l].pc = IF until <= login[l].now THEN "slot" ELSE "refused", ![l].until = 0]
Larger(a, b) == IF a >= b THEN a ELSE b
ReadLock(l) ==
  /\ Doing(l, "lock")
  /\ \/ login[l].ip = NoIp /\ Decides(l, Stored(lock))
     \/ login[l].ip # NoIp /\ login' = [login EXCEPT ![l].pc = "ipLock", ![l].until = Stored(lock)]
  /\ UNCHANGED <<account, pairs, counted>> /\ Elsewhere
ReadIpLock(l) ==
  /\ Doing(l, "ipLock")
  /\ Decides(l, Larger(login[l].until, Stored(ipLock[login[l].ip])))
  /\ UNCHANGED <<account, pairs, counted>> /\ Elsewhere

\* A window that has passed gives the account its slots back.
Lapsed == attempt.value # 0 /\ ~Lasting(attempt)
CountSlot ==
  /\ attempt' = Incremented(attempt, FailureWindow)
  /\ refunds' = IF Lapsed THEN refunds + 1 ELSE refunds
  /\ UNCHANGED <<fail, strike, lock, pairs, failed, struck>>
OneOver(slots) == slots > MaxFailures + 1
Over(slots) == slots > MaxFailures
Reserve(l) ==
  /\ Doing(l, "slot")
  /\ CountSlot
  /\ \/ Over(attempt'.value) /\ Goes(l, "refused") /\ UNCHANGED checked
     \/ ~Over(attempt'.value) /\ Goes(l, "password") /\ checked' = checked \cup {l}
  /\ Elsewhere

\* The password is the one of the account, or there is no such account or it is not.
verifyPassword(l) ==
  /\ Doing(l, "password")
  /\ \/ Goes(l, "okFail")
     \/ login' = [login EXCEPT ![l].pc = "fail", ![l].now = tick]
  /\ UNCHANGED <<account, pairs, counted>> /\ Elsewhere

--------------------------------------------------------------------------------
(* recordFailure() *)

CountFailure(l) ==
  /\ fail' = Incremented(fail, FailureWindow)
  /\ failed' = failed \cup {l}
  /\ UNCHANGED <<attempt, strike, lock, pairs, checked, struck, refunds>>
CountStrike ==
  /\ strike' = Incremented(strike, StrikeWindow)
  /\ UNCHANGED <<fail, attempt, lock, pairs, checked, failed, refunds>>
Retried(l) ==
  /\ ipFail' = [ipFail EXCEPT ![login[l].ip] = Incremented(Incremented(@, FailureWindow), FailureWindow)]
  /\ UNCHANGED <<account, ipLock, counted>>
CountPair(l) ==
  /\ ipFail' = [ipFail EXCEPT ![login[l].ip] = Incremented(@, FailureWindow)]
  /\ UNCHANGED <<account, ipLock, counted>>

\* Then the account and its client.
Pair(l) == IF login[l].ip = NoIp THEN "wrong" ELSE "ipFail"
AtOrOver(failures) == failures >= MaxFailures
Crosses(failures) == failures = MaxFailures
Fail(l) ==
  /\ Doing(l, "fail")
  /\ CountFailure(l)
  /\ Goes(l, IF Crosses(fail'.value) THEN "strike" ELSE Pair(l))
  /\ Elsewhere
Strike(l) ==
  /\ Doing(l, "strike")
  /\ CountStrike
  /\ struck' = struck \cup {l}
  /\ login' = [login EXCEPT ![l].pc = "unfail", ![l].wait = Step(LockFor, strike'.value)]
  /\ Elsewhere
ForgetFailures(l) ==
  /\ Doing(l, "unfail") /\ Goes(l, "unslot")
  /\ fail' = NoEntry
  /\ UNCHANGED <<attempt, strike, lock, pairs, counted>> /\ Elsewhere
ForgetSlots(l) ==
  /\ Doing(l, "unslot") /\ Goes(l, "setLock")
  /\ attempt' = NoEntry
  /\ UNCHANGED <<fail, strike, lock, pairs, counted>> /\ Elsewhere
SetLock(l) ==
  /\ Doing(l, "setLock") /\ Goes(l, Pair(l))
  /\ lock' = LockEntry(login[l].now, login[l].wait)
  /\ UNCHANGED <<fail, attempt, strike, pairs, counted>> /\ Elsewhere

FailPair(l) ==
  LET hits == ipFail'[login[l].ip].value IN
  /\ Doing(l, "ipFail")
  /\ CountPair(l)
  /\ \/ hits <= Grace /\ Goes(l, "wrong")
     \/ /\ hits > Grace
        /\ login' = [login EXCEPT ![l].pc = "setIpLock", ![l].wait = Step(DelayFor, hits - Grace)]
  /\ Elsewhere
SetIpLock(l) ==
  /\ Doing(l, "setIpLock") /\ Goes(l, "wrong")
  /\ ipLock' = [ipLock EXCEPT ![login[l].ip] = LockEntry(login[l].now, login[l].wait)]
  /\ UNCHANGED <<account, ipFail, counted>> /\ Elsewhere

--------------------------------------------------------------------------------
(* recordSuccess(), unlock(), failures of the store *)

RefundSlots ==
  /\ attempt' = NoEntry
  /\ refunds' = refunds + 1
  /\ UNCHANGED <<checked, failed, struck>>
recordSuccess(l) ==
  /\ \/ /\ Doing(l, "okFail") /\ Goes(l, "okSlot")
        /\ fail' = NoEntry
        /\ UNCHANGED <<attempt, strike, lock, pairs, counted>>
     \/ /\ Doing(l, "okSlot") /\ Goes(l, "okStrike")
        /\ RefundSlots
        /\ UNCHANGED <<fail, strike, lock, pairs>>
     \/ /\ Doing(l, "okStrike") /\ Goes(l, IF login[l].ip = NoIp THEN "in" ELSE "okIpFail")
        /\ strike' = NoEntry
        /\ UNCHANGED <<fail, attempt, lock, pairs, counted>>
     \/ /\ Doing(l, "okIpFail") /\ Goes(l, "okIpLock")
        /\ ipFail' = [ipFail EXCEPT ![login[l].ip] = NoEntry]
        /\ UNCHANGED <<account, ipLock, counted>>
     \/ /\ Doing(l, "okIpLock") /\ Goes(l, "in")
        /\ ipLock' = [ipLock EXCEPT ![login[l].ip] = NoEntry]
        /\ UNCHANGED <<account, ipFail, counted>>
  /\ Elsewhere

unlock ==
  /\ admin.pc = "idle" /\ unlocks < MaxUnlocks
  /\ unlocks' = unlocks + 1
  /\ admin' = [admin EXCEPT !.pc = "fail"]
  /\ lock' = NoEntry
  /\ UNCHANGED <<fail, attempt, strike, pairs, login, tick, errors, counted>>
Turns(from, to) == admin.pc = from /\ admin' = [admin EXCEPT !.pc = to]
\* The entries of the clients, if the store can list them.
Lists(from, to, entries) ==
  /\ admin.pc = from
  /\ admin' = [pc |-> to, left |-> {i \in Ips : Lasting(entries[i])}]
  /\ UNCHANGED <<account, pairs, counted>>
UnlockStep ==
  /\ \/ /\ Turns("fail", "slot") /\ fail' = NoEntry
        /\ UNCHANGED <<attempt, strike, lock, pairs, counted>>
     \/ /\ Turns("slot", "strike") /\ RefundSlots
        /\ UNCHANGED <<fail, strike, lock, pairs>>
     \/ /\ Turns("strike", "list") \/ Turns("strike", "idle")
        /\ strike' = NoEntry
        /\ UNCHANGED <<fail, attempt, lock, pairs, counted>>
     \/ Lists("list", "ipFail", ipFail)
     \/ \E i \in admin.left :
          /\ admin.pc = "ipFail" /\ admin' = [admin EXCEPT !.left = @ \ {i}]
          /\ ipFail' = [ipFail EXCEPT ![i] = NoEntry]
          /\ UNCHANGED <<account, ipLock, counted>>
     \/ admin.left = {} /\ Turns("ipFail", "listLocks") /\ UNCHANGED <<account, pairs, counted>>
     \/ Lists("listLocks", "ipLock", ipLock)
     \/ \E i \in admin.left :
          /\ admin.pc = "ipLock" /\ admin' = [admin EXCEPT !.left = @ \ {i}]
          /\ ipLock' = [ipLock EXCEPT ![i] = NoEntry]
          /\ UNCHANGED <<account, ipFail, counted>>
     \/ admin.left = {} /\ Turns("ipLock", "idle") /\ UNCHANGED <<account, pairs, counted>>
  /\ UNCHANGED <<login, tick, errors, unlocks>>

StoreError == errors < MaxErrors /\ errors' = errors + 1 /\ UNCHANGED <<tick, unlocks>>
\* check() lets the sign-in through or refuses it, the other two give up.
Excused(pc) ==
  IF pc \in Asking THEN (IF FailClosed THEN "refused" ELSE "password")
  ELSE IF pc \in Failing THEN "wrong" ELSE "in"
\* A deletion or a lock that was written before its call threw is the next call
\* throwing; a count is lost on the sign-in.
StoreFails(l) ==
  /\ StoreError
  /\ login[l].pc \in Asking \cup Failing \cup Refunding
  /\ Goes(l, Excused(login[l].pc))
  /\ checked' = IF Excused(login[l].pc) = "password" THEN checked \cup {l} ELSE checked
  /\ \/ UNCHANGED <<account, pairs, failed, struck, refunds>>
     \/ Doing(l, "slot") /\ CountSlot
     \/ Doing(l, "fail") /\ CountFailure(l)
     \/ Doing(l, "strike") /\ CountStrike /\ UNCHANGED struck
     \/ Doing(l, "ipFail") /\ CountPair(l)
  /\ UNCHANGED admin
UnlockFails ==
  /\ StoreError
  /\ admin.pc # "idle" /\ admin' = [pc |-> "idle", left |-> {}]
  /\ UNCHANGED <<account, pairs, counted, login>>

Passes ==
  /\ tick < LastTick
  /\ tick' = tick + 1
  /\ UNCHANGED <<account, pairs, login, admin, errors, unlocks, counted>>

LoginStep(l) ==
  \/ signIn(l) \/ ReadLock(l) \/ ReadIpLock(l) \/ Reserve(l) \/ verifyPassword(l)
  \/ Fail(l) \/ Strike(l) \/ ForgetFailures(l) \/ ForgetSlots(l) \/ SetLock(l) \/ FailPair(l) \/ SetIpLock(l)
  \/ recordSuccess(l)
LockoutNext ==
  \/ \E l \in Logins : LoginStep(l) \/ StoreFails(l)
  \/ unlock \/ UnlockStep \/ UnlockFails \/ Passes
LockoutSpec == LockoutInit /\ [][LockoutNext]_lockoutVars

--------------------------------------------------------------------------------
(* Properties *)

\* Every further MaxFailures passwords that are checked cost a strike, which
\* makes the next lock longer, unless a right password, unlock() or the end of
\* the window gave the account its slots back: the strike is counted before the
\* slots are forgotten, so that no order of the calls buys guesses for less.  A
\* call of the store that throws buys one guess at most, the one that failClosed
\* would refuse, and wherever else it throws, or with failClosed, none.
Unpaid == IF FailClosed THEN 0 ELSE errors
ChecksArePaid ==
  Cardinality(checked) <= MaxFailures * (1 + Cardinality(struck) + refunds) + Unpaid

\* "Exactly one concurrent failure crosses the threshold" (login-lockout.ts:222):
\* the account is never struck for fewer than MaxFailures failures of its own,
\* however many are counted at the same time.
StrikesAreEarned == MaxFailures * Cardinality(struck) <= Cardinality(failed)

\* A client is delayed only for more than Grace wrong passwords it gave, which
\* holds although its own failures are counted at the same time, and forgotten
\* in between by a right password or by unlock().
DelaysAreEarned ==
  \A i \in Ips : Stored(ipLock[i]) # 0 => Cardinality({l \in failed : login[l].ip = i}) > Grace

\* What login-lockout.ts:8 says: "a parallel burst of N guesses performs at most
\* `maxFailures` password checks".
BurstIsCapped ==
  tick = 0 /\ errors = 0 /\ refunds = 0 => Cardinality(checked) <= MaxFailures

\* What login-lockout.ts:5 says: "Each repeat lockout inside `strikeWindowSeconds`
\* doubles the lock", so that once nobody is about to set it, it is that of the
\* last strike.
RepeatIsLonger ==
  /\ tick = 0 /\ errors = 0 /\ refunds = 0 /\ unlocks = 0 /\ strike.value # 0
  /\ \A l \in Logins : login[l].pc \notin {"unfail", "unslot", "setLock"}
  => lock.value = Step(LockFor, strike.value)
================================================================================

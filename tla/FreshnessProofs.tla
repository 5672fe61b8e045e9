----------------------------- MODULE FreshnessProofs -----------------------------
(***************************************************************************)
(* The safety invariants of Freshness, for every number of instances,      *)
(* checks and revocations and every bound on time and failures.            *)
(*                                                                         *)
(* The argument: what an instance owes its callers, it owes from a moment  *)
(* on, that of a clear.  A read that began after the token died sees it    *)
(* dead (Sees), and one that began before the clear has been overtaken by  *)
(* it, so its verdict is neither kept nor answered.  A poll clears because *)
(* the fingerprint it compares with is from before the row (Polls).        *)
(***************************************************************************)
EXTENDS Freshness, FiniteSetTheorems, TLAPS

\* Where something of the instance has to be gone from memory.
Cleared == settled \cup noticed

\* The reads that c has still to do will show it that the token is dead, or
\* one has.
Sees(c) ==
  \/ check[c].verdict = "dead"
  \/ "denylist" \in check[c].unread /\ Denied
  \/ "agents" \in check[c].unread /\ ~authority

\* The leader of a read waits for itself; who joined it is overtaken with it.
Leads(c) ==
  LET l == check[c].leader IN
  /\ l # None <=> check[c].pc = "await"
  /\ l # None => /\ check[l].leader = l
                 /\ check[l].at = check[c].at /\ check[l].overtaken = check[c].overtaken
                 /\ check[c].how = IF l = c THEN "read" ELSE "joined"
  /\ check[c].pc = "resume" => check[c].how \in {"read", "joined"}
  /\ check[c].pc \in {"poll", "lookup"} => check[c].how = "read" /\ ~check[c].overtaken
  /\ check[c].pc # "idle" => check[c].at # None

\* New checks only join a read that nothing has overtaken.
Flies(i) ==
  LET l == flying[i] IN
  l # None => check[l].leader = l /\ check[l].at = i /\ ~check[l].overtaken

\* What a check is owed stays true.
Owed(c) ==
  /\ check[c].owes # {} => Dead
  /\ "stale" \in check[c].owes => clock >= deadSince + MaxStaleness
  /\ "settled" \in check[c].owes => check[c].at \in settled
  /\ "noticed" \in check[c].owes => check[c].at \in noticed

\* What a read in progress will find.
Reads(c) ==
  Reading(c) =>
    /\ check[c].verdict \in {"live", "dead"}
    /\ check[c].owes # {} => Sees(c)
    /\ check[c].pc = "await" =>
         /\ check[c].started <= clock
         /\ Sees(c) \/ (Dead => check[c].started <= deadSince)
         /\ check[c].at \in Cleared /\ ~check[c].overtaken => Sees(c)

\* What those who waited for a read were told.
Told(c) ==
  check[c].pc = "resume" /\ check[c].verdict = "live" =>
    /\ check[c].how = "read" => check[c].owes = {}
    /\ check[c].at \in Cleared => check[c].overtaken

CheckOK(c) == Leads(c) /\ Owed(c) /\ Reads(c) /\ Told(c)

Cached(i) ==
  cache[i].verdict = "live" =>
    /\ i \notin Cleared
    /\ cache[i].computed <= clock
    /\ Dead => cache[i].computed <= deadSince

Since ==
  /\ deadSince # 0 <=> Dead
  /\ deadSince <= clock /\ clock # 0
  /\ Cleared # {} => Dead

\* A fingerprint from before the first row counts no more than the other one.
Others == IF "other" \in rows THEN 1 ELSE 0
Before(i) == ~Denied \/ i \in knew \ noticed
Polls(i) ==
  /\ i \in noticed => i \in knew
  /\ i \in knew => Denied /\ print[i] # None
  /\ Before(i) /\ print[i] # None => print[i] <= Others
  /\ poll[i].pc = "compare" =>
       IF poll[i].saw THEN Denied /\ (i \in knew \ noticed => poll[i].new > print[i])
       ELSE poll[i].new <= Others

Placed(r) == revoke[r].pc \notin {"idle", "end"} => revoke[r].at # None

Promises == RevokerRefuses /\ PollRefuses /\ StalenessBounded

IInv ==
  /\ TypeOK
  /\ \A c \in Checks : CheckOK(c)
  /\ \A i \in Instances : Flies(i) /\ Cached(i) /\ Polls(i)
  /\ \A r \in Revokers : Placed(r)
  /\ Since
  /\ Promises

--------------------------------------------------------------------------------
(* Types *)

\* The rows are two, so a fingerprint is a count up to two.
LEMMA RowsAreTwo ==
  ASSUME NEW R, R \subseteq Rows
  PROVE  /\ Cardinality(R) = (IF "own" \in R THEN 1 ELSE 0) + (IF "other" \in R THEN 1 ELSE 0)
         /\ Fingerprints = 0..2
<1>1. \A S : S \subseteq Rows => S = (S \cap {"own"}) \cup (S \cap {"other"})
  BY DEF Rows
<1>2. Cardinality({}) = 0 BY FS_EmptySet
<1>3. Cardinality({"own"}) = 1 /\ Cardinality({"other"}) = 1 /\ IsFiniteSet({"own"}) /\ IsFiniteSet({"other"})
  BY FS_Singleton
<1>4. Cardinality({"own", "other"}) = 2
  <2>1. {"own", "other"} = {"other"} \cup {"own"} BY Zenon
  <2> QED BY <2>1, <1>3, FS_AddElement
<1>5. CASE "own" \in R /\ "other" \in R
  <2>1. R = {"own", "other"} BY <1>5 DEF Rows
  <2> QED BY <2>1, <1>4, <1>5 DEF Fingerprints, Rows
<1>6. CASE "own" \in R /\ "other" \notin R
  <2>1. R = {"own"} BY <1>6 DEF Rows
  <2> QED BY <2>1, <1>3, <1>4, <1>6 DEF Fingerprints, Rows
<1>7. CASE "own" \notin R /\ "other" \in R
  <2>1. R = {"other"} BY <1>7 DEF Rows
  <2> QED BY <2>1, <1>3, <1>4, <1>7 DEF Fingerprints, Rows
<1>8. CASE "own" \notin R /\ "other" \notin R
  <2>1. R = {} BY <1>8 DEF Rows
  <2> QED BY <2>1, <1>2, <1>4, <1>8 DEF Fingerprints, Rows
<1> QED BY <1>5, <1>6, <1>7, <1>8

LEMMA FingerprintsAre == Fingerprints = 0..2
<1>1. {} \subseteq Rows OBVIOUS
<1> QED BY <1>1, RowsAreTwo

LEMMA Constants ==
  /\ None \notin Checks /\ None \notin Instances /\ Serving \subseteq Instances
  /\ MaxTime \in Nat /\ MaxTime # 0 /\ MaxFaults \in Nat
  /\ MaxStaleness \in Nat /\ MaxStaleness # 0
  BY NoneAssumption, ServingAssumption, CodeAssumption, BoundAssumption

LEMMA PollTypes ==
  ASSUME TypeOK, NEW i \in Instances
  PROVE  poll[i] \in Poll /\ poll[i].new \in Nat /\ (print[i] # None => print[i] \in Nat)
<1>1. poll[i] \in Poll /\ print[i] \in Fingerprints \cup {None} BY DEF TypeOK
<1>2. poll[i].new \in Fingerprints BY <1>1 DEF Poll
<1> QED BY <1>1, <1>2, FingerprintsAre

LEMMA FailTypes ==
  ASSUME TypeOK, Fault
  PROVE  faults' \in 0..MaxFaults
  BY Constants DEF TypeOK, Fault

LEMMA OvertakeTypes ==
  ASSUME TypeOK, NEW i
  PROVE  /\ Overtake(i) \in [Checks -> Check]
         /\ \A c \in Checks :
              IF check[c].at = i /\ check[c].pc \in {"await", "resume"}
              THEN Overtake(i)[c] = [check[c] EXCEPT !.overtaken = TRUE] /\ Overtake(i)[c].overtaken
              ELSE Overtake(i)[c] = check[c]
<1>1. \A c \in Checks : check[c] \in Check /\ [check[c] EXCEPT !.overtaken = TRUE] \in Check
  <2>1. \A k \in Check : [k EXCEPT !.overtaken = TRUE] \in Check BY DEF Check
  <2>2. \A c \in Checks : check[c] \in Check BY DEF TypeOK
  <2> QED BY <2>1, <2>2
<1>2. \A c \in Checks : [check[c] EXCEPT !.overtaken = TRUE].overtaken = TRUE
  BY <1>1 DEF Check
<1>3. Overtake(i) \in [Checks -> Check]
  <2>1. \A c \in Checks : (IF check[c].at = i /\ check[c].pc \in {"await", "resume"}
                           THEN [check[c] EXCEPT !.overtaken = TRUE] ELSE check[c]) \in Check
    BY <1>1
  <2> QED BY <2>1, Zenon DEF Overtake
<1>4. ASSUME NEW c \in Checks
      PROVE  IF check[c].at = i /\ check[c].pc \in {"await", "resume"}
             THEN Overtake(i)[c] = [check[c] EXCEPT !.overtaken = TRUE] /\ Overtake(i)[c].overtaken
             ELSE Overtake(i)[c] = check[c]
  <2>1. Overtake(i)[c] = IF check[c].at = i /\ check[c].pc \in {"await", "resume"}
                         THEN [check[c] EXCEPT !.overtaken = TRUE] ELSE check[c]
    BY Zenon DEF Overtake
  <2>2. [check[c] EXCEPT !.overtaken = TRUE].overtaken BY <1>2
  <2> QED BY <2>1, <2>2
<1> QED BY <1>3, <1>4

LEMMA ClearTypes ==
  ASSUME TypeOK, NEW i \in Instances, clearPositive(i)
  PROVE  /\ cache' \in [Instances -> Entry] /\ flying' \in [Instances -> Checks \cup {None}]
         /\ check' \in [Checks -> Check]
<1>1. NoEntry \in Entry BY Constants DEF NoEntry, Entry, Time
<1> QED BY <1>1, OvertakeTypes DEF clearPositive, DropLive, TypeOK

LEMMA DiesTypes ==
  ASSUME TypeOK, Dies
  PROVE  deadSince' \in Time
  BY DEF TypeOK, Dies

LEMMA AtInstance ==
  ASSUME TypeOK, NEW c \in Checks, Leads(c), check[c].pc # "idle"
  PROVE  check[c].at \in Instances
  BY DEF TypeOK, Check, Leads

LEMMA OwesTypes == \A i : Owes(i) \subseteq Reasons
  BY DEF Owes

LEMMA NoCheckTypes == NoCheck \in Check /\ NoEntry \in Entry /\ NoPoll \in Poll
<1>1. 0 \in Fingerprints BY FingerprintsAre
<1> QED BY <1>1, Constants DEF NoCheck, Check, NoEntry, Entry, NoPoll, Poll, Time, Ways

\* What an answer was accepted for is one of the reasons.
LEMMA AnswerTypes ==
  ASSUME TypeOK, NEW c \in Checks, NEW verdict, NEW how \in Ways, Answer(c, verdict, how)
  PROVE  check' \in [Checks -> Check] /\ accepted' \subseteq Ways \X Reasons
<1>1. check[c].owes \subseteq Reasons BY DEF TypeOK, Check
<1>2. Wrong(how, c) \subseteq Ways \X Reasons BY <1>1, OwesTypes DEF Wrong
<1>3. check' \in [Checks -> Check] BY NoCheckTypes DEF Answer, TypeOK
<1> QED BY <1>2, <1>3 DEF Answer, TypeOK

LEMMA WakeTypes ==
  ASSUME TypeOK, NEW c \in Checks, NEW verdict \in {"live", "dead", "error"}, Wake(c, verdict)
  PROVE  check' \in [Checks -> Check]
<1>1. \A d \in Checks :
        [NoCheck EXCEPT !.pc = "resume", !.verdict = verdict, !.at = check[d].at, !.overtaken = check[d].overtaken,
                        !.how = check[d].how, !.owes = check[d].owes] \in Check
  BY NoCheckTypes DEF TypeOK, Check, NoCheck
<1> QED BY <1>1 DEF Wake, TypeOK

LEMMA RevocationsTyped ==
  ASSUME TypeOK, NEW r \in Revokers, Placed(r), NEW i \in Instances,
         \/ RevokeAgent(r, i) \/ RevokeUser(r, i) \/ RevokeToken(r, i)
         \/ Publish(r) \/ Push(r) \/ PushFails(r) \/ Settle(r)
  PROVE  TypeOK'
<1> USE Constants
<1>1. CASE RevokeAgent(r, i) BY <1>1, DiesTypes DEF RevokeAgent, TypeOK, Revoke, memory
<1>2. CASE RevokeUser(r, i) BY <1>2 DEF RevokeUser, TypeOK, Revoke, memory, store, history, obligations
<1>3. CASE RevokeToken(r, i) BY <1>3 DEF RevokeToken, TypeOK, Revoke, memory, store, history, obligations
<1>4. CASE Publish(r)
  <2>1. revoke[r].at \in Instances BY <1>4 DEF Publish, Placed, TypeOK, Revoke
  <2>2. /\ cache' \in [Instances -> Entry] /\ flying' \in [Instances -> Checks \cup {None}]
        /\ check' \in [Checks -> Check]
    BY <1>4, <2>1, ClearTypes DEF Publish
  <2> QED BY <1>4, <2>2 DEF Publish, TypeOK, Revoke, store, history, obligations
<1>5. CASE Push(r)
  BY <1>5, DiesTypes DEF Push, Upsert, TypeOK, Revoke, memory, Rows
<1>6. CASE PushFails(r)
  <2>1. rows' \subseteq Rows /\ deadSince' \in Time /\ knew' \subseteq Instances
    BY <1>6, DiesTypes DEF PushFails, Upsert, TypeOK, Rows
  <2>2. revoke' \in [Revokers -> Revoke]
    BY <1>6 DEF PushFails, AfterFailure, TypeOK, Revoke
  <2> QED BY <1>6, <2>1, <2>2, FailTypes DEF PushFails, TypeOK, memory
<1>7. CASE Settle(r)
  <2>1. revoke[r].at \in Instances BY <1>7 DEF Settle, Placed, TypeOK, Revoke
  <2>2. /\ cache' \in [Instances -> Entry] /\ flying' \in [Instances -> Checks \cup {None}]
        /\ check' \in [Checks -> Check]
    BY <1>7, <2>1, ClearTypes DEF Settle
  <2>3. revoke' \in [Revokers -> Revoke] /\ settled' \subseteq Instances
    BY <1>7, <2>1 DEF Settle, TypeOK, Revoke, Ended
  <2> QED BY <1>7, <2>2, <2>3 DEF Settle, TypeOK, store
<1> QED BY <1>1, <1>2, <1>3, <1>4, <1>5, <1>6, <1>7

LEMMA ChecksTyped ==
  ASSUME TypeOK, NEW c \in Checks, Leads(c), Reads(c), NEW i \in Instances,
         \/ checkCached(c, i) \/ LookupHit(c) \/ LookupJoin(c) \/ LookupRead(c)
         \/ ReadDenylist(c) \/ ReadAgents(c) \/ Resolve(c) \/ Resume(c) \/ ReadAgain(c) \/ ReadFails(c)
  PROVE  TypeOK'
<1> USE Constants
<1>a. check[c] \in Check BY DEF TypeOK
<1>1. CASE checkCached(c, i)
  <2>1. check' \in [Checks -> Check]
    BY <1>1, NoCheckTypes, OwesTypes DEF checkCached, TypeOK, Check, NoCheck
  <2>2. poll' \in [Instances -> Poll]
    BY <1>1, NoCheckTypes DEF checkCached, TypeOK, Poll, NoPoll
  <2> QED BY <1>1, <2>1, <2>2 DEF checkCached, TypeOK, store, history, obligations
<1>2. CASE LookupHit(c)
  <2>1. check' \in [Checks -> Check] /\ accepted' \subseteq Ways \X Reasons
    BY <1>2, AnswerTypes DEF LookupHit, Ways
  <2> QED BY <1>2, <2>1 DEF LookupHit, TypeOK, store, memory, obligations
<1>3. CASE LookupJoin(c)
  <2>1. check[c].at \in Instances BY <1>3, AtInstance DEF LookupJoin
  <2>2. flying[check[c].at] \in Checks BY <1>3, <2>1 DEF LookupJoin, TypeOK
  <2>3. check[flying[check[c].at]].overtaken \in BOOLEAN BY <2>2 DEF TypeOK, Check
  <2>4. [check[c] EXCEPT !.pc = "await", !.how = "joined", !.leader = flying[check[c].at],
                         !.overtaken = check[flying[check[c].at]].overtaken] \in Check
    BY <1>a, <2>2, <2>3 DEF Check, Ways
  <2> QED BY <1>3, <2>4 DEF LookupJoin, TypeOK, store, memory, history, obligations
<1>4. CASE LookupRead(c)
  <2>1. check[c].at \in Instances BY <1>4, AtInstance DEF LookupRead
  <2>2. [check[c] EXCEPT !.pc = "await", !.leader = c, !.started = clock, !.unread = Stores, !.verdict = "live"] \in Check
    BY <1>a DEF Check, TypeOK
  <2>3. flying' \in [Instances -> Checks \cup {None}] BY <1>4, <2>1 DEF LookupRead, TypeOK
  <2> QED BY <1>4, <2>2, <2>3 DEF LookupRead, TypeOK, store, history, obligations
<1>5. ASSUME NEW which, NEW dead, ReadStore(c, which, dead)
      PROVE  TypeOK'
  <2>1. [check[c] EXCEPT !.unread = check[c].unread \ {which},
                         !.verdict = IF dead THEN "dead" ELSE check[c].verdict] \in Check
    <3>1. \A u \in SUBSET Stores, v \in {"none", "live", "dead", "error"} :
            [check[c] EXCEPT !.unread = u, !.verdict = v] \in Check
      BY <1>a DEF Check
    <3>2. /\ check[c].unread \ {which} \in SUBSET Stores
          /\ (IF dead THEN "dead" ELSE check[c].verdict) \in {"none", "live", "dead", "error"}
      BY <1>a DEF Check
    <3> QED BY <3>1, <3>2
  <2> QED BY <1>5, <2>1 DEF ReadStore, TypeOK, store, memory, history, obligations
<1>6. CASE Resolve(c)
  <2>1. check[c].at \in Instances BY <1>6, AtInstance DEF Resolve
  <2>2. check[c].verdict \in {"live", "dead"} BY <1>6 DEF Resolve, HasRead, Reads
  <2>3. check' \in [Checks -> Check] BY <1>6, <2>2, WakeTypes DEF Resolve
  <2>4. [verdict |-> check[c].verdict, computed |-> check[c].started] \in Entry
    BY <1>a, <2>2 DEF Check, Entry
  <2>5. cache' \in [Instances -> Entry] BY <1>6, <2>1, <2>4 DEF Resolve, TypeOK
  <2>6. flying' \in [Instances -> Checks \cup {None}] BY <1>6, <2>1 DEF Resolve, Land, TypeOK
  <2> QED BY <1>6, <2>3, <2>5, <2>6 DEF Resolve, TypeOK, store, history, obligations
<1>7. CASE Resume(c)
  <2>1. CASE Answer(c, check[c].verdict, check[c].how)
    <3>1. check[c].how \in Ways BY <1>a DEF Check
    <3>2. check' \in [Checks -> Check] /\ accepted' \subseteq Ways \X Reasons
      BY <2>1, <3>1, AnswerTypes
    <3> QED BY <1>7, <3>2 DEF Resume, TypeOK, store, memory, obligations
  <2>2. CASE check' = [check EXCEPT ![c] = ReadsStores(check[c].at, check[c].owes)] /\ UNCHANGED accepted
    <3>1. ReadsStores(check[c].at, check[c].owes) \in Check
      BY <1>a, NoCheckTypes DEF ReadsStores, Check, NoCheck
    <3> QED BY <1>7, <2>2, <3>1 DEF Resume, TypeOK, store, memory, obligations
  <2> QED BY <1>7, <2>1, <2>2 DEF Resume
<1>8. CASE ReadAgain(c)
  <2>1. check' \in [Checks -> Check] /\ accepted' \subseteq Ways \X Reasons
    BY <1>8, AnswerTypes DEF ReadAgain, Ways
  <2> QED BY <1>8, <2>1 DEF ReadAgain, TypeOK, store, memory, obligations
<1>9. CASE ReadFails(c)
  <2>0. check[c].at \in Instances BY <1>9, AtInstance DEF ReadFails, Reading
  <2>1. CASE Answer(c, "error", "again") /\ UNCHANGED flying
    <3>1. check' \in [Checks -> Check] /\ accepted' \subseteq Ways \X Reasons
      BY <2>1, AnswerTypes DEF Ways
    <3> QED BY <1>9, <2>1, <3>1, FailTypes DEF ReadFails, TypeOK, store, obligations
  <2>2. CASE Wake(c, "error") /\ Land(c) /\ UNCHANGED accepted
    <3>1. check' \in [Checks -> Check] BY <2>2, WakeTypes
    <3>2. flying' \in [Instances -> Checks \cup {None}] BY <2>0, <2>2 DEF Land, TypeOK
    <3> QED BY <1>9, <2>2, <3>1, <3>2, FailTypes DEF ReadFails, TypeOK, store, obligations
  <2> QED BY <1>9, <2>1, <2>2 DEF ReadFails
<1> QED BY <1>1, <1>2, <1>3, <1>4, <1>5, <1>6, <1>7, <1>8, <1>9 DEF ReadDenylist, ReadAgents

LEMMA InstancesTyped ==
  ASSUME TypeOK, NEW i \in Instances, fingerprint(i) \/ Compare(i) \/ PollFails(i) \/ Evict(i) \/ Crash(i)
  PROVE  TypeOK'
<1> USE Constants
<1>1. EndPoll(i) => poll' \in [Instances -> Poll] /\ polled' \in [Instances -> Time]
  BY NoCheckTypes DEF EndPoll, TypeOK
<1>2. ASSUME NEW checks, checks \in [Checks -> Check], Proceed(checks, i)
      PROVE  check' \in [Checks -> Check]
  <2>1. \A c \in Checks : [check[c] EXCEPT !.pc = "lookup"] \in Check BY DEF TypeOK, Check
  <2> QED BY <1>2, <2>1 DEF Proceed
<1>3. CASE fingerprint(i)
  <2>1. Cardinality(rows) \in Fingerprints BY RowsAreTwo DEF TypeOK
  <2>2. [pc |-> "compare", new |-> Cardinality(rows), saw |-> Denied] \in Poll BY <2>1 DEF Poll, Denied
  <2> QED BY <1>3, <2>2 DEF fingerprint, TypeOK, store, history, obligations
<1>4. CASE Compare(i)
  <2>1. poll[i].new \in Fingerprints BY DEF TypeOK, Poll
  <2>2. print' \in [Instances -> Fingerprints \cup {None}] /\ noticed' \subseteq Instances
    BY <1>4, <2>1 DEF Compare, TypeOK
  <2>3. cache' \in [Instances -> Entry] BY <1>4, NoCheckTypes DEF Compare, DropLive, TypeOK
  <2>4. flying' \in [Instances -> Checks \cup {None}] BY <1>4 DEF Compare, TypeOK
  <2>5. check' \in [Checks -> Check] BY <1>2, <1>4, OvertakeTypes DEF Compare, TypeOK
  <2> QED BY <1>1, <1>4, <2>2, <2>3, <2>4, <2>5 DEF Compare, TypeOK, store
<1>5. CASE PollFails(i)
  <2>1. check' \in [Checks -> Check] BY <1>2, <1>5 DEF PollFails, TypeOK
  <2> QED BY <1>1, <1>5, <2>1, FailTypes DEF PollFails, TypeOK, store, history, obligations
<1>6. CASE Evict(i) BY <1>6, NoCheckTypes DEF Evict, TypeOK, store, history, obligations
<1>7. CASE Crash(i)
  <2>1. cache' \in [Instances -> Entry] /\ poll' \in [Instances -> Poll] /\ check' \in [Checks -> Check]
    BY <1>7, NoCheckTypes DEF Crash, TypeOK
  <2>2. revoke' \in [Revokers -> Revoke] BY <1>7 DEF Crash, TypeOK, Revoke, Ended
  <2>3. polled' \in [Instances -> Time] /\ print' \in [Instances -> Fingerprints \cup {None}]
        /\ flying' \in [Instances -> Checks \cup {None}]
    BY <1>7 DEF Crash, TypeOK, Time
  <2> QED BY <1>7, <2>1, <2>2, <2>3, FailTypes DEF Crash, TypeOK, store
<1> QED BY <1>3, <1>4, <1>5, <1>6, <1>7

--------------------------------------------------------------------------------
(* What one step leaves of what was true of a check it does not move *)

\* Rows are added, the agent stays revoked, the clock goes forward, and the
\* token dies once.
Onward ==
  /\ Denied => Denied'
  /\ ~authority => ~authority'
  /\ clock <= clock'
  /\ Dead => deadSince' = deadSince
  /\ Dead' /\ ~Dead => deadSince' = clock

\* The check has moved no further: at most, a clear has overtaken it.
Waits(c) ==
  /\ check'[c].pc = check[c].pc /\ check'[c].at = check[c].at /\ check'[c].leader = check[c].leader
  /\ check'[c].started = check[c].started /\ check'[c].unread = check[c].unread
  /\ check'[c].how = check[c].how /\ check'[c].verdict = check[c].verdict /\ check'[c].owes = check[c].owes
  /\ check[c].overtaken => check'[c].overtaken
  /\ check'[c].pc \in {"poll", "lookup"} => check'[c].overtaken = check[c].overtaken

\* Its instance forgets nothing it has promised, and where something has to go
\* from memory a clear has overtaken it.
Remembered(c) ==
  /\ check[c].at \in settled => check[c].at \in settled'
  /\ check[c].at \in noticed => check[c].at \in noticed'
  /\ check[c].at \in Cleared' =>
       check[c].at \in Cleared \/ (check[c].pc \in {"await", "resume"} => check'[c].overtaken)

\* A check that waits stays all right.
LEMMA CheckStays ==
  ASSUME TypeOK, TypeOK', Since, Onward, NEW c \in Checks, CheckOK(c), Waits(c), Remembered(c),
         LET l == check[c].leader IN
         l # None => check'[l].leader = check[l].leader /\ check'[l].at = check[l].at
                     /\ check'[l].overtaken = check'[c].overtaken
  PROVE  CheckOK(c)'
<1> DEFINE l == check[c].leader
<1>0. check[c] \in Check /\ check'[c] \in Check /\ clock \in Nat /\ clock' \in Nat /\ deadSince \in Nat /\ deadSince' \in Nat
  BY Constants DEF TypeOK, Time
<1>1. Leads(c)' BY DEF Leads, CheckOK, Waits
<1>d. Dead => Dead' BY DEF Onward, Dead
<1>2. Owed(c)'
  <2>1. check[c].owes # {} => Dead' BY <1>d DEF CheckOK, Owed
  <2>2. "stale" \in check[c].owes => clock' >= deadSince' + MaxStaleness
    <3> SUFFICES ASSUME "stale" \in check[c].owes PROVE clock' >= deadSince' + MaxStaleness OBVIOUS
    <3>1. Dead /\ clock >= deadSince + MaxStaleness BY DEF CheckOK, Owed
    <3>2. deadSince' = deadSince /\ clock <= clock' BY <3>1 DEF Onward
    <3> QED BY <1>0, <3>1, <3>2, Constants
  <2> QED BY <2>1, <2>2 DEF CheckOK, Owed, Waits, Remembered
<1>3. Sees(c) => Sees(c)' BY DEF Sees, Onward, Waits
<1>4. Reads(c)'
  <2> SUFFICES ASSUME Reading(c)' PROVE Reads(c)!2' BY DEF Reads
  <2>1. Reading(c) BY DEF Reading, Waits
  <2>2. check'[c].verdict \in {"live", "dead"} /\ (check'[c].owes # {} => Sees(c)')
    BY <2>1, <1>3 DEF CheckOK, Reads, Waits
  <2>3. ASSUME check[c].pc = "await"
        PROVE  /\ check'[c].started <= clock'
               /\ Sees(c)' \/ (Dead' => check'[c].started <= deadSince')
               /\ check'[c].at \in Cleared' /\ ~check'[c].overtaken => Sees(c)'
    <3>1. /\ check[c].started <= clock /\ (Sees(c) \/ (Dead => check[c].started <= deadSince))
          /\ check[c].at \in Cleared /\ ~check[c].overtaken => Sees(c)
      BY <2>1, <2>3 DEF CheckOK, Reads
    <3>2. check[c].started \in Nat BY <1>0 DEF Check, Time
    <3>3. check'[c].started <= clock' BY <1>0, <3>1, <3>2 DEF Onward, Waits
    <3>4. Sees(c)' \/ (Dead' => check'[c].started <= deadSince') BY <1>0, <1>3, <3>1, <3>2 DEF Onward, Waits
    <3>5. check'[c].at \in Cleared' /\ ~check'[c].overtaken => Sees(c)'
      BY <1>3, <2>3, <3>1 DEF Remembered, Waits
    <3> QED BY <3>3, <3>4, <3>5
  <2> QED BY <2>2, <2>3 DEF Waits
<1>5. Told(c)' BY DEF CheckOK, Told, Waits, Remembered
<1> QED BY <1>1, <1>2, <1>4, <1>5 DEF CheckOK

\* A check that has only been called is all right when what it is owed is true.
LEMMA CheckIsNew ==
  ASSUME NEW c \in Checks, TypeOK', check'[c].pc \in {"idle", "poll", "lookup"}, check'[c].leader = None, check'[c].how = "read",
         ~check'[c].overtaken, check'[c].pc # "idle" => check'[c].at # None, Owed(c)'
  PROVE  CheckOK(c)'
<1>1. Leads(c)' BY DEF Leads
<1>2. Reads(c)' BY DEF Reads, Reading
<1>3. Told(c)' BY DEF Told
<1> QED BY <1>1, <1>2, <1>3 DEF CheckOK

\* A call that has ended is none.
LEMMA CheckEnds ==
  ASSUME NEW c \in Checks, TypeOK', check'[c] = NoCheck
  PROVE  CheckOK(c)'
<1>1. Owed(c)' BY DEF Owed, NoCheck
<1> QED BY <1>1, CheckIsNew DEF NoCheck


--------------------------------------------------------------------------------
(* Steps of the checks *)

\* A step that touches neither the stores nor the clock nor what is owed leaves
\* all right what it leaves alone.
LEMMA QuietStep ==
  ASSUME IInv, TypeOK', UNCHANGED <<rows, authority, clock, obligations>>
  PROVE  /\ Onward /\ Since'
         /\ UNCHANGED revoke => \A r \in Revokers : Placed(r)'
         /\ UNCHANGED accepted => Promises'
         /\ \A i \in Instances : poll'[i] = poll[i] /\ print'[i] = print[i] => Polls(i)'
         /\ \A i \in Instances : cache'[i] = cache[i] => Cached(i)'
         /\ \A i \in Instances : flying'[i] = flying[i] /\ (flying[i] # None => check'[flying[i]] = check[flying[i]]) => Flies(i)'
         /\ \A c \in Checks :
              check'[c] = check[c] /\ (check[c].leader # None => check'[check[c].leader] = check[check[c].leader])
              => CheckOK(c)'
<1>0. clock \in Nat BY Constants DEF IInv, TypeOK, Time
<1>1. Onward BY <1>0 DEF Onward, obligations, Denied, Dead
<1>2. Since' BY DEF IInv, Since, Dead, Denied, Cleared, obligations
<1>3. UNCHANGED revoke => \A r \in Revokers : Placed(r)' BY DEF IInv, Placed
<1>4. UNCHANGED accepted => Promises'
  BY DEF IInv, Promises, RevokerRefuses, PollRefuses, StalenessBounded
<1>5. \A i \in Instances : poll'[i] = poll[i] /\ print'[i] = print[i] => Polls(i)'
  BY DEF IInv, Polls, Before, Others, Denied, obligations
<1>6. \A i \in Instances : cache'[i] = cache[i] => Cached(i)'
  BY DEF IInv, Cached, Cleared, Dead, Denied, obligations
<1>7. \A i \in Instances : flying'[i] = flying[i] /\ (flying[i] # None => check'[flying[i]] = check[flying[i]]) => Flies(i)'
  BY DEF IInv, Flies
<1>8. ASSUME NEW c \in Checks, check'[c] = check[c],
             check[c].leader # None => check'[check[c].leader] = check[check[c].leader]
      PROVE  CheckOK(c)'
  <2>1. Waits(c) BY <1>8 DEF Waits
  <2>2. Remembered(c) BY DEF Remembered, Cleared, obligations
  <2>3. CheckOK(c) BY DEF IInv
  <2>4. check[c].leader # None => check[check[c].leader].overtaken = check[c].overtaken
    BY <2>3 DEF CheckOK, Leads
  <2> QED BY <1>1, <1>8, <2>1, <2>2, <2>3, <2>4, CheckStays DEF IInv
<1> QED BY <1>1, <1>2, <1>3, <1>4, <1>5, <1>6, <1>7, <1>8

\* Only a check that awaits its own read leads another, so where any other
\* check moves alone the rest stays all right.
LEMMA OneMoves ==
  ASSUME IInv, TypeOK', UNCHANGED <<rows, authority, clock, obligations, print>>, NEW c \in Checks,
         check' = [check EXCEPT ![c] = check'[c]], check[c].pc # "await", CheckOK(c)'
  PROVE  /\ \A d \in Checks : CheckOK(d)'
         /\ \A i \in Instances : flying'[i] = flying[i] => Flies(i)'
<1>1. check[c].leader = None BY DEF IInv, CheckOK, Leads
<1>2. \A d \in Checks : check[d].leader # c
  <2> SUFFICES ASSUME NEW d \in Checks, check[d].leader = c PROVE FALSE OBVIOUS
  <2>1. c # None BY Constants
  <2>2. check[c].leader = c BY <2>1 DEF IInv, CheckOK, Leads
  <2> QED BY <1>1, <2>1, <2>2
<1>3. \A d \in Checks : d # c => check'[d] = check[d] BY DEF IInv, TypeOK
<1>l. \A d \in Checks : check[d].leader \in Checks \cup {None} BY DEF IInv, TypeOK, Check
<1>4. ASSUME NEW i \in Instances, flying'[i] = flying[i]
      PROVE  Flies(i)'
  <2>1. flying[i] # c BY <1>1, Constants DEF IInv, Flies
  <2>2. flying[i] \in Checks \cup {None} BY DEF IInv, TypeOK
  <2> QED BY <1>3, <1>4, <2>1, <2>2, QuietStep
<1>5. \A d \in Checks : CheckOK(d)'
  <2> TAKE d \in Checks
  <2>1. CASE d = c BY <2>1
  <2>2. CASE d # c BY <1>2, <1>3, <1>l, <2>2, QuietStep
  <2> QED BY <2>1, <2>2
<1> QED BY <1>4, <1>5


\* A check that begins is owed what holds.
LEMMA BeginKeeps ==
  ASSUME IInv, TypeOK', NEW c \in Checks, NEW i \in Instances, checkCached(c, i)
  PROVE  IInv'
<1> USE DEF store, history, obligations
<1>1. UNCHANGED <<rows, authority, clock, obligations, print>> BY DEF checkCached
<1>2. check[c] \in Check BY DEF IInv, TypeOK
<1>3. check' = [check EXCEPT ![c] = [NoCheck EXCEPT !.pc = IF Due(i) THEN "poll" ELSE "lookup", !.at = i, !.owes = Owes(i)]]
  BY DEF checkCached
<1>4. check'[c] = [NoCheck EXCEPT !.pc = IF Due(i) THEN "poll" ELSE "lookup", !.at = i, !.owes = Owes(i)]
  BY <1>3 DEF IInv, TypeOK
<1>5. /\ check'[c].pc \in {"poll", "lookup"} /\ check'[c].leader = None /\ check'[c].how = "read"
      /\ check'[c].overtaken = FALSE /\ check'[c].at = i /\ check'[c].owes = Owes(i)
  BY <1>4 DEF NoCheck
<1>6. Owed(c)'
  <2>1. /\ Owes(i) # {} => Dead
        /\ "stale" \in Owes(i) => clock >= deadSince + MaxStaleness
        /\ "settled" \in Owes(i) => i \in settled
        /\ "noticed" \in Owes(i) => i \in noticed
    BY DEF Owes, IInv, Since, Cleared, Reasons
  <2>2. Dead' = Dead BY <1>1 DEF Dead, Denied
  <2> QED BY <1>1, <1>5, <2>1, <2>2 DEF Owed
<1>7. i # None BY Constants
<1>8. CheckOK(c)' BY <1>5, <1>6, <1>7, CheckIsNew
<1>9. check' = [check EXCEPT ![c] = check'[c]] BY <1>3, <1>4
<1>10. check[c].pc # "await" BY DEF checkCached
<1>11. (\A d \in Checks : CheckOK(d)') /\ \A j \in Instances : Flies(j)'
  BY <1>1, <1>8, <1>9, <1>10, OneMoves DEF checkCached
<1>12. \A j \in Instances : Polls(j)'
  <2> TAKE j \in Instances
  <2>1. CASE poll'[j] = poll[j] BY <1>1, <2>1, QuietStep
  <2>2. CASE poll'[j] # poll[j]
    <3>1. poll'[j] = [NoPoll EXCEPT !.pc = "read"] BY <2>2 DEF checkCached, IInv, TypeOK
    <3>2. poll'[j].pc # "compare" BY <3>1 DEF NoPoll
    <3> QED BY <1>1, <3>2 DEF IInv, Polls, Before, Others, Denied
  <2> QED BY <2>1, <2>2
<1> QED BY <1>1, <1>11, <1>12, QuietStep DEF checkCached, IInv

\* A check that answers, for nothing it was not allowed to.
LEMMA AnswerKeeps ==
  ASSUME IInv, TypeOK', UNCHANGED <<rows, authority, clock, obligations, print, cache, flying, poll, revoke>>,
         NEW c \in Checks, NEW verdict, NEW how \in Ways, Answer(c, verdict, how), check[c].pc # "await",
         verdict = "live" => /\ how = "cached" => check[c].at \notin Cleared /\ "stale" \notin check[c].owes
                             /\ how = "read" => check[c].at \notin Cleared /\ check[c].owes = {}
                             /\ how = "joined" => check[c].at \notin Cleared
                             /\ how = "again" => check[c].owes = {}
  PROVE  IInv'
<1>1. check'[c] = NoCheck /\ check' = [check EXCEPT ![c] = check'[c]] BY DEF Answer, IInv, TypeOK
<1>2. CheckOK(c)' BY <1>1, CheckEnds
<1>3. (\A d \in Checks : CheckOK(d)') /\ \A i \in Instances : Flies(i)' BY <1>1, <1>2, OneMoves
<1>4. ASSUME verdict = "live", NEW why \in {"dead", "stale", "settled", "noticed"}, <<how, why>> \in Wrong(how, c)
      PROVE  (why = "stale" /\ how = "joined") \/ (why = "dead" /\ how \in {"cached", "joined"})
  <2>1. Owes(check[c].at) \cap {"settled", "noticed"} # {} => check[c].at \in Cleared BY DEF Owes, Cleared
  <2>2. check[c].at \notin Cleared => {"settled", "noticed"} \cap check[c].owes = {}
    BY DEF IInv, CheckOK, Owed, Cleared
  <2>3. why \in check[c].owes \/ (how # "again" /\ why \in Owes(check[c].at) \cap {"settled", "noticed"})
    BY <1>4 DEF Wrong
  <2>5. CASE how = "cached" BY <1>4, <2>1, <2>2, <2>3, <2>5
  <2>6. CASE how = "read" BY <1>4, <2>1, <2>2, <2>3, <2>6
  <2>7. CASE how = "joined" BY <1>4, <2>1, <2>2, <2>3, <2>7
  <2>8. CASE how = "again" BY <1>4, <2>1, <2>2, <2>3, <2>8
  <2> QED BY <2>5, <2>6, <2>7, <2>8 DEF Ways
<1>5. \A w, why : <<w, why>> \in Wrong(how, c) => w = how BY DEF Wrong
<1>6. ASSUME NEW w, NEW why, <<w, why>> \in accepted'
      PROVE  <<w, why>> \in accepted \/ (verdict = "live" /\ w = how /\ <<how, why>> \in Wrong(how, c))
  <2>1. accepted' = accepted \/ (verdict = "live" /\ accepted' = accepted \cup Wrong(how, c)) BY DEF Answer
  <2> QED BY <1>5, <1>6, <2>1
<1>7. RevokerRefuses' BY <1>4, <1>6 DEF IInv, Promises, RevokerRefuses
<1>8. PollRefuses' BY <1>4, <1>6 DEF IInv, Promises, PollRefuses
<1>9. StalenessBounded' BY <1>4, <1>6 DEF IInv, Promises, StalenessBounded, Ways
<1> QED BY <1>3, <1>7, <1>8, <1>9, QuietStep DEF IInv, Promises

LEMMA HitKeeps ==
  ASSUME IInv, TypeOK', NEW c \in Checks, LookupHit(c)
  PROVE  IInv'
<1> DEFINE i == check[c].at
<1>1. i \in Instances BY AtInstance DEF LookupHit, IInv, CheckOK
<1>2. cache[i] \in Entry /\ clock \in Nat /\ deadSince \in Nat BY <1>1, Constants DEF IInv, TypeOK, Time
<1>3. ASSUME cache[i].verdict = "live"
      PROVE  i \notin Cleared /\ "stale" \notin check[c].owes
  <2>1. /\ i \notin Cleared /\ (Dead => cache[i].computed <= deadSince)
        /\ clock - cache[i].computed < MaxStaleness
    BY <1>1, <1>3 DEF IInv, Cached, LookupHit, Usable
  <2>2. cache[i].computed \in Nat BY <1>2 DEF Entry, Time
  <2>3. ASSUME "stale" \in check[c].owes PROVE FALSE
    <3>1. Dead /\ clock >= deadSince + MaxStaleness BY <2>3 DEF IInv, CheckOK, Owed
    <3> QED BY <1>2, <2>1, <2>2, <3>1, Constants
  <2> QED BY <2>1, <2>3
<1> QED BY <1>3, AnswerKeeps DEF LookupHit, Ways, store, memory, obligations


\* Who joins a read waits for one that has not been overtaken.
LEMMA JoinKeeps ==
  ASSUME IInv, TypeOK', NEW c \in Checks, LookupJoin(c)
  PROVE  IInv'
<1> USE DEF store, memory, history, obligations
<1> DEFINE i == check[c].at
           l == flying[i]
<1>1. UNCHANGED <<rows, authority, clock, obligations, print>> BY DEF LookupJoin
<1>2. check[c] \in Check /\ i \in Instances BY AtInstance DEF LookupJoin, IInv, CheckOK, TypeOK
<1>3. l \in Checks /\ check[l].leader = l /\ check[l].at = i /\ ~check[l].overtaken
  BY <1>2 DEF LookupJoin, IInv, Flies, TypeOK
<1>4. check[l].pc = "await" /\ l # c BY <1>3, Constants DEF IInv, CheckOK, Leads, LookupJoin
<1>5. check'[c] = [check[c] EXCEPT !.pc = "await", !.how = "joined", !.leader = l, !.overtaken = check[l].overtaken]
      /\ check' = [check EXCEPT ![c] = check'[c]]
  BY DEF LookupJoin, IInv, TypeOK
<1>6. /\ check'[c].pc = "await" /\ check'[c].how = "joined" /\ check'[c].leader = l /\ check'[c].at = i
      /\ check'[c].overtaken = check[l].overtaken /\ check'[c].owes = check[c].owes
  BY <1>2, <1>5 DEF Check
<1>7. check'[l] = check[l] BY <1>3, <1>4, <1>5 DEF IInv, TypeOK
<1>8. CheckOK(c)'
  <2>1. l # None /\ i # None BY <1>2, <1>3, Constants
  <2>2. Leads(c)' BY <1>3, <1>4, <1>6, <1>7, <2>1 DEF Leads
  <2>3. Owed(c)' BY <1>1, <1>6 DEF IInv, CheckOK, Owed, Dead, Denied
  <2>4. Reads(c)' BY <1>4, <1>6 DEF Reads, Reading
  <2>5. Told(c)' BY <1>6 DEF Told
  <2> QED BY <2>2, <2>3, <2>4, <2>5 DEF CheckOK
<1>9. (\A d \in Checks : CheckOK(d)') /\ \A j \in Instances : Flies(j)'
  BY <1>1, <1>5, <1>8, OneMoves DEF LookupJoin
<1> QED BY <1>1, <1>9, QuietStep DEF LookupJoin, IInv

\* A read that begins will see the token dead if it is.
LEMMA ReadBegins ==
  ASSUME IInv, TypeOK', NEW c \in Checks, LookupRead(c)
  PROVE  IInv'
<1> USE DEF store, history, obligations
<1> DEFINE i == check[c].at
<1>1. UNCHANGED <<rows, authority, clock, obligations, print>> BY DEF LookupRead
<1>2. check[c] \in Check /\ i \in Instances /\ clock \in Nat
  BY AtInstance, Constants DEF LookupRead, IInv, CheckOK, TypeOK, Time
<1>5. check'[c] = [check[c] EXCEPT !.pc = "await", !.leader = c, !.started = clock, !.unread = Stores, !.verdict = "live"]
      /\ check' = [check EXCEPT ![c] = check'[c]]
  BY DEF LookupRead, IInv, TypeOK
<1>6. /\ check'[c].pc = "await" /\ check'[c].how = "read" /\ check'[c].leader = c /\ check'[c].at = i
      /\ check'[c].overtaken = check[c].overtaken /\ check'[c].owes = check[c].owes /\ check'[c].started = clock
      /\ check'[c].unread = Stores /\ check'[c].verdict = "live" /\ ~check[c].overtaken
  <2>1. check[c].how = "read" /\ ~check[c].overtaken BY DEF IInv, CheckOK, Leads, LookupRead
  <2> QED BY <1>2, <1>5, <2>1 DEF Check
<1>7. Dead' = Dead /\ Denied' = Denied BY <1>1 DEF Dead, Denied
<1>8. CheckOK(c)'
  <2>1. c # None /\ i # None BY <1>2, Constants
  <2>2. Leads(c)' BY <1>6, <2>1 DEF Leads
  <2>3. Owed(c)' BY <1>1, <1>6, <1>7 DEF IInv, CheckOK, Owed
  <2>4. Dead => Sees(c)' BY <1>1, <1>6, <1>7 DEF Sees, Dead, Stores
  <2>5. (check[c].owes # {} => Dead) /\ (i \in Cleared' => Dead)
    BY <1>1 DEF IInv, CheckOK, Owed, Since, Cleared
  <2>6. Reads(c)' BY <1>1, <1>2, <1>6, <1>7, <2>4, <2>5 DEF Reads, Reading
  <2>7. Told(c)' BY <1>6 DEF Told
  <2> QED BY <2>2, <2>3, <2>6, <2>7 DEF CheckOK
<1>9. (\A d \in Checks : CheckOK(d)') /\ \A j \in Instances : flying'[j] = flying[j] => Flies(j)'
  BY <1>1, <1>5, <1>8, OneMoves DEF LookupRead
<1>10. \A j \in Instances : Flies(j)'
  <2> TAKE j \in Instances
  <2>1. CASE j = i
    <3>1. flying'[j] = c BY <1>2, <2>1 DEF LookupRead, IInv, TypeOK
    <3> QED BY <1>6, <2>1, <3>1 DEF Flies
  <2>2. CASE j # i
    <3>1. flying'[j] = flying[j] BY <2>2 DEF LookupRead, IInv, TypeOK
    <3> QED BY <1>9, <3>1
  <2> QED BY <2>1, <2>2
<1> QED BY <1>1, <1>9, <1>10, QuietStep DEF LookupRead, IInv

\* A read that sees the token dead, or has still to, does so after each of its
\* statements.
LEMMA StoreReadKeeps ==
  ASSUME IInv, TypeOK', NEW c \in Checks, ReadDenylist(c) \/ ReadAgents(c)
  PROVE  IInv'
<1> USE DEF store, memory, history, obligations
<1>1. UNCHANGED <<rows, authority, clock, obligations, print, cache, flying, poll, revoke, accepted>> /\ Reading(c)
  BY DEF ReadDenylist, ReadAgents, ReadStore
<1>2. check[c] \in Check /\ clock \in Nat BY Constants DEF IInv, TypeOK, Time
<1>3. PICK which \in Stores, dead \in BOOLEAN :
        /\ dead = (IF which = "denylist" THEN Denied ELSE ~authority)
        /\ check' = [check EXCEPT ![c] = [@ EXCEPT !.unread = check[c].unread \ {which},
                                                   !.verdict = IF dead THEN "dead" ELSE check[c].verdict]]
  <2>1. CASE ReadDenylist(c)
    <3>1. "denylist" \in Stores /\ Denied \in BOOLEAN BY DEF Stores, Denied
    <3> QED BY <2>1, <3>1 DEF ReadDenylist, ReadStore
  <2>2. CASE ReadAgents(c) BY <2>2 DEF ReadAgents, ReadStore, Stores, IInv, TypeOK
  <2> QED BY <2>1, <2>2
<1>4. /\ check'[c] = [check[c] EXCEPT !.unread = check[c].unread \ {which},
                                     !.verdict = IF dead THEN "dead" ELSE check[c].verdict]
      /\ \A d \in Checks : d # c => check'[d] = check[d]
  BY <1>3 DEF IInv, TypeOK
<1>5. /\ check'[c].pc = check[c].pc /\ check'[c].how = check[c].how /\ check'[c].leader = check[c].leader
      /\ check'[c].at = check[c].at /\ check'[c].overtaken = check[c].overtaken /\ check'[c].owes = check[c].owes
      /\ check'[c].started = check[c].started /\ check'[c].unread = check[c].unread \ {which}
      /\ check'[c].verdict = IF dead THEN "dead" ELSE check[c].verdict
  BY <1>2, <1>4 DEF Check
<1>6. Dead' = Dead /\ Denied' = Denied /\ Cleared' = Cleared BY <1>1 DEF Dead, Denied, Cleared
<1>7. \A d \in Checks : check'[d].leader = check[d].leader /\ check'[d].at = check[d].at
                        /\ check'[d].overtaken = check[d].overtaken
  BY <1>4, <1>5
<1>8. CheckOK(c)'
  <2>0. CheckOK(c) /\ check[c].leader \in Checks \cup {None} BY <1>2 DEF IInv, Check
  <2>2. Leads(c)' BY <1>5, <1>7, <2>0 DEF CheckOK, Leads
  <2>3. Owed(c)' BY <1>1, <1>5, <1>6, <2>0 DEF CheckOK, Owed
  <2>4. Sees(c) => Sees(c)' BY <1>1, <1>3, <1>5, <1>6 DEF Sees, Stores
  <2>5. Reads(c)' BY <1>1, <1>5, <1>6, <2>0, <2>4 DEF CheckOK, Reads, Reading
  <2>6. Told(c)' BY <1>1, <1>5 DEF Told, Reading
  <2> QED BY <2>2, <2>3, <2>5, <2>6 DEF CheckOK
<1>9. \A d \in Checks : CheckOK(d)'
  <2> TAKE d \in Checks
  <2>1. CASE d = c BY <1>8, <2>1
  <2>2. CASE d # c
    <3>1. Waits(d) /\ Remembered(d) BY <1>1, <1>4, <1>6, <2>2 DEF Waits, Remembered
    <3>2. CheckOK(d) /\ check[d].leader \in Checks \cup {None} BY DEF IInv, TypeOK, Check
    <3>3. check[d].leader # None => check'[check[d].leader].leader = check[check[d].leader].leader
             /\ check'[check[d].leader].at = check[check[d].leader].at
             /\ check'[check[d].leader].overtaken = check'[d].overtaken
      BY <1>7, <3>2 DEF CheckOK, Leads
    <3> QED BY <1>1, <3>1, <3>2, <3>3, CheckStays, QuietStep DEF IInv
  <2> QED BY <2>1, <2>2
<1>10. \A i \in Instances : Flies(i)'
  <2>1. \A i \in Instances : flying[i] \in Checks \cup {None} BY DEF IInv, TypeOK
  <2> QED BY <1>1, <1>7, <2>1 DEF IInv, Flies
<1> QED BY <1>1, <1>9, <1>10, QuietStep DEF IInv


\* Who waited for a read is told what it found; the others wait on.
LEMMA WakeKeeps ==
  ASSUME IInv, TypeOK', UNCHANGED <<rows, authority, clock, obligations, print>>, NEW c \in Checks,
         check[c].leader = c, NEW verdict, Wake(c, verdict), Land(c),
         verdict = "live" => /\ check[c].owes = {}
                             /\ check[c].at \in Cleared => check[c].overtaken
  PROVE  (\A d \in Checks : CheckOK(d)') /\ \A i \in Instances : Flies(i)'
<1>1. c # None BY Constants
<1>2. ASSUME NEW d \in Checks, check[d].leader = c
      PROVE  CheckOK(d)'
  <2>1. /\ check'[d].pc = "resume" /\ check'[d].verdict = verdict /\ check'[d].at = check[d].at
        /\ check'[d].overtaken = check[d].overtaken /\ check'[d].how = check[d].how /\ check'[d].owes = check[d].owes
        /\ check'[d].leader = None
    BY <1>2 DEF Wake, NoCheck
  <2>2. CheckOK(d) BY DEF IInv
  <2>3. /\ check[d].at = check[c].at /\ check[d].overtaken = check[c].overtaken
        /\ check[d].how = (IF c = d THEN "read" ELSE "joined") /\ check[d].at # None
    BY <1>1, <1>2, <2>2 DEF CheckOK, Leads
  <2>4. Leads(d)' BY <2>1, <2>3 DEF Leads
  <2>5. Dead' = Dead /\ Cleared' = Cleared BY DEF Dead, Denied, Cleared, obligations
  <2>6. Owed(d)' BY <2>1, <2>2, <2>5 DEF CheckOK, Owed, obligations
  <2>7. Reads(d)' BY <2>1 DEF Reads, Reading
  <2>8. Told(d)' BY <2>1, <2>3, <2>5 DEF Told
  <2> QED BY <2>4, <2>6, <2>7, <2>8 DEF CheckOK
<1>3. \A d \in Checks : check[d].leader # c => check'[d] = check[d] BY DEF Wake
<1>4. \A d \in Checks : CheckOK(d)'
  <2> TAKE d \in Checks
  <2>1. CASE check[d].leader = c BY <1>2, <2>1
  <2>2. CASE check[d].leader # c
    <3>1. check[d].leader # None => check[d].leader \in Checks /\ check[check[d].leader].leader # c
      BY <2>2 DEF IInv, CheckOK, Leads, TypeOK, Check
    <3> QED BY <1>3, <2>2, <3>1, QuietStep
  <2> QED BY <2>1, <2>2
<1>5. ASSUME NEW i \in Instances
      PROVE  Flies(i)'
  <2>1. flying'[i] # c /\ flying'[i] \in {flying[i], None}
    <3>1. flying[i] = c => check[c].at = i BY <1>1 DEF IInv, Flies
    <3> QED BY <1>1, <3>1 DEF Land, IInv, TypeOK
  <2>2. CASE flying'[i] = None BY <2>2 DEF Flies
  <2>3. CASE flying'[i] = flying[i]
    <3>1. flying[i] # None => flying[i] \in Checks /\ check[flying[i]].leader # c
      BY <2>1, <2>3 DEF IInv, Flies, TypeOK
    <3> QED BY <1>3, <2>3, <3>1, QuietStep
  <2> QED BY <2>1, <2>2, <2>3
<1> QED BY <1>4, <1>5

\* A verdict that is kept was found after the last clear.
LEMMA ResolveKeeps ==
  ASSUME IInv, TypeOK', NEW c \in Checks, Resolve(c)
  PROVE  IInv'
<1> USE DEF store, history, obligations
<1> DEFINE i == check[c].at
<1>1. UNCHANGED <<rows, authority, clock, obligations, print>> BY DEF Resolve
<1>2. check[c] \in Check /\ i \in Instances
  BY AtInstance DEF Resolve, IInv, CheckOK, TypeOK
<1>3. check[c].leader = c /\ check[c].pc = "await" /\ check[c].unread = {} /\ Reading(c)
  BY DEF Resolve, HasRead, Reading
<1>4. check[c].verdict = "live" =>
        /\ check[c].owes = {} /\ (i \in Cleared => check[c].overtaken)
        /\ check[c].started <= clock /\ (Dead => check[c].started <= deadSince)
  <2>1. check[c].verdict = "live" => ~Sees(c) BY <1>3 DEF Sees
  <2> QED BY <1>3, <2>1 DEF IInv, CheckOK, Reads
<1>5. (\A d \in Checks : CheckOK(d)') /\ \A j \in Instances : Flies(j)'
  BY <1>1, <1>3, <1>4, WakeKeeps DEF Resolve
<1>6. ASSUME NEW j \in Instances
      PROVE  Cached(j)'
  <2>1. CASE cache'[j] = cache[j] BY <1>1, <2>1, QuietStep
  <2>2. CASE cache'[j] # cache[j]
    <3>1. j = i /\ Keeps(c) /\ cache'[j] = [verdict |-> check[c].verdict, computed |-> check[c].started]
      BY <1>2, <2>2 DEF Resolve, IInv, TypeOK
    <3>2. cache'[j].verdict = "live" => check[c].verdict = "live" /\ ~check[c].overtaken BY <3>1 DEF Keeps
    <3> QED BY <1>1, <1>4, <3>1, <3>2 DEF Cached, Dead, Denied, Cleared
  <2> QED BY <2>1, <2>2
<1> QED BY <1>1, <1>5, <1>6, QuietStep DEF Resolve, IInv

\* Who is told of a live verdict that a clear has overtaken reads again; nobody
\* else is owed a refusal.
LEMMA ResumeKeeps ==
  ASSUME IInv, TypeOK', NEW c \in Checks, Resume(c)
  PROVE  IInv'
<1> USE DEF store, memory, obligations
<1>1. UNCHANGED <<rows, authority, clock, obligations, print, cache, flying, poll, revoke>> /\ check[c].pc = "resume"
  BY DEF Resume
<1>2. CASE ~Overtaken(c) /\ Answer(c, check[c].verdict, check[c].how)
  <2>1. check[c].how \in {"read", "joined"} BY <1>1 DEF IInv, CheckOK, Leads
  <2>2. check[c].verdict = "live" => /\ check[c].at \notin Cleared
                                     /\ check[c].how = "read" => check[c].owes = {}
    BY <1>1, <1>2 DEF IInv, CheckOK, Told, Overtaken
  <2>3. check[c].how \in Ways BY <2>1 DEF Ways
  <2> QED BY <1>1, <1>2, <2>1, <2>2, <2>3, AnswerKeeps
<1>3. CASE check' = [check EXCEPT ![c] = ReadsStores(check[c].at, check[c].owes)] /\ UNCHANGED accepted
  <2>1. check'[c] = ReadsStores(check[c].at, check[c].owes) BY <1>3 DEF IInv, TypeOK
  <2>2. /\ check'[c].pc = "again" /\ check'[c].at = check[c].at /\ check'[c].owes = check[c].owes
        /\ check'[c].leader = None /\ check'[c].unread = Stores /\ check'[c].verdict = "live"
    BY <2>1 DEF ReadsStores, NoCheck
  <2>3. Dead' = Dead BY <1>1 DEF Dead, Denied
  <2>4. Leads(c)' BY <1>1, <2>2 DEF Leads, IInv, CheckOK
  <2>5. Owed(c)' BY <1>1, <2>2, <2>3 DEF IInv, CheckOK, Owed
  <2>6. check[c].owes # {} => Sees(c)'
    <3>1. check[c].owes # {} => Dead BY DEF IInv, CheckOK, Owed
    <3> QED BY <1>1, <2>2, <3>1 DEF Sees, Dead, Denied, Stores
  <2>7. Reads(c)' BY <2>2, <2>6 DEF Reads
  <2>8. Told(c)' BY <2>2 DEF Told
  <2>9. CheckOK(c)' BY <2>4, <2>5, <2>7, <2>8 DEF CheckOK
  <2>10. (\A d \in Checks : CheckOK(d)') /\ \A i \in Instances : Flies(i)'
    BY <1>1, <1>3, <2>1, <2>9, OneMoves
  <2> QED BY <1>1, <1>3, <2>10, QuietStep DEF IInv
<1> QED BY <1>2, <1>3 DEF Resume

LEMMA ReadAgainKeeps ==
  ASSUME IInv, TypeOK', NEW c \in Checks, ReadAgain(c)
  PROVE  IInv'
<1> USE DEF store, memory, obligations
<1>1. Reading(c) /\ check[c].unread = {} /\ check[c].pc = "again" BY DEF ReadAgain, HasRead
<1>2. check[c].verdict = "live" => check[c].owes = {} BY <1>1 DEF IInv, CheckOK, Reads, Sees
<1> QED BY <1>1, <1>2, AnswerKeeps DEF ReadAgain, Ways

LEMMA FailureKeeps ==
  ASSUME IInv, TypeOK', NEW c \in Checks, ReadFails(c)
  PROVE  IInv'
<1> USE DEF store, obligations
<1>1. UNCHANGED <<rows, authority, clock, obligations, print, cache, poll, revoke>> /\ Reading(c) BY DEF ReadFails
<1>2. CASE check[c].pc = "again" /\ Answer(c, "error", "again") /\ UNCHANGED flying
  BY <1>1, <1>2, AnswerKeeps DEF Ways
<1>3. CASE check[c].pc = "await" /\ Wake(c, "error") /\ Land(c) /\ UNCHANGED accepted
  <2>1. check[c].leader = c BY <1>1, <1>3 DEF Reading
  <2>2. (\A d \in Checks : CheckOK(d)') /\ \A i \in Instances : Flies(i)' BY <1>1, <1>3, <2>1, WakeKeeps
  <2> QED BY <1>1, <1>3, <2>2, QuietStep DEF IInv
<1> QED BY <1>2, <1>3 DEF ReadFails

LEMMA EvictKeeps ==
  ASSUME IInv, TypeOK', NEW i \in Instances, Evict(i)
  PROVE  IInv'
<1> USE DEF store, history, obligations
<1>1. UNCHANGED <<rows, authority, clock, obligations, print>> BY DEF Evict
<1>2. \A j \in Instances : cache'[j] = cache[j] \/ cache'[j] = NoEntry BY DEF Evict, IInv, TypeOK
<1>3. \A j \in Instances : Cached(j)'
  <2>1. \A j \in Instances : cache'[j] = NoEntry => Cached(j)' BY DEF Cached, NoEntry
  <2> QED BY <1>1, <1>2, <2>1, QuietStep
<1> QED BY <1>1, <1>3, QuietStep DEF Evict, IInv

\* A poll that saw the row counts more than one that was before it.
LEMMA FingerprintKeeps ==
  ASSUME IInv, TypeOK', NEW i \in Instances, fingerprint(i)
  PROVE  IInv'
<1> USE DEF store, history, obligations
<1>1. UNCHANGED <<rows, authority, clock, obligations, print>> BY DEF fingerprint
<1>p. /\ poll' = [poll EXCEPT ![i] = [pc |-> "compare", new |-> Cardinality(rows), saw |-> Denied]]
      /\ DOMAIN poll = Instances
  BY DEF fingerprint, IInv, TypeOK
<1>2. ASSUME NEW j \in Instances
      PROVE  Polls(j)'
  <2>1. CASE j # i
    <3>1. poll'[j] = poll[j] BY <1>p, <2>1
    <3> QED BY <1>1, <3>1, QuietStep
  <2>2. CASE j = i
    <3>1. poll'[i] = [pc |-> "compare", new |-> Cardinality(rows), saw |-> Denied] BY <1>p
    <3>2. poll'[i].new = Cardinality(rows) /\ poll'[i].saw = Denied BY <3>1
    <3>3. Cardinality(rows) = (IF Denied THEN 1 ELSE 0) + Others /\ Others \in Nat
      BY RowsAreTwo DEF IInv, TypeOK, Denied, Others
    <3>4. ASSUME Denied, i \in knew \ noticed
          PROVE  Cardinality(rows) > print[i]
      <4>1. print[i] # None /\ print[i] <= Others BY <3>4 DEF IInv, Polls, Before
      <4>2. print[i] \in Nat BY <4>1, FingerprintsAre DEF IInv, TypeOK
      <4> QED BY <3>3, <3>4, <4>1, <4>2
    <3>5. Polls(i) BY DEF IInv
    <3>6. Denied' = Denied /\ Others' = Others BY <1>1 DEF Denied, Others
    <3>7. ~Denied => poll'[i].new <= Others BY <3>2, <3>3
    <3>8. Before(i)' = Before(i) BY <1>1, <3>6 DEF Before
    <3>9. Denied => (i \in knew \ noticed => poll'[i].new > print[i]) BY <3>2, <3>4
    <3> QED BY <1>1, <2>2, <3>2, <3>5, <3>6, <3>7, <3>8, <3>9 DEF Polls
  <2> QED BY <2>1, <2>2
<1>3. /\ \A j \in Instances : Cached(j)' /\ Flies(j)'
      /\ \A c \in Checks : CheckOK(c)'
  BY <1>1, QuietStep DEF fingerprint
<1> QED BY <1>1, <1>2, <1>3, QuietStep DEF fingerprint, IInv


--------------------------------------------------------------------------------
(* Clears and polls *)

Lookup(c) == [check[c] EXCEPT !.pc = "lookup"]

\* A check that waited for the poll goes on to the cache.
LEMMA LookupIsNew ==
  ASSUME IInv, TypeOK', Onward, NEW c \in Checks, NEW i \in Instances, Waiting(c, i), check'[c] = Lookup(c), Remembered(c)
  PROVE  CheckOK(c)'
<1>1. check[c] \in Check /\ clock \in Nat /\ clock' \in Nat /\ deadSince \in Nat /\ deadSince' \in Nat
  BY Constants DEF IInv, TypeOK, Time
<1>2. CheckOK(c) /\ check[c].pc = "poll" /\ check[c].at = i BY DEF IInv, Waiting
<1>3. check[c].leader = None /\ check[c].how = "read" /\ ~check[c].overtaken BY <1>2 DEF CheckOK, Leads
<1>4. /\ check'[c].pc = "lookup" /\ check'[c].leader = None /\ check'[c].how = "read" /\ check'[c].at = i
      /\ check'[c].overtaken = check[c].overtaken /\ check'[c].owes = check[c].owes
  BY <1>1, <1>2, <1>3 DEF Check, Lookup
<1>5. i # None BY Constants
<1>6. Owed(c)'
  <2>1. Dead => Dead' BY DEF Onward, Dead
  <2>2. ASSUME "stale" \in check[c].owes
        PROVE  clock' >= deadSince' + MaxStaleness
    <3>1. Dead /\ clock >= deadSince + MaxStaleness BY <1>2, <2>2 DEF CheckOK, Owed
    <3>2. deadSince' = deadSince /\ clock <= clock' BY <3>1 DEF Onward
    <3> QED BY <1>1, <3>1, <3>2, Constants
  <2> QED BY <1>2, <1>4, <2>1, <2>2 DEF CheckOK, Owed, Remembered
<1> QED BY <1>3, <1>4, <1>5, <1>6, CheckIsNew

\* A clear overtakes every read in flight, so that of what may now have to be
\* gone from memory nothing comes back.
LEMMA ClearKeeps ==
  ASSUME IInv, TypeOK', NEW i \in Instances, UNCHANGED <<rows, authority, clock, deadSince>>,
         settled \subseteq settled', noticed \subseteq noticed', Cleared' \subseteq Cleared \cup {i},
         Cleared' # {} => Dead,
         DropLive(i), flying' = [flying EXCEPT ![i] = None],
         \A c \in Checks : check'[c] = Overtake(i)[c] \/ (Waiting(c, i) /\ check'[c] = Lookup(c))
  PROVE  /\ \A c \in Checks : CheckOK(c)'
         /\ \A j \in Instances : Flies(j)' /\ Cached(j)'
         /\ Since'
<1>0. clock \in Nat /\ clock' \in Nat BY Constants DEF IInv, TypeOK, Time
<1>1. Onward BY <1>0 DEF Onward, Dead, Denied
<1>2. Dead' = Dead /\ Denied' = Denied BY DEF Dead, Denied
<1>3. \A c \in Checks : check[c] \in Check /\ check[c].leader \in Checks \cup {None} BY DEF IInv, TypeOK, Check
<1>4. ASSUME NEW c \in Checks, check'[c] = Overtake(i)[c]
      PROVE  /\ Waits(c)
             /\ check'[c].overtaken = (check[c].overtaken \/ (check[c].at = i /\ check[c].pc \in {"await", "resume"}))
  <2>1. CASE check[c].at = i /\ check[c].pc \in {"await", "resume"}
    <3>1. check'[c] = [check[c] EXCEPT !.overtaken = TRUE] BY <1>4, <2>1 DEF Overtake
    <3>2. /\ check'[c].pc = check[c].pc /\ check'[c].at = check[c].at /\ check'[c].leader = check[c].leader
          /\ check'[c].started = check[c].started /\ check'[c].unread = check[c].unread
          /\ check'[c].how = check[c].how /\ check'[c].verdict = check[c].verdict /\ check'[c].owes = check[c].owes
          /\ check'[c].overtaken = TRUE
      BY <1>3, <3>1 DEF Check
    <3>3. check'[c].pc \notin {"poll", "lookup"} BY <2>1, <3>2
    <3> QED BY <2>1, <3>2, <3>3 DEF Waits
  <2>2. CASE ~(check[c].at = i /\ check[c].pc \in {"await", "resume"})
    <3>1. check'[c] = check[c] BY <1>4, <2>2 DEF Overtake
    <3>2. Waits(c) BY <3>1 DEF Waits
    <3>3. check'[c].overtaken = check[c].overtaken /\ check[c].overtaken \in BOOLEAN BY <1>3, <3>1 DEF Check
    <3> QED BY <2>2, <3>2, <3>3
  <2> QED BY <2>1, <2>2
<1>5. ASSUME NEW c \in Checks
      PROVE  CheckOK(c)'
  <2>1. CheckOK(c) BY DEF IInv
  <2>2. CASE Waiting(c, i) /\ check'[c] = Lookup(c)
    <3>1. Remembered(c) BY <2>2 DEF Remembered, Waiting
    <3> QED BY <1>1, <2>2, <3>1, LookupIsNew
  <2>3. CASE check'[c] = Overtake(i)[c]
    <3> DEFINE l == check[c].leader
    <3>1. Waits(c) BY <1>4, <2>3
    <3>2. Remembered(c) BY <1>4, <2>3 DEF Remembered
    <3>3. l # None => check'[l].leader = check[l].leader /\ check'[l].at = check[l].at
                      /\ check'[l].overtaken = check'[c].overtaken
      <4> SUFFICES ASSUME l # None PROVE <3>3!2 OBVIOUS
      <4>1. l \in Checks /\ check[l].leader = l /\ check[l].at = check[c].at /\ check[l].overtaken = check[c].overtaken
            /\ check[c].pc = "await"
        BY <1>3, <2>1 DEF CheckOK, Leads
      <4>2. check[l].pc = "await" BY <4>1 DEF IInv, CheckOK, Leads
      <4>3. check'[l] = Overtake(i)[l] BY <4>1, <4>2 DEF Waiting
      <4> QED BY <1>4, <2>3, <4>1, <4>2, <4>3 DEF Waits
    <3> QED BY <1>1, <2>1, <3>1, <3>2, <3>3, CheckStays DEF IInv
  <2> QED BY <2>2, <2>3
<1>6. ASSUME NEW j \in Instances
      PROVE  Flies(j)'
  <2>1. CASE j = i
    <3>1. flying'[j] = None BY <2>1 DEF IInv, TypeOK
    <3> QED BY <3>1 DEF Flies
  <2>2. CASE j # i
    <3>1. flying'[j] = flying[j] BY <2>2 DEF IInv, TypeOK
    <3>2. CASE flying[j] # None
      <4>1. PICK l \in Checks : l = flying[j] BY <3>2 DEF IInv, TypeOK
      <4>2. check[l].leader = l /\ check[l].at = j /\ ~check[l].overtaken BY <3>2, <4>1 DEF IInv, Flies
      <4>3. check'[l] = Overtake(i)[l] BY <2>2, <4>2 DEF Waiting
      <4>4. Waits(l) /\ ~check'[l].overtaken BY <1>4, <2>2, <4>2, <4>3
      <4>5. check'[l].leader = l /\ check'[l].at = j BY <4>2, <4>4 DEF Waits
      <4> QED BY <3>1, <4>1, <4>4, <4>5 DEF Flies
    <3> QED BY <3>1, <3>2 DEF Flies
  <2> QED BY <2>1, <2>2
<1>7. ASSUME NEW j \in Instances
      PROVE  Cached(j)'
  <2>1. CASE j = i
    <3>1. cache'[j].verdict # "live" BY <2>1 DEF DropLive, IInv, TypeOK, NoEntry
    <3> QED BY <3>1 DEF Cached
  <2>2. CASE j # i
    <3>1. cache'[j] = cache[j] BY <2>2 DEF DropLive, IInv, TypeOK
    <3> QED BY <1>2, <2>2, <3>1 DEF IInv, Cached
  <2> QED BY <2>1, <2>2
<1>8. Since' BY <1>2 DEF IInv, Since
<1> QED BY <1>5, <1>6, <1>7, <1>8

\* A poll that finds nothing new, or fails, lets its checks go on.
LEMMA GoOnKeeps ==
  ASSUME IInv, TypeOK', NEW i \in Instances, UNCHANGED <<rows, authority, clock, obligations, cache, flying>>,
         Proceed(check, i)
  PROVE  /\ \A c \in Checks : CheckOK(c)'
         /\ \A j \in Instances : Flies(j)' /\ Cached(j)'
         /\ Since'
<1>1. \A c \in Checks : check'[c] = check[c] \/ (Waiting(c, i) /\ check'[c] = Lookup(c)) BY DEF Proceed, Lookup
<1>2. \A c \in Checks : check[c].leader = c => check'[c] = check[c]
  BY <1>1, Constants DEF Waiting, IInv, CheckOK, Leads
<1>3. ASSUME NEW c \in Checks
      PROVE  CheckOK(c)'
  <2>1. CASE check'[c] = check[c]
    <3>1. check[c].leader # None => check[c].leader \in Checks /\ check[check[c].leader].leader = check[c].leader
      BY DEF IInv, CheckOK, Leads, TypeOK, Check
    <3> QED BY <1>2, <2>1, <3>1, QuietStep
  <2>2. CASE Waiting(c, i) /\ check'[c] = Lookup(c)
    <3>1. Remembered(c) BY DEF Remembered, Cleared, obligations
    <3> QED BY <2>2, <3>1, LookupIsNew, QuietStep
  <2> QED BY <1>1, <2>1, <2>2
<1>4. ASSUME NEW j \in Instances
      PROVE  Flies(j)'
  <2>1. flying[j] # None => flying[j] \in Checks /\ check[flying[j]].leader = flying[j]
    BY DEF IInv, Flies, TypeOK
  <2> QED BY <1>2, <2>1, QuietStep
<1> QED BY <1>3, <1>4, QuietStep


LEMMA PollFailureKeeps ==
  ASSUME IInv, TypeOK', NEW i \in Instances, PollFails(i)
  PROVE  IInv'
<1> USE DEF store, history, obligations
<1>1. \A j \in Instances : poll'[j] \in {poll[j], NoPoll} BY DEF PollFails, EndPoll, IInv, TypeOK
<1>2. ASSUME NEW j \in Instances
      PROVE  Polls(j)'
  <2>1. CASE poll'[j] = poll[j] BY <2>1, QuietStep DEF PollFails
  <2>2. CASE poll'[j] = NoPoll
    <3>1. poll'[j].pc # "compare" BY <2>2 DEF NoPoll
    <3> QED BY <3>1 DEF PollFails, IInv, Polls, Before, Others, Denied
  <2> QED BY <1>1, <2>1, <2>2
<1> QED BY <1>2, GoOnKeeps, QuietStep DEF PollFails, IInv

\* A poll that saw the row has another fingerprint than the one from before it.
LEMMA CompareKeeps ==
  ASSUME IInv, TypeOK', NEW i \in Instances, Compare(i)
  PROVE  IInv'
<1>1. UNCHANGED <<rows, authority, revoke, clock, faults, deadSince, settled, knew, accepted>>
  BY DEF Compare, store
<1>2. poll[i] \in Poll /\ poll[i].new \in Nat /\ (print[i] # None => print[i] \in Nat)
  BY PollTypes DEF IInv
<1>3. Polls(i) /\ poll[i].pc = "compare" BY DEF IInv, Compare
<1>4. poll[i].saw /\ i \in knew \ noticed => Changed(i) BY <1>2, <1>3 DEF Polls, Changed
<1>5. noticed \subseteq noticed' /\ noticed' \subseteq noticed \cup {i}
      /\ (noticed' = noticed \/ (i \in knew \ noticed /\ poll[i].saw))
  BY DEF Compare
<1>6. ASSUME NEW j \in Instances
      PROVE  Polls(j)'
  <2>0. Denied' = Denied /\ Others' = Others BY <1>1 DEF Denied, Others
  <2>1. CASE j # i
    <3>1. poll'[j] = poll[j] /\ print'[j] = print[j] /\ (j \in noticed' <=> j \in noticed)
      BY <1>5, <2>1 DEF Compare, EndPoll, IInv, TypeOK
    <3> QED BY <1>1, <2>0, <3>1 DEF IInv, Polls, Before
  <2>2. CASE j = i
    <3>1. poll'[i] = NoPoll /\ print'[i] = poll[i].new BY DEF Compare, EndPoll, IInv, TypeOK
    <3>2. poll'[i].pc # "compare" /\ print'[i] # None
      BY <1>2, <3>1, NoneAssumption DEF NoPoll
    <3>3. i \in noticed' => i \in knew' BY <1>1, <1>3, <1>5 DEF Polls
    <3>4. i \in knew' => Denied' BY <1>1, <1>3, <2>0 DEF Polls
    <3>5. poll[i].saw => Denied' /\ (i \in knew => i \in noticed') BY <1>3, <2>0 DEF Polls, Compare
    <3>6. ~poll[i].saw => poll[i].new <= Others' BY <1>3, <2>0 DEF Polls
    <3>7. Before(i)' => print'[i] <= Others' BY <1>1, <3>1, <3>5, <3>6 DEF Before
    <3> QED BY <2>2, <3>2, <3>3, <3>4, <3>7 DEF Polls
  <2> QED BY <2>1, <2>2
<1>7. /\ \A c \in Checks : CheckOK(c)'
      /\ \A j \in Instances : Flies(j)' /\ Cached(j)'
      /\ Since'
  <2>1. CASE Changed(i)
    <3>1. DropLive(i) /\ flying' = [flying EXCEPT ![i] = None] /\ Proceed(Overtake(i), i) BY <2>1 DEF Compare
    <3>2. \A c \in Checks : check'[c] = Overtake(i)[c] \/ (Waiting(c, i) /\ check'[c] = Lookup(c))
      BY <3>1 DEF Proceed, Lookup
    <3>3. Cleared' \subseteq Cleared \cup {i} BY <1>1, <1>5 DEF Cleared
    <3>4. Cleared' # {} => Dead
      <4>1. poll[i].saw => Denied BY <1>3 DEF Polls
      <4>2. Cleared' = Cleared \/ poll[i].saw BY <1>1, <1>5 DEF Cleared
      <4> QED BY <4>1, <4>2 DEF IInv, Since, Dead
    <3>5. settled \subseteq settled' BY <1>1
    <3> QED BY <1>1, <1>5, <3>1, <3>2, <3>3, <3>4, <3>5, ClearKeeps
  <2>2. CASE ~Changed(i)
    <3>1. noticed' = noticed BY <1>4, <1>5, <2>2
    <3>2. UNCHANGED <<cache, flying>> /\ Proceed(check, i) BY <2>2 DEF Compare
    <3> QED BY <1>1, <3>1, <3>2, GoOnKeeps DEF obligations
  <2> QED BY <2>1, <2>2
<1>8. (\A r \in Revokers : Placed(r)') /\ Promises'
  BY <1>1 DEF IInv, Placed, Promises, RevokerRefuses, PollRefuses, StalenessBounded
<1> QED BY <1>6, <1>7, <1>8 DEF IInv

--------------------------------------------------------------------------------
(* Revocations, the clock and crashes *)

LEMMA PublishKeeps ==
  ASSUME IInv, TypeOK', NEW r \in Revokers, Publish(r) \/ Settle(r)
  PROVE  IInv'
<1> DEFINE i == revoke[r].at
<1>1. /\ UNCHANGED <<rows, authority, print, poll, clock, deadSince, knew, noticed, accepted>>
      /\ clearPositive(i) /\ revoke[r].pc \notin {"idle", "end"}
      /\ settled' \in {settled, IF Dead THEN settled \cup {i} ELSE settled}
  BY DEF Publish, Settle, store, history, obligations
<1>2. i \in Instances
  <2>1. revoke[r] \in Revoke /\ i # None BY <1>1 DEF IInv, TypeOK, Placed
  <2> QED BY <2>1 DEF Revoke
<1>3. /\ settled \subseteq settled' /\ noticed \subseteq noticed' /\ Cleared' \subseteq Cleared \cup {i}
      /\ Cleared' # {} => Dead
  <2>1. Cleared # {} => Dead BY DEF IInv, Since
  <2>2. settled' = settled \/ (Dead /\ settled' = settled \cup {i}) BY <1>1
  <2> QED BY <1>1, <2>1, <2>2 DEF Cleared
<1>4. /\ \A c \in Checks : CheckOK(c)'
      /\ \A j \in Instances : Flies(j)' /\ Cached(j)'
      /\ Since'
  BY <1>1, <1>2, <1>3, ClearKeeps DEF clearPositive
<1>5. \A j \in Instances : Polls(j)' BY <1>1 DEF IInv, Polls, Before, Others, Denied
<1>6. ASSUME NEW s \in Revokers
      PROVE  Placed(s)'
  <2>1. revoke'[s] = revoke[s] \/ (s = r /\ revoke'[s].pc = "end") \/ (s = r /\ revoke'[s].at = i)
    BY DEF Publish, Settle, Ended, IInv, TypeOK, Revoke
  <2> QED BY <1>2, <2>1, Constants DEF IInv, Placed
<1>7. Promises' BY <1>1 DEF IInv, Promises, RevokerRefuses, PollRefuses, StalenessBounded
<1> QED BY <1>4, <1>5, <1>6, <1>7 DEF IInv

\* The token may die, and time goes on; nothing is cleared.
LEMMA DyingKeeps ==
  ASSUME IInv, TypeOK', Onward, UNCHANGED <<memory, check, settled, noticed, accepted>>,
         deadSince' # 0 <=> Dead', Dead => Dead', \A r \in Revokers : Placed(r)',
         \A i \in Instances : Polls(i)'
  PROVE  IInv'
<1> USE DEF memory
<1>0. clock \in Nat /\ clock' \in Nat /\ deadSince \in Nat /\ deadSince' \in Nat
  BY Constants DEF IInv, TypeOK, Time
<1>1. \A c \in Checks : CheckOK(c)'
  <2> TAKE c \in Checks
  <2>1. CheckOK(c) /\ Waits(c) /\ Remembered(c) BY DEF IInv, Waits, Remembered, Cleared
  <2>2. LET l == check[c].leader IN
         l # None => check'[l].leader = check[l].leader /\ check'[l].at = check[l].at
                     /\ check'[l].overtaken = check'[c].overtaken
    BY <2>1 DEF CheckOK, Leads
  <2> QED BY <2>1, <2>2, CheckStays DEF IInv
<1>2. \A i \in Instances : Flies(i)' BY DEF IInv, Flies
<1>3. \A i \in Instances : Cached(i)'
  <2> TAKE i \in Instances
  <2>1. cache[i].computed \in Nat BY DEF IInv, TypeOK, Entry, Time
  <2>2. Cached(i) BY DEF IInv
  <2> QED BY <1>0, <2>1, <2>2 DEF Cached, Onward, Cleared
<1>4. Since'
  <2>1. deadSince <= clock /\ clock # 0 BY DEF IInv, Since
  <2>2. deadSince' \in {0, deadSince, clock}
    BY DEF Onward
  <2> QED BY <1>0, <2>1, <2>2 DEF IInv, Since, Onward, Cleared
<1>5. Promises' BY DEF IInv, Promises, RevokerRefuses, PollRefuses, StalenessBounded
<1> QED BY <1>1, <1>2, <1>3, <1>4, <1>5 DEF IInv


\* What Dies, with a row or a revoked agent, does to the times.
LEMMA DeathIsDated ==
  ASSUME IInv, Dies, Dead', UNCHANGED clock, Denied => Denied', ~authority => ~authority'
  PROVE  Onward /\ (deadSince' # 0 <=> Dead') /\ (Dead => Dead')
<1>1. clock \in Nat /\ clock # 0 /\ deadSince \in Nat BY Constants DEF IInv, TypeOK, Time, Since
<1>2. deadSince # 0 <=> Dead BY DEF IInv, Since
<1>3. deadSince' = IF Dead THEN deadSince ELSE clock BY <1>2 DEF Dies
<1> QED BY <1>1, <1>2, <1>3 DEF Onward

LEMMA UpsertKeeps ==
  ASSUME IInv, TypeOK', NEW r \in Revokers, Upsert(r) \/ UNCHANGED <<rows, deadSince, knew>>,
         UNCHANGED <<authority, memory, check, clock, settled, noticed, accepted>>,
         \A s \in Revokers : Placed(s)'
  PROVE  IInv'
<1>1. CASE Upsert(r)
  <2>1. Denied' /\ Dead' /\ Dies BY <1>1 DEF Upsert, Denied, Dead
  <2>2. Others' = Others BY <1>1 DEF Upsert, Others
  <2>3. ASSUME NEW i \in Instances
        PROVE  Polls(i)'
    <3>1. Polls(i) /\ UNCHANGED <<poll, print, noticed>> BY DEF IInv, memory
    <3>2. CASE Denied
      <4>1. knew' = knew BY <1>1, <3>2 DEF Upsert
      <4> QED BY <2>1, <2>2, <3>1, <3>2, <4>1 DEF Polls, Before
    <3>3. CASE ~Denied
      <4>1. knew' = {j \in Instances : print[j] # None} BY <1>1, <3>3 DEF Upsert
      <4>2. i \notin noticed /\ ~(poll[i].pc = "compare" /\ poll[i].saw) BY <3>1, <3>3 DEF Polls
      <4>3. print[i] # None => print[i] <= Others BY <3>1, <3>3 DEF Polls, Before
      <4> QED BY <2>1, <2>2, <3>1, <3>3, <4>1, <4>2, <4>3 DEF Polls, Before
    <3> QED BY <3>2, <3>3
  <2> QED BY <2>1, <2>3, DeathIsDated, DyingKeeps
<1>2. CASE UNCHANGED <<rows, deadSince, knew>>
  <2>1. UNCHANGED obligations BY <1>2 DEF obligations
  <2>2. Onward /\ \A i \in Instances : Polls(i)' BY <1>2, <2>1, QuietStep DEF memory
  <2>3. Dead' = Dead /\ (deadSince' # 0 <=> Dead') BY <1>2 DEF Dead, Denied, IInv, Since
  <2> QED BY <2>2, <2>3, DyingKeeps
<1> QED BY <1>1, <1>2

LEMMA RevocationsKeep ==
  ASSUME IInv, TypeOK', NEW r \in Revokers, NEW i \in Instances,
         RevokeAgent(r, i) \/ RevokeUser(r, i) \/ RevokeToken(r, i) \/ Push(r) \/ PushFails(r)
  PROVE  IInv'
<1>1. ASSUME NEW s \in Revokers
      PROVE  Placed(s)'
  <2>1. i # None BY Constants
  <2>2. revoke[s] \in Revoke /\ Placed(s) /\ revoke[r] \in Revoke BY DEF IInv, TypeOK
  <2>3. CASE s # r
    <3>1. revoke'[s] = revoke[s]
      BY <2>3 DEF RevokeAgent, RevokeUser, RevokeToken, Push, PushFails, IInv, TypeOK
    <3> QED BY <2>2, <3>1 DEF Placed
  <2>4. CASE s = r
    <3>1. revoke'[r].at = i \/ (revoke'[r].at = revoke[r].at /\ revoke[r].pc \notin {"idle", "end"})
      BY <2>2 DEF RevokeAgent, RevokeUser, RevokeToken, Push, PushFails, IInv, TypeOK, Revoke
    <3> QED BY <2>1, <2>2, <2>4, <3>1 DEF Placed
  <2> QED BY <2>3, <2>4
<1>2. CASE RevokeAgent(r, i)
  <2>1. UNCHANGED <<rows, memory, check, clock, settled, knew, noticed, accepted>> /\ Dies /\ authority' = FALSE
    BY <1>2 DEF RevokeAgent
  <2>2. Dead' /\ (Denied' = Denied) BY <2>1 DEF Dead, Denied
  <2>3. \A j \in Instances : Polls(j)' BY <2>1 DEF IInv, Polls, Before, Others, Denied, memory
  <2> QED BY <1>1, <2>1, <2>2, <2>3, DeathIsDated, DyingKeeps
<1>3. CASE RevokeUser(r, i) \/ RevokeToken(r, i)
  BY <1>1, <1>3, UpsertKeeps DEF RevokeUser, RevokeToken, store, history, obligations
<1>4. CASE Push(r) BY <1>1, <1>4, UpsertKeeps DEF Push
<1>5. CASE PushFails(r) BY <1>1, <1>5, UpsertKeeps DEF PushFails
<1> QED BY <1>2, <1>3, <1>4, <1>5

LEMMA ElsewhereKeeps ==
  ASSUME IInv, TypeOK', RevokeElsewhere
  PROVE  IInv'
<1> USE DEF RevokeElsewhere
<1>1. Denied' = Denied /\ Dead' = Dead BY DEF Denied, Dead
<1>2. Others \in Nat /\ Others' \in Nat /\ Others <= Others' BY DEF Others
<1>3. ASSUME NEW j \in Instances
      PROVE  Polls(j)'
  <2>1. Polls(j) /\ UNCHANGED <<poll, print, knew, noticed>> BY DEF IInv, memory, history, obligations
  <2>2. (print[j] # None => print[j] \in Nat) /\ poll[j].new \in Nat
    BY PollTypes DEF IInv
  <2>3. Before(j)' = Before(j) BY <1>1, <2>1, Zenon DEF Before
  <2>4. Before(j)' /\ print'[j] # None => print'[j] <= Others' BY <1>2, <2>1, <2>2, <2>3 DEF Polls
  <2>5. poll'[j].pc = "compare" =>
          IF poll'[j].saw THEN Denied' /\ (j \in knew' \ noticed' => poll'[j].new > print'[j])
          ELSE poll'[j].new <= Others'
    BY <1>1, <1>2, <2>1, <2>2 DEF Polls
  <2>6. (j \in noticed' => j \in knew') /\ (j \in knew' => Denied' /\ print'[j] # None)
    BY <1>1, <2>1 DEF Polls
  <2> QED BY <2>4, <2>5, <2>6 DEF Polls
<1>4. clock \in Nat BY Constants DEF IInv, TypeOK, Time
<1>5. Onward /\ (deadSince' # 0 <=> Dead') BY <1>1, <1>4 DEF Onward, history, obligations, IInv, Since
<1>6. \A r \in Revokers : Placed(r)' BY DEF IInv, Placed
<1> QED BY <1>1, <1>3, <1>5, <1>6, DyingKeeps DEF history, obligations

LEMMA TickKeeps ==
  ASSUME IInv, TypeOK', Tick
  PROVE  IInv'
<1> USE DEF Tick, store, history, obligations
<1>1. Denied' = Denied /\ Dead' = Dead BY DEF Denied, Dead
<1>2. clock \in Nat BY Constants DEF IInv, TypeOK, Time
<1>3. Onward /\ (deadSince' # 0 <=> Dead') BY <1>1, <1>2 DEF Onward, IInv, Since
<1>4. \A j \in Instances : Polls(j)' BY DEF IInv, Polls, Before, Others, Denied, memory
<1>5. \A r \in Revokers : Placed(r)' BY DEF IInv, Placed
<1> QED BY <1>1, <1>3, <1>4, <1>5, DyingKeeps

\* A crash takes the reads of its instance with their leaders.
LEMMA CrashKeeps ==
  ASSUME IInv, TypeOK', NEW i \in Instances, Crash(i)
  PROVE  IInv'
<1> USE DEF store
<1>1. UNCHANGED <<rows, authority, clock, deadSince, settled, accepted>> BY DEF Crash
<1>2. Denied' = Denied /\ Dead' = Dead /\ Others' = Others BY <1>1 DEF Denied, Dead, Others
<1>3. knew' = knew \ {i} /\ noticed' = noticed \ {i} BY DEF Crash
<1>4. clock \in Nat BY Constants DEF IInv, TypeOK, Time
<1>5. Onward BY <1>1, <1>2, <1>4 DEF Onward
<1>6. \A c \in Checks : check'[c] = IF check[c].at = i THEN NoCheck ELSE check[c] BY DEF Crash
<1>7. ASSUME NEW c \in Checks
      PROVE  CheckOK(c)'
  <2>1. CASE check[c].at = i BY <1>6, <2>1, CheckEnds
  <2>2. CASE check[c].at # i
    <3>1. check'[c] = check[c] /\ CheckOK(c) BY <1>6, <2>2 DEF IInv
    <3>2. Waits(c) BY <3>1 DEF Waits
    <3>3. Remembered(c) BY <1>1, <1>3, <2>2 DEF Remembered, Cleared
    <3>4. LET l == check[c].leader IN
           l # None => check'[l].leader = check[l].leader /\ check'[l].at = check[l].at
                       /\ check'[l].overtaken = check'[c].overtaken
      BY <1>6, <2>2, <3>1 DEF CheckOK, Leads, IInv, TypeOK, Check
    <3> QED BY <1>5, <3>1, <3>2, <3>3, <3>4, CheckStays DEF IInv
  <2> QED BY <2>1, <2>2
<1>8. ASSUME NEW j \in Instances
      PROVE  Flies(j)' /\ Cached(j)' /\ Polls(j)'
  <2>1. CASE j = i
    <3>1. flying'[j] = None /\ cache'[j] = NoEntry /\ print'[j] = None /\ poll'[j] = NoPoll
      BY <2>1 DEF Crash, IInv, TypeOK
    <3>2. cache'[j].verdict # "live" /\ poll'[j].pc # "compare" /\ j \notin knew' /\ j \notin noticed'
      BY <1>3, <2>1, <3>1 DEF NoEntry, NoPoll
    <3> QED BY <3>1, <3>2 DEF Flies, Cached, Polls
  <2>2. CASE j # i
    <3>1. flying'[j] = flying[j] /\ cache'[j] = cache[j] /\ print'[j] = print[j] /\ poll'[j] = poll[j]
      BY <2>2 DEF Crash, IInv, TypeOK
    <3>2. flying[j] # None => check'[flying[j]] = check[flying[j]]
      BY <1>6, <2>2 DEF IInv, Flies, TypeOK
    <3>3. Flies(j)' BY <3>1, <3>2 DEF IInv, Flies
    <3>4. Cached(j)' BY <1>1, <1>2, <1>3, <2>2, <3>1 DEF IInv, Cached, Cleared
    <3>5. Polls(j)' BY <1>2, <1>3, <2>2, <3>1 DEF IInv, Polls, Before
    <3> QED BY <3>3, <3>4, <3>5
  <2> QED BY <2>1, <2>2
<1>9. \A r \in Revokers : Placed(r)' BY DEF Crash, IInv, TypeOK, Placed, Ended
<1>10. Since' BY <1>1, <1>2, <1>3 DEF IInv, Since, Cleared
<1>11. Promises' BY <1>1 DEF IInv, Promises, RevokerRefuses, PollRefuses, StalenessBounded
<1> QED BY <1>7, <1>8, <1>9, <1>10, <1>11 DEF IInv

--------------------------------------------------------------------------------
(* The theorems *)

LEMMA Starts == Init => IInv
<1> SUFFICES ASSUME Init PROVE IInv OBVIOUS
<1> USE Constants DEF Init
<1>1. TypeOK
  <2>1. 0 \in Time /\ 1 \in Time BY DEF Time
  <2> QED BY <2>1, NoCheckTypes DEF TypeOK, Revoke, Ended
<1>2. Since BY DEF Since, Cleared, Dead, Denied
<1>3. \A c \in Checks : CheckOK(c)
  BY DEF CheckOK, Leads, Owed, Reads, Reading, Told, NoCheck
<1>4. \A i \in Instances : Flies(i) /\ Cached(i) BY DEF Flies, Cached, NoEntry
<1>5. \A i \in Instances : Polls(i) BY DEF Polls, NoPoll
<1>6. \A r \in Revokers : Placed(r) BY DEF Placed, Ended
<1>7. Promises BY DEF Promises, RevokerRefuses, PollRefuses, StalenessBounded
<1> QED BY <1>1, <1>2, <1>3, <1>4, <1>5, <1>6, <1>7 DEF IInv

LEMMA Stutters ==
  ASSUME IInv, UNCHANGED vars
  PROVE  IInv'
<1> USE DEF vars, store, memory, history, obligations
<1>1. TypeOK' BY DEF IInv, TypeOK
<1> QED BY <1>1, QuietStep DEF IInv

LEMMA NextKeeps ==
  ASSUME IInv, Next
  PROVE  IInv'
<1>0. TypeOK /\ (\A r \in Revokers : Placed(r)) /\ \A c \in Checks : Leads(c) /\ Reads(c) BY DEF IInv, CheckOK
<1>1. ASSUME NEW r \in Revokers, NEW i \in Instances, RevokeAgent(r, i) \/ RevokeUser(r, i) \/ RevokeToken(r, i)
      PROVE  IInv'
  BY <1>0, <1>1, RevocationsTyped, RevocationsKeep
<1>2. ASSUME NEW r \in Revokers, RevokeStep(r) \/ PushFails(r)
      PROVE  IInv'
  <2>1. CASE Publish(r) \/ Settle(r)
    <3>1. TypeOK'
      <4>1. revoke[r].at \in Instances BY <1>0, <2>1 DEF Publish, Settle, Placed, TypeOK, Revoke
      <4> QED BY <1>0, <2>1, <4>1, RevocationsTyped
    <3> QED BY <2>1, <3>1, PublishKeeps
  <2>2. CASE Push(r) \/ PushFails(r)
    <3>1. revoke[r].at \in Instances BY <1>0, <2>2 DEF Push, PushFails, Placed, TypeOK, Revoke
    <3> QED BY <1>0, <2>2, <3>1, RevocationsTyped, RevocationsKeep
  <2> QED BY <1>2, <2>1, <2>2 DEF RevokeStep
<1>3. ASSUME NEW c \in Checks, NEW i \in Instances, checkCached(c, i)
      PROVE  IInv'
  BY <1>0, <1>3, ChecksTyped, BeginKeeps
<1>4. ASSUME NEW c \in Checks, CheckStep(c) \/ ReadFails(c)
      PROVE  IInv'
  <2>1. check[c].at \in Instances
    BY <1>0, <1>4, AtInstance
    DEF CheckStep, LookupHit, LookupJoin, LookupRead, ReadDenylist, ReadAgents, ReadStore, Reading, Resolve, Resume,
        ReadAgain, ReadFails
  <2>2. TypeOK' BY <1>0, <1>4, <2>1, ChecksTyped DEF CheckStep
  <2>3. CASE LookupHit(c) BY <2>2, <2>3, HitKeeps
  <2>4. CASE LookupJoin(c) BY <2>2, <2>4, JoinKeeps
  <2>5. CASE LookupRead(c) BY <2>2, <2>5, ReadBegins
  <2>6. CASE ReadDenylist(c) \/ ReadAgents(c) BY <2>2, <2>6, StoreReadKeeps
  <2>7. CASE Resolve(c) BY <2>2, <2>7, ResolveKeeps
  <2>8. CASE Resume(c) BY <2>2, <2>8, ResumeKeeps
  <2>9. CASE ReadAgain(c) BY <2>2, <2>9, ReadAgainKeeps
  <2>10. CASE ReadFails(c) BY <2>2, <2>10, FailureKeeps
  <2> QED BY <1>4, <2>3, <2>4, <2>5, <2>6, <2>7, <2>8, <2>9, <2>10 DEF CheckStep
<1>5. ASSUME NEW i \in Instances, PollStep(i) \/ PollFails(i) \/ Evict(i) \/ Crash(i)
      PROVE  IInv'
  BY <1>0, <1>5, InstancesTyped, FingerprintKeeps, CompareKeeps, PollFailureKeeps, EvictKeeps, CrashKeeps DEF PollStep
<1>6. ASSUME Tick \/ RevokeElsewhere
      PROVE  IInv'
  <2>1. TypeOK'
    <3>1. CASE Tick
      BY <1>0, <3>1, Constants DEF Tick, TypeOK, Time, memory, store, history, obligations
    <3>2. CASE RevokeElsewhere
      BY <1>0, <3>2 DEF RevokeElsewhere, TypeOK, Rows, memory, history, obligations
    <3> QED BY <1>6, <3>1, <3>2
  <2> QED BY <1>6, <2>1, TickKeeps, ElsewhereKeeps
<1> QED BY <1>1, <1>2, <1>3, <1>4, <1>5, <1>6, Constants DEF Next, Begin

\* Whatever is cleared, awaited and owed stays as IInv says.
THEOREM FreshnessInvariant == Spec => []IInv
<1>1. IInv /\ [Next]_vars => IInv' BY NextKeeps, Stutters
<1> QED BY <1>1, Starts, PTL DEF Spec

\* Every variable keeps its type.
THEOREM FreshnessTyped == Spec => []TypeOK
<1>1. IInv => TypeOK BY DEF IInv
<1> QED BY <1>1, FreshnessInvariant, PTL

\* An instance that has told a caller of a revocation never accepts a dead
\* token, from the cache or from a read in flight.
THEOREM RevokersRefuse == Spec => []RevokerRefuses
<1>1. IInv => RevokerRefuses BY DEF IInv, Promises
<1> QED BY <1>1, FreshnessInvariant, PTL

\* Nor does one that has polled the row.
THEOREM PollersRefuse == Spec => []PollRefuses
<1>1. IInv => PollRefuses BY DEF IInv, Promises
<1> QED BY <1>1, FreshnessInvariant, PTL

\* Whatever fails, the cache outlives a dead token by less than maxStalenessMs.
THEOREM StalenessIsBounded == Spec => []StalenessBounded
<1>1. IInv => StalenessBounded BY DEF IInv, Promises
<1> QED BY <1>1, FreshnessInvariant, PTL
================================================================================

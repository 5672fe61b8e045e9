----------------------------- MODULE AuthorizeProofs -----------------------------
(***************************************************************************)
(* The safety invariants of RateSlots and of Authorize, which extends it.  *)
(*                                                                         *)
(* First the rate limit alone, for every number of reservations, every     *)
(* limit and every length of bucket and hour: the inductive invariant      *)
(* RateInv ties the bucket that counts a reservation to where the          *)
(* reservation stands.  Then the pipeline, for every number of calls,      *)
(* admins and grants: each of its steps is a step of RateSlots or leaves   *)
(* it alone, so that what holds of the rate limit holds of its calls.      *)
(***************************************************************************)
EXTENDS Authorize, FiniteSetTheorems, TLAPS

--------------------------------------------------------------------------------
(* The rate limit *)

\* A reservation is counted, in the bucket of its time, from its increment on
\* until it takes its one back.
Held ==
  \A r \in Reservations :
    /\ slot[r] # None => slot[r] = MyBucket(r)
    /\ res[r].pc \in {"sum", "undo", "admitted"} => slot[r] # None
    /\ res[r].pc \in {"idle", "bump", "insert", "rebump", "denied"} => slot[r] = None

RateInv == RateTypeOK /\ Held /\ NeverOver

--------------------------------------------------------------------------------
\* A bucket starts at the time of a call or less than a bucket before it.
LEMMA BucketIsNear ==
  ASSUME NEW t \in Time
  PROVE  BucketOf(t) \in Time /\ BucketOf(t) <= t /\ t < BucketOf(t) + Bucket
<1> DEFINE q == t \div Bucket
<1>1. t \in Nat /\ Bucket \in Nat \ {0} /\ t <= MaxTime /\ MaxTime \in Nat
  BY TimeAssumption DEF Time
<1>2. q \in Nat /\ q * Bucket <= t /\ t < q * Bucket + Bucket /\ q * Bucket \in Nat
  BY <1>1
<1> QED BY <1>1, <1>2 DEF BucketOf, Time

\* The step changed nothing a window of admitted calls is made of.
AdmittedStand ==
  /\ Admitted' = Admitted
  /\ \A x \in Admitted : res'[x] = res[x]

LEMMA WindowsStand ==
  ASSUME NeverOver, AdmittedStand
  PROVE  NeverOver'
<1> SUFFICES ASSUME NEW start \in Time  PROVE Bounded(During(start, Assured))'
  BY DEF NeverOver
<1>1. Bounded(During(start, Assured))
  BY DEF NeverOver
<1>2. During(start, Assured)' = During(start, Assured)
  BY DEF AdmittedStand, During, Assured
<1>3. \A x \in During(start, Assured) : res'[x] = res[x]
  BY DEF AdmittedStand, During
<1> QED BY <1>1, <1>2, <1>3 DEF Bounded

--------------------------------------------------------------------------------
LEMMA RateInitHolds == RateInit => RateInv
<1> SUFFICES ASSUME RateInit  PROVE RateInv
  OBVIOUS
<1>1. RateTypeOK
  BY TimeAssumption DEF RateInit, RateTypeOK, Time, Reservation
<1>2. Held
  BY DEF RateInit, Held
<1>3. Admitted = {}
  BY DEF RateInit, Admitted
<1>4. NeverOver
  BY <1>3 DEF NeverOver, During, Bounded
<1> QED BY <1>1, <1>2, <1>4 DEF RateInv

LEMMA RateStutter == RateInv /\ UNCHANGED rateVars => RateInv'
<1> SUFFICES ASSUME RateInv, UNCHANGED rateVars  PROVE RateInv'
  OBVIOUS
<1>1. RateTypeOK'
  BY DEF RateInv, RateTypeOK, rateVars
<1>2. Held'
  BY DEF RateInv, Held, MyBucket, BucketOf, rateVars
<1>3. AdmittedStand
  BY DEF AdmittedStand, Admitted, rateVars
<1> QED BY <1>1, <1>2, <1>3, WindowsStand DEF RateInv

LEMMA TickKeeps == RateInv /\ Tick => RateInv'
<1> SUFFICES ASSUME RateInv, Tick  PROVE RateInv'
  OBVIOUS
<1>1. RateTypeOK'
  BY TimeAssumption DEF RateInv, RateTypeOK, Tick, Time
<1>2. Held'
  BY DEF RateInv, Held, MyBucket, BucketOf, Tick
<1>3. AdmittedStand
  BY DEF AdmittedStand, Admitted, Tick
<1> QED BY <1>1, <1>2, <1>3, WindowsStand DEF RateInv

\* A step that moves one reservation, which is not admitted by it.
LEMMA MoveKeeps ==
  ASSUME RateInv, NEW r \in Reservations, NEW row \in Reservation,
         res' = [res EXCEPT ![r] = row], res[r].pc # "admitted", row.pc # "admitted"
  PROVE  NeverOver'
<1>1. AdmittedStand
  BY DEF AdmittedStand, Admitted, RateInv, RateTypeOK
<1> QED BY <1>1, WindowsStand DEF RateInv

LEMMA CheckKeeps ==
  ASSUME RateInv, NEW r \in Reservations, NEW max \in Limits, checkRateLimit(r, max)
  PROVE  RateInv'
<1> DEFINE row == [pc |-> "bump", now |-> clock, max |-> max]
<1>1. row \in Reservation
  BY DEF RateInv, RateTypeOK, Reservation
<1>2. res' = [res EXCEPT ![r] = row] /\ res[r].pc = "idle" /\ UNCHANGED <<clock, rows, slot>>
  BY DEF checkRateLimit
<1>3. RateTypeOK'
  BY <1>1, <1>2 DEF RateInv, RateTypeOK
<1>4. Held'
  BY <1>2 DEF RateInv, RateTypeOK, Held, MyBucket, BucketOf
<1>5. NeverOver'
  <2> HIDE DEF row
  <2>1. row.pc = "bump"
    BY DEF row
  <2> QED BY <1>1, <1>2, <2>1, MoveKeeps
<1> QED BY <1>3, <1>4, <1>5 DEF RateInv

\* A move of the program counter alone keeps the fields' types.
LEMMA GoesIsTyped ==
  ASSUME RateTypeOK, NEW r \in Reservations, NEW from, NEW to,
         to \in {"insert", "rebump", "sum", "undo", "admitted", "denied", "failed"},
         Goes(r, from, to)
  PROVE  /\ res' \in [Reservations -> Reservation]
         /\ [res[r] EXCEPT !.pc = to] \in Reservation
         /\ res' = [res EXCEPT ![r] = [res[r] EXCEPT !.pc = to]]
         /\ \A x \in Reservations : res'[x].now = res[x].now /\ res'[x].max = res[x].max
         /\ \A x \in Reservations : res'[x].pc = IF x = r THEN to ELSE res[x].pc
<1>1. res \in [Reservations -> Reservation] /\ res[r] \in Reservation
  BY DEF RateTypeOK
<1>2. [res[r] EXCEPT !.pc = to] \in Reservation
  BY <1>1 DEF Reservation
<1>3. res' = [res EXCEPT ![r] = [res[r] EXCEPT !.pc = to]]
  BY <1>1 DEF Goes
<1>4. res'[r] = [res[r] EXCEPT !.pc = to] /\ \A x \in Reservations \ {r} : res'[x] = res[x]
  BY <1>1, <1>3
<1>5. res'[r].now = res[r].now /\ res'[r].max = res[r].max /\ res'[r].pc = to
  BY <1>1, <1>4 DEF Reservation
<1>6. res' \in [Reservations -> Reservation]
  BY <1>1, <1>2, <1>3
<1> QED BY <1>2, <1>3, <1>4, <1>5, <1>6

\* The increment counts the reservation in its own bucket, and moves on to the sum.
LEMMA CountsKeeps ==
  ASSUME RateInv, NEW r \in Reservations, Counts(r),
         NEW from \in {"bump", "insert", "rebump"}, Goes(r, from, "sum"),
         rows' = rows \/ rows' = rows \cup {MyBucket(r)}, clock' = clock
  PROVE  RateInv'
<1>1. RateTypeOK /\ res[r] \in Reservation /\ res[r].now \in Time
  BY DEF RateInv, RateTypeOK, Reservation
<1>2. MyBucket(r) \in Time
  BY <1>1, BucketIsNear DEF MyBucket
<1>3. /\ res' \in [Reservations -> Reservation]
      /\ \A x \in Reservations : res'[x].now = res[x].now
      /\ \A x \in Reservations : res'[x].pc = IF x = r THEN "sum" ELSE res[x].pc
      /\ [res[r] EXCEPT !.pc = "sum"] \in Reservation
      /\ res' = [res EXCEPT ![r] = [res[r] EXCEPT !.pc = "sum"]]
  BY <1>1, GoesIsTyped
<1>4. RateTypeOK'
  BY <1>1, <1>2, <1>3 DEF RateTypeOK, Counts
<1>5. \A x \in Reservations : MyBucket(x)' = MyBucket(x)
  BY <1>3 DEF MyBucket, BucketOf
<1>6. \A x \in Reservations : slot'[x] = IF x = r THEN MyBucket(r) ELSE slot[x]
  BY <1>1 DEF Counts, RateTypeOK
<1>7. MyBucket(r) # None
  BY <1>2, ReservationsAssumption, TimeAssumption DEF Time
<1>8. Held'
  BY <1>3, <1>5, <1>6, <1>7 DEF Held, RateInv
<1>9. NeverOver'
  <2>1. res[r].pc # "admitted" /\ [res[r] EXCEPT !.pc = "sum"].pc # "admitted"
    BY <1>1 DEF Goes, Reservation
  <2> QED BY <1>3, <2>1, MoveKeeps
<1> QED BY <1>4, <1>8, <1>9 DEF RateInv

\* A step that only moves a reservation, to a place where Held asks for no more.
LEMMA MovesOn ==
  ASSUME RateInv, NEW r \in Reservations, NEW from, NEW to, Goes(r, from, to),
         UNCHANGED <<clock, rows, slot>>,
         \/ from \in {"bump", "insert"} /\ to \in {"insert", "rebump"}
         \/ from = "sum" /\ to = "undo"
         \/ from # "admitted" /\ to = "failed"
  PROVE  RateInv'
<1>1. RateTypeOK /\ res[r] \in Reservation /\ res[r].pc = from
  BY DEF RateInv, RateTypeOK, Goes
<1>2. /\ res' \in [Reservations -> Reservation]
      /\ \A x \in Reservations : res'[x].now = res[x].now
      /\ \A x \in Reservations : res'[x].pc = IF x = r THEN to ELSE res[x].pc
      /\ [res[r] EXCEPT !.pc = to] \in Reservation
      /\ res' = [res EXCEPT ![r] = [res[r] EXCEPT !.pc = to]]
  BY <1>1, GoesIsTyped
<1>3. RateTypeOK'
  BY <1>1, <1>2 DEF RateTypeOK
<1>4. \A x \in Reservations : MyBucket(x)' = MyBucket(x)
  BY <1>2 DEF MyBucket, BucketOf
<1>5. Held'
  BY <1>1, <1>2, <1>4 DEF Held, RateInv
<1>6. NeverOver'
  <2>1. res[r].pc # "admitted" /\ [res[r] EXCEPT !.pc = to].pc # "admitted"
    BY <1>1 DEF Reservation
  <2> QED BY <1>2, <2>1, MoveKeeps
<1> QED BY <1>3, <1>5, <1>6 DEF RateInv

LEMMA UndoKeeps ==
  ASSUME RateInv, NEW r \in Reservations, Undo(r)
  PROVE  RateInv'
<1>1. RateTypeOK /\ res[r] \in Reservation /\ Goes(r, "undo", "denied")
  BY DEF RateInv, RateTypeOK, Undo
<1>2. /\ res' \in [Reservations -> Reservation]
      /\ \A x \in Reservations : res'[x].now = res[x].now
      /\ \A x \in Reservations : res'[x].pc = IF x = r THEN "denied" ELSE res[x].pc
      /\ [res[r] EXCEPT !.pc = "denied"] \in Reservation
      /\ res' = [res EXCEPT ![r] = [res[r] EXCEPT !.pc = "denied"]]
  BY <1>1, GoesIsTyped
<1>3. RateTypeOK'
  BY <1>1, <1>2 DEF RateTypeOK, Undo, TakeBack
<1>4. \A x \in Reservations : MyBucket(x)' = MyBucket(x)
  BY <1>2 DEF MyBucket, BucketOf
<1>5. \A x \in Reservations : slot'[x] = IF x = r THEN None ELSE slot[x]
  BY <1>1 DEF Undo, TakeBack, RateTypeOK
<1>6. Held'
  BY <1>2, <1>4, <1>5 DEF Held, RateInv
<1>7. NeverOver'
  <2>1. res[r].pc # "admitted" /\ [res[r] EXCEPT !.pc = "denied"].pc # "admitted"
    BY <1>1 DEF Reservation, Goes
  <2> QED BY <1>2, <2>1, MoveKeeps
<1> QED BY <1>3, <1>6, <1>7 DEF RateInv

--------------------------------------------------------------------------------
\* The heart of the matter: the rows a reservation adds up include the bucket of
\* every call admitted in a window that it would be admitted to itself.
LEMMA SeesTheWindow ==
  ASSUME RateInv, NEW r \in Reservations, NEW start \in Time,
         NEW x \in Reservations, slot[x] # None,
         res[x].now >= start, res[r].now <= start + Assured
  PROVE  x \in Seen(r)
<1>1. res[x].now \in Time /\ res[r].now \in Time /\ slot[x] \in Time
  BY DEF RateInv, RateTypeOK, Reservation
<1>2. slot[x] = BucketOf(res[x].now)
  BY DEF RateInv, Held, MyBucket
<1>3. res[x].now < slot[x] + Bucket
  BY <1>1, <1>2, BucketIsNear
<1>4. slot[x] >= res[r].now - Hour
  BY <1>1, <1>3, TimeAssumption DEF Assured, Time
<1> QED BY <1>4 DEF Seen

LEMMA AdmitKeeps ==
  ASSUME RateInv, NEW r \in Reservations, Fits(r), Goes(r, "sum", "admitted"),
         UNCHANGED <<clock, rows, slot>>
  PROVE  RateInv'
<1>1. RateTypeOK /\ res[r] \in Reservation /\ res[r].pc = "sum"
  BY DEF RateInv, RateTypeOK, Goes
<1>2. /\ res' \in [Reservations -> Reservation]
      /\ \A x \in Reservations : res'[x].now = res[x].now /\ res'[x].max = res[x].max
      /\ \A x \in Reservations : res'[x].pc = IF x = r THEN "admitted" ELSE res[x].pc
  BY <1>1, GoesIsTyped
<1>3. RateTypeOK'
  BY <1>1, <1>2 DEF RateTypeOK
<1>4. \A x \in Reservations : MyBucket(x)' = MyBucket(x)
  BY <1>2 DEF MyBucket, BucketOf
<1>5. Held'
  BY <1>1, <1>2, <1>4 DEF Held, RateInv
<1>6. ASSUME NEW start \in Time  PROVE Bounded(During(start, Assured))'
  <2> DEFINE W == During(start, Assured)
  <2>1. CASE r \in W'
    <3>1. W' \subseteq Seen(r)
      <4> SUFFICES ASSUME NEW x \in W'  PROVE x \in Seen(r)
        OBVIOUS
      <4>1. x \in Reservations /\ res[x].now >= start /\ (x = r \/ res[x].pc = "admitted")
        BY <1>2 DEF During, Admitted
      <4>2. slot[x] # None
        BY <1>1, <4>1 DEF RateInv, Held
      <4>3. res[r].now <= start + Assured
        BY <1>2, <2>1 DEF During, Admitted, Assured
      <4> QED BY <4>1, <4>2, <4>3, SeesTheWindow
    <3>2. IsFiniteSet(Seen(r))
      BY ReservationsAssumption, FS_Subset DEF Seen
    <3>3. IsFiniteSet(W') /\ Cardinality(W') <= Cardinality(Seen(r))
      BY <3>1, <3>2, FS_Subset
    <3>4. Cardinality(W') \in Nat /\ Cardinality(Seen(r)) \in Nat
      BY <3>2, <3>3, FS_CardinalityType
    <3>5. Cardinality(Seen(r)) <= res[r].max /\ res[r].max \in Nat
      <4>1. res[r].max \in Limits \cup {0}
        BY <1>1 DEF Reservation
      <4>2. res[r].max \in Nat
        BY <4>1, LimitsAssumption
      <4> QED BY <4>2 DEF Fits
    <3>6. Cardinality(W') <= res[r].max
      <4> HIDE DEF W
      <4> QED BY <3>3, <3>4, <3>5
    <3>7. res'[r].max = res[r].max
      BY <1>2
    <3> QED BY <2>1, <3>6, <3>7 DEF Bounded
  <2>2. CASE r \notin W'
    <3>1. W' = W
      BY <1>1, <1>2, <2>2 DEF During, Admitted, Assured
    <3>2. Bounded(W)
      BY DEF RateInv, NeverOver
    <3>3. \A x \in W : res'[x].max = res[x].max
      BY <1>2 DEF During, Admitted
    <3> QED BY <3>1, <3>2, <3>3 DEF Bounded
  <2> QED BY <2>1, <2>2
<1>7. NeverOver'
  BY <1>6 DEF NeverOver
<1> QED BY <1>3, <1>5, <1>7 DEF RateInv

--------------------------------------------------------------------------------
LEMMA ReserveStepKeeps ==
  ASSUME RateInv, NEW r \in Reservations, ReserveStep(r)
  PROVE  RateInv'
<1>1. CASE Bump(r)
  <2>1. CASE Goes(r, "bump", "sum") /\ Counts(r) /\ UNCHANGED <<clock, rows>>
    BY <2>1, CountsKeeps
  <2>2. CASE Goes(r, "bump", "insert") /\ UNCHANGED <<clock, rows, slot>>
    BY <2>2, MovesOn
  <2> QED BY <1>1, <2>1, <2>2 DEF Bump
<1>2. CASE Insert(r)
  <2>1. CASE Goes(r, "insert", "sum") /\ Counts(r) /\ rows' = rows \cup {MyBucket(r)} /\ UNCHANGED clock
    BY <2>1, CountsKeeps
  <2>2. CASE Goes(r, "insert", "rebump") /\ UNCHANGED <<clock, rows, slot>>
    BY <2>2, MovesOn
  <2> QED BY <1>2, <2>1, <2>2 DEF Insert
<1>3. CASE Rebump(r)
  BY <1>3, CountsKeeps DEF Rebump
<1>4. CASE Sum(r)
  <2>1. CASE Fits(r) /\ Goes(r, "sum", "admitted") /\ UNCHANGED <<clock, rows, slot>>
    BY <2>1, AdmitKeeps
  <2>2. CASE Goes(r, "sum", "undo") /\ UNCHANGED <<clock, rows, slot>>
    BY <2>2, MovesOn
  <2> QED BY <1>4, <2>1, <2>2 DEF Sum
<1>5. CASE Undo(r)
  BY <1>5, UndoKeeps
<1> QED BY <1>1, <1>2, <1>3, <1>4, <1>5 DEF ReserveStep

LEMMA FailureKeeps ==
  ASSUME RateInv, NEW r \in Reservations, ReserveFails(r)
  PROVE  RateInv'
<1>1. Goes(r, res[r].pc, "failed") /\ res[r].pc # "admitted" /\ UNCHANGED <<clock, rows, slot>>
  BY DEF ReserveFails, Pending, Goes
<1> QED BY <1>1, MovesOn

LEMMA RateNextKeeps == RateInv /\ [RateNext]_rateVars => RateInv'
<1> SUFFICES ASSUME RateInv, [RateNext]_rateVars  PROVE RateInv'
  OBVIOUS
<1>1. CASE Tick
  BY <1>1, TickKeeps
<1>2. ASSUME NEW r \in Reservations, NEW max \in Limits, checkRateLimit(r, max)  PROVE RateInv'
  BY <1>2, CheckKeeps
<1>3. ASSUME NEW r \in Reservations, ReserveStep(r)  PROVE RateInv'
  BY <1>3, ReserveStepKeeps
<1>4. ASSUME NEW r \in Reservations, ReserveFails(r)  PROVE RateInv'
  BY <1>4, FailureKeeps
<1>5. CASE UNCHANGED rateVars
  BY <1>5, RateStutter
<1> QED BY <1>1, <1>2, <1>3, <1>4, <1>5 DEF RateNext

LEMMA RateInvariant == RateSpec => []RateInv
<1> QED BY RateInitHolds, RateNextKeeps, PTL DEF RateSpec

--------------------------------------------------------------------------------
\* Whatever the reservations do, the variables have their types: checkRateLimit()
\* keeps to the buckets of the clock and the limits it is given.
THEOREM RateTypesHold == RateSpec => []RateTypeOK
<1>1. RateInv => RateTypeOK
  BY DEF RateInv
<1> QED BY <1>1, RateInvariant, PTL

\* However many calls reserve at once, race for a bucket's row, fail or take their
\* one back, the sum reserve() makes admits no more of them in any window of
\* Assured ticks than the largest of their limits.
THEOREM LimitHolds == RateSpec => []NeverOver
<1>1. RateInv => NeverOver
  BY DEF RateInv
<1> QED BY <1>1, RateInvariant, PTL

\* A reservation that was refused has taken its increment back.
THEOREM DenialsAreFree == RateSpec => []DeniedLeavesNothing
<1>1. RateInv => DeniedLeavesNothing
  BY DEF RateInv, Held, DeniedLeavesNothing
<1> QED BY <1>1, RateInvariant, PTL

--------------------------------------------------------------------------------
(* The pipeline *)

Typed ==
  /\ agent \in Agent /\ perms \subseteq Grants /\ lent \subseteq Grants
  /\ approval \in {"approved", "spent"}
  /\ call \in [Calls -> Call]
  /\ admin \in [Admins -> Admin]
  /\ failures \in 0..MaxFailures
  /\ spentBy \subseteq Calls /\ cut \subseteq Calls
  /\ gone \in BOOLEAN /\ asked \subseteq Grants /\ mixed \in BOOLEAN

\* Once revoke() has written its row the agent is never active again.
GoneIsDead ==
  /\ gone => agent.status # "active"
  /\ \A a \in Admins : admin[a].pc = "cascade" => agent.status # "active"

\* A call that began after that is still loading, or was refused and forgotten.
LateIsDead ==
  \A c \in Calls : call[c].late =>
    gone /\ At(c, "load") /\ ("agent" \in call[c].unread \/ call[c].dead)

Ended(c) == call[c].pc \in {"allowed", "denied", "failed"}
Writing(c) == call[c].pc \in {"record", "final", "refused"}

\* Until a call ends there is no row of it, and the one it is about to write has
\* an id.
Trails ==
  /\ trail \in [Calls -> SUBSET Row]
  /\ \A c \in cut : Ended(c)
  /\ \A c \in Calls : (~Ended(c) => trail[c] = {}) /\ (Writing(c) => call[c].id \in Ids)
  /\ TrailTellsAnswer

Spent ==
  /\ approval = "approved" => spentBy = {}
  /\ SpentIsAllowed

\* The limit a call was let through with is that of the grant it matched.
Covered(c) ==
  LimitOf[call[c].grant] # None =>
    res[Attempt(c)].pc = "admitted" /\ res[Attempt(c)].max = LimitOf[call[c].grant]
CountedCall(c) ==
  /\ call[c].allows => call[c].pc \in {"record", "allowed"}
  /\ At(c, "limit") => res[Attempt(c)].max = LimitOf[call[c].grant]
  /\ call[c].pc \in {"inspect", "spend", "record"} \/ call[c].allows => Covered(c)
Counted == \A c \in Calls : CountedCall(c)

\* Of updates that do not overlap, the one that inserts is the last to delete.
Replaced ==
  ~mixed => /\ perms \subseteq asked
            /\ \A a \in Admins : admin[a].pc = "insert" => admin[a].wanted = asked

--------------------------------------------------------------------------------
(* What the steps of a call do to its local variables. *)

Moved(c) ==
  /\ call' \in [Calls -> Call]
  /\ \A x \in Calls \ {c} : call'[x] = call[x]
Carries(c) ==
  /\ Moved(c)
  /\ call'[c].late = call[c].late /\ call'[c].allows = call[c].allows
  /\ call'[c].path = call[c].path
Becomes(c, pc) ==
  /\ Carries(c)
  /\ call'[c].pc = pc /\ call'[c].grant = call[c].grant
IsRefused(c) ==
  /\ Moved(c)
  /\ call'[c].pc = "refused" /\ ~call'[c].late /\ ~call'[c].allows /\ call'[c].id \in Ids
IsFinal(c) ==
  /\ Moved(c)
  /\ call'[c].pc = "final" /\ ~call'[c].late /\ ~call'[c].allows /\ call'[c].id \in Ids
IsDenied(c) == (Becomes(c, "delegated") \/ IsFinal(c)) /\ UNCHANGED trail
IsAllowed(c) ==
  /\ Moved(c)
  /\ call'[c].pc = "record" /\ call'[c].allows /\ call'[c].late = call[c].late
  /\ call'[c].path = call[c].path /\ call'[c].grant = call[c].grant /\ call'[c].id \in Ids
  /\ UNCHANGED trail

LEMMA ZeroIsTime == 0 \in Time
  BY TimeAssumption DEF Time

LEMMA RowMoves ==
  ASSUME Typed, NEW c \in Calls, NEW k \in Call, call' = [call EXCEPT ![c] = k]
  PROVE  Moved(c) /\ call'[c] = k
<1> QED BY DEF Typed, Moved

LEMMA GotoMoves ==
  ASSUME Typed, NEW c \in Calls,
         NEW pc \in {"mark", "inspect", "spend", "delegated", "limit"},
         Goto(c, pc)
  PROVE  Becomes(c, pc)
<1> PICK h, k : h = call[c] /\ k = [h EXCEPT !.pc = pc]
  OBVIOUS
<1>1. h \in Call
  BY DEF Typed
<1>2. k \in Call /\ k.pc = pc /\ k.late = h.late /\ k.allows = h.allows /\ k.path = h.path /\ k.grant = h.grant
  BY <1>1 DEF Call
<1>3. call' = [call EXCEPT ![c] = k]
  BY DEF Goto, Typed
<1> QED BY <1>2, <1>3, RowMoves DEF Becomes, Carries

LEMMA EndsMoves ==
  ASSUME Typed, NEW c \in Calls, NEW id \in Ids \cup {""},
         NEW pc \in {"final", "refused", "denied", "failed"},
         Ends(c, pc, id)
  PROVE  Moved(c) /\ call'[c].pc = pc /\ call'[c].id = id /\ ~call'[c].late /\ ~call'[c].allows
<1> PICK k : k = [NewCall EXCEPT !.pc = pc, !.id = id]
  OBVIOUS
<1>1. k \in Call /\ k.pc = pc /\ k.id = id /\ k.late = FALSE /\ k.allows = FALSE
  BY ZeroIsTime DEF NewCall, Call, Paths, Ids
<1>2. call' = [call EXCEPT ![c] = k]
  BY DEF Ends
<1> QED BY <1>1, <1>2, RowMoves

LEMMA RefusesMoves ==
  ASSUME Typed, NEW c \in Calls, Refuses(c)
  PROVE  IsRefused(c)
<1> QED BY EndsMoves DEF Refuses, IsRefused, Ids

LEMMA DeniesMoves ==
  ASSUME Typed, NEW c \in Calls, NEW code, Denies(c, code)
  PROVE  IsDenied(c)
<1>1. trail' = trail
  BY DEF Denies, Defers
<1>2. CASE Goto(c, "delegated")
  BY <1>1, <1>2, GotoMoves DEF IsDenied
<1>3. ASSUME NEW id \in {"own", "lent"}, Ends(c, "final", id)  PROVE IsDenied(c)
  <2>1. id \in Ids
    BY DEF Ids, Paths
  <2> QED BY <1>1, <1>3, <2>1, EndsMoves DEF IsDenied, IsFinal
<1> QED BY <1>2, <1>3 DEF Denies

LEMMA AllowsMoves ==
  ASSUME Typed, NEW c \in Calls, Allows(c)
  PROVE  IsAllowed(c)
<1> PICK h, k : h = call[c] /\ k = [h EXCEPT !.pc = "record", !.allows = TRUE, !.id = h.path]
  OBVIOUS
<1>1. h \in Call /\ h.path \in Ids
  BY DEF Typed, Call, Ids
<1>2. k \in Call /\ k.pc = "record" /\ k.late = h.late /\ k.allows = TRUE /\ k.path = h.path
      /\ k.grant = h.grant /\ k.id \in Ids
  BY <1>1 DEF Call
<1>3. call' = [call EXCEPT ![c] = k]
  BY DEF Allows, Typed
<1>4. UNCHANGED trail
  BY DEF Allows
<1> QED BY <1>2, <1>3, <1>4, RowMoves DEF IsAllowed

LEMMA AuthorizeMoves ==
  ASSUME Typed, NEW c \in Calls, authorize(c)
  PROVE  /\ Moved(c) /\ call'[c].pc = "load" /\ call'[c].late = gone /\ ~call'[c].allows
         /\ "agent" \in call'[c].unread
<1>1. PICK byToken \in BOOLEAN :
        call' = [call EXCEPT ![c] = [NewCall EXCEPT !.pc = "load", !.byToken = byToken, !.late = gone]]
  BY DEF authorize
<1> PICK k : k = [NewCall EXCEPT !.pc = "load", !.byToken = byToken, !.late = gone]
  OBVIOUS
<1>2. k \in Call /\ k.pc = "load" /\ k.late = gone /\ k.allows = FALSE /\ k.unread = {"agent", "permissions"}
  BY ZeroIsTime DEF NewCall, Call, Paths, Ids, Typed
<1> QED BY <1>1, <1>2, RowMoves

LEMMA ReadAgentMoves ==
  ASSUME Typed, NEW c \in Calls, ReadAgent(c)
  PROVE  \/ agent.status = "active" /\ Becomes(c, "mark")
         \/ Becomes(c, "load") /\ (agent.status # "active" => call'[c].dead)
<1>1. CASE agent.status = "active" /\ Goto(c, "mark")
  BY <1>1, GotoMoves
<1>2. CASE call' = [call EXCEPT ![c].unread = @ \ {"agent"}, ![c].dead = Refused(c), ![c].expires = agent.expires]
  <2> PICK h, k : h = call[c] /\ k = [h EXCEPT !.unread = @ \ {"agent"}, !.dead = Refused(c), !.expires = agent.expires]
    OBVIOUS
  <2>1. h \in Call /\ h.pc = "load"
    BY DEF Typed, ReadAgent, At
  <2>2. Refused(c) \in BOOLEAN /\ agent.expires \in Time
    BY DEF Refused, Typed, Agent
  <2>3. k \in Call /\ k.pc = h.pc /\ k.late = h.late /\ k.allows = h.allows /\ k.path = h.path
        /\ k.grant = h.grant /\ k.dead = Refused(c)
    BY <2>1, <2>2 DEF Call
  <2>4. call' = [call EXCEPT ![c] = k]
    BY <1>2 DEF Typed
  <2>5. Becomes(c, "load") /\ call'[c].dead = Refused(c)
    BY <2>1, <2>3, <2>4, RowMoves DEF Becomes, Carries
  <2> QED BY <2>5 DEF Refused
<1> QED BY <1>1, <1>2 DEF ReadAgent

LEMMA ReadPermissionsMoves ==
  ASSUME Typed, NEW c \in Calls, ReadPermissions(c)
  PROVE  /\ Becomes(c, "load") /\ call'[c].dead = call[c].dead
         /\ "agent" \in call[c].unread => "agent" \in call'[c].unread
<1> PICK h, k : h = call[c] /\ k = [h EXCEPT !.unread = @ \ {"permissions"}, !.perms = perms]
  OBVIOUS
<1>1. h \in Call /\ h.pc = "load"
  BY DEF Typed, ReadPermissions, At
<1>2. k \in Call /\ k.pc = h.pc /\ k.late = h.late /\ k.allows = h.allows /\ k.path = h.path
      /\ k.grant = h.grant /\ k.dead = h.dead /\ k.unread = h.unread \ {"permissions"}
  BY <1>1 DEF Call, Typed
<1>3. call' = [call EXCEPT ![c] = k]
  BY DEF ReadPermissions, Typed
<1> QED BY <1>1, <1>2, <1>3, RowMoves DEF Becomes, Carries

LEMMA LoadedMoves ==
  ASSUME Typed, NEW c \in Calls, Loaded(c)
  PROVE  IsRefused(c) \/ (~call[c].dead /\ call[c].unread = {} /\ Becomes(c, "match"))
<1>1. CASE call[c].dead \/ Elapsed(c)
  BY <1>1, RefusesMoves DEF Loaded
<1>2. CASE ~(call[c].dead \/ Elapsed(c))
  <2> PICK h, k : h = call[c] /\ k = [h EXCEPT !.pc = "match", !.byToken = FALSE, !.expires = 0]
    OBVIOUS
  <2>1. h \in Call
    BY DEF Typed
  <2>2. k \in Call /\ k.pc = "match" /\ k.late = h.late /\ k.allows = h.allows /\ k.path = h.path /\ k.grant = h.grant
    BY <2>1, ZeroIsTime DEF Call
  <2>3. call' = [call EXCEPT ![c] = k]
    BY <1>2 DEF Loaded, Typed
  <2>4. Becomes(c, "match")
    BY <2>2, <2>3, RowMoves DEF Becomes, Carries
  <2> QED BY <1>2, <2>4 DEF Loaded
<1> QED BY <1>1, <1>2

\* Where a call goes that has matched grant g.
Matched(c, g) ==
  /\ Carries(c) /\ call'[c].grant = g /\ UNCHANGED trail
  /\ \/ LimitOf[g] = None /\ call'[c].pc = "inspect" /\ UNCHANGED rateVars
     \/ LimitOf[g] # None /\ call'[c].pc = "limit" /\ checkRateLimit(Attempt(c), LimitOf[g])

LEMMA MatchMoves ==
  ASSUME Typed, NEW c \in Calls, Match(c)
  PROVE  \/ IsDenied(c) /\ UNCHANGED rateVars
         \/ \E g \in Grants : Matched(c, g)
<1>1. CASE Denies(c, "none") /\ UNCHANGED rateVars
  BY <1>1, DeniesMoves
<1>2. ASSUME NEW g \in call[c].perms,
             call' = [call EXCEPT ![c].grant = g, ![c].perms = {}, ![c].pc = IF Unlimited(c, g) THEN "inspect" ELSE "limit"],
             IF Unlimited(c, g) THEN UNCHANGED rateVars ELSE checkRateLimit(Attempt(c), LimitOf[g]),
             UNCHANGED trail
      PROVE  \E d \in Grants : Matched(c, d)
  <2> PICK h, k, pc : /\ h = call[c] /\ pc = IF Unlimited(c, g) THEN "inspect" ELSE "limit"
                      /\ k = [h EXCEPT !.grant = g, !.perms = {}, !.pc = pc]
    OBVIOUS
  <2>1. h \in Call /\ g \in Grants /\ pc \in {"inspect", "limit"}
    BY DEF Typed, Call
  <2>2. k \in Call /\ k.pc = pc /\ k.late = h.late /\ k.allows = h.allows /\ k.path = h.path /\ k.grant = g
    BY <2>1 DEF Call
  <2>3. call' = [call EXCEPT ![c] = k]
    BY <1>2 DEF Typed
  <2>4. Carries(c) /\ call'[c].grant = g /\ call'[c].pc = pc
    BY <2>2, <2>3, RowMoves DEF Carries
  <2>5. Matched(c, g)
    BY <1>2, <2>4 DEF Matched, Unlimited
  <2> QED BY <2>1, <2>5
<1> QED BY <1>1, <1>2 DEF Match

LEMMA DelegatedMoves ==
  ASSUME Typed, NEW c \in Calls, Delegated(c)
  PROVE  \/ IsFinal(c)
         \/ /\ Moved(c) /\ call'[c].pc = "match"
            /\ call'[c].late = call[c].late /\ call'[c].allows = call[c].allows
<1>1. CASE Ends(c, "final", "own")
  BY <1>1, EndsMoves DEF IsFinal, Ids, Paths
<1>2. CASE call' = [call EXCEPT ![c].pc = "match", ![c].path = "lent", ![c].perms = lent]
  <2> PICK h, k : h = call[c] /\ k = [h EXCEPT !.pc = "match", !.path = "lent", !.perms = lent]
    OBVIOUS
  <2>1. h \in Call
    BY DEF Typed
  <2>2. k \in Call /\ k.pc = "match" /\ k.late = h.late /\ k.allows = h.allows
    BY <2>1 DEF Call, Paths, Typed
  <2>3. call' = [call EXCEPT ![c] = k]
    BY <1>2 DEF Typed
  <2> QED BY <2>2, <2>3, RowMoves
<1> QED BY <1>1, <1>2 DEF Delegated

LEMMA RecordMoves ==
  ASSUME Typed, NEW c \in Calls, RecordAllowed(c)
  PROVE  /\ Moved(c)
         /\ call'[c].allows /\ call'[c].pc = "allowed" /\ call'[c].late = call[c].late
         /\ call'[c].path = call[c].path /\ call'[c].grant = call[c].grant /\ call'[c].id = call[c].id
<1> PICK h, k : /\ h = call[c]
                /\ k = [NewCall EXCEPT !.pc = "allowed", !.path = h.path, !.grant = h.grant, !.allows = TRUE,
                                       !.late = h.late, !.id = h.id]
  OBVIOUS
<1>1. h \in Call
  BY DEF Typed
<1>2. /\ k \in Call /\ k.pc = "allowed" /\ k.path = h.path /\ k.grant = h.grant /\ k.allows = TRUE
      /\ k.late = h.late /\ k.id = h.id
  BY ZenonT(60), <1>1, ZeroIsTime DEF NewCall, Call
<1>3. call' = [call EXCEPT ![c] = k]
  BY DEF RecordAllowed
<1> QED BY <1>2, <1>3, RowMoves

LEMMA DenialMoves ==
  ASSUME Typed, NEW c \in Calls, auditDenial(c) \/ recordDenial(c)
  PROVE  /\ Moved(c) /\ call'[c].pc = "denied" /\ ~call'[c].late /\ ~call'[c].allows
         /\ call'[c].id \in {call[c].id, ""}
<1>1. call[c].id \in Ids \cup {""}
  BY DEF Typed, Call
<1>2. Ends(c, "denied", call[c].id) \/ Ends(c, "denied", "")
  BY DEF auditDenial, recordDenial
<1> QED BY <1>1, <1>2, EndsMoves

\* The three places that write a row: each ends its call as its row says.
Audits(c) == RecordAllowed(c) \/ auditDenial(c) \/ recordDenial(c)
LEMMA AuditsMoves ==
  ASSUME Typed, NEW c \in Calls, Audits(c)
  PROVE  /\ Moved(c)
         /\ \/ /\ call[c].pc = "record" /\ call'[c].pc = "allowed"
               /\ call'[c].allows /\ call'[c].late = call[c].late
               /\ call'[c].path = call[c].path /\ call'[c].grant = call[c].grant
            \/ /\ call[c].pc \in {"final", "refused"} /\ call'[c].pc = "denied"
               /\ ~call'[c].allows /\ ~call'[c].late
         /\ failures' \in 0..MaxFailures /\ (cut' = cut \/ cut' = cut \cup {c})
         /\ UNCHANGED <<rateVars, agent, perms, lent, approval, admin, spentBy, gone, asked, mixed>>
<1>1. UNCHANGED <<rateVars, agent, perms, lent, approval, admin, spentBy, gone, asked, mixed>>
  BY DEF Audits, RecordAllowed, auditDenial, recordDenial, Elsewhere, agentVars
<1>2. failures' \in 0..MaxFailures /\ (cut' = cut \/ cut' = cut \cup {c})
  <2>1. \/ failures' = failures /\ cut' = cut
        \/ failures < MaxFailures /\ failures' = failures + 1 /\ cut' = cut \cup {c}
    BY DEF Audits, RecordAllowed, auditDenial, recordDenial, Written, Unsure, Fault
  <2> QED BY <2>1, BoundAssumption DEF Typed
<1>3. CASE RecordAllowed(c)
  BY <1>1, <1>2, <1>3, RecordMoves DEF RecordAllowed, At
<1>4. CASE auditDenial(c) \/ recordDenial(c)
  BY <1>1, <1>2, <1>4, DenialMoves DEF auditDenial, recordDenial, At
<1> QED BY <1>3, <1>4 DEF Audits

LEMMA FailsMoves ==
  ASSUME Typed, NEW c \in Calls, Fails(c)
  PROVE  Moved(c) /\ call'[c].pc = "failed" /\ ~call'[c].late /\ ~call'[c].allows
<1> QED BY EndsMoves DEF Fails

LEMMA LimitedMoves ==
  ASSUME Typed, NEW c \in Calls, Limited(c)
  PROVE  IsDenied(c) \/ (res[Attempt(c)].pc = "admitted" /\ Becomes(c, "inspect") /\ UNCHANGED trail)
<1> QED BY GotoMoves, DeniesMoves DEF Limited

LEMMA InspectMoves ==
  ASSUME Typed, NEW c \in Calls, Inspect(c)
  PROVE  IsDenied(c) \/ IsAllowed(c) \/ (Becomes(c, "spend") /\ UNCHANGED trail)
<1> QED BY GotoMoves, DeniesMoves, AllowsMoves DEF Inspect

LEMMA ConsumeMoves ==
  ASSUME Typed, NEW c \in Calls, consumeApproval(c)
  PROVE  \/ /\ approval = "approved" /\ approval' = "spent" /\ spentBy' = spentBy \cup {c}
            /\ IsAllowed(c)
         \/ IsDenied(c) /\ UNCHANGED <<approval, spentBy>>
<1> QED BY DeniesMoves, AllowsMoves DEF consumeApproval, Spends

--------------------------------------------------------------------------------
LEMMA AttemptsReserve ==
  ASSUME Typed, NEW c \in Calls
  PROVE  Attempt(c) \in Reservations
<1> QED BY CallsAssumption DEF Typed, Call, Attempt

\* Each step is one of RateSlots, or leaves its variables alone.
LEMMA StepsReserve ==
  ASSUME Typed, [Next]_vars
  PROVE  [RateNext]_rateVars
<1>1. CASE Passes
  BY <1>1 DEF Passes, RateNext
<1>2. ASSUME NEW c \in Calls, Match(c)  PROVE [RateNext]_rateVars
  <2>1. ASSUME NEW g \in Grants, Matched(c, g)  PROVE [RateNext]_rateVars
    <3>1. LimitOf[g] # None => LimitOf[g] \in Limits
      BY GrantsAssumption
    <3> QED BY <2>1, <3>1, AttemptsReserve DEF Matched, RateNext
  <2> QED BY <1>2, <2>1, MatchMoves
<1>3. ASSUME NEW c \in Calls, Reserve(c)  PROVE [RateNext]_rateVars
  BY <1>3, AttemptsReserve DEF Reserve, RateNext
<1>4. ASSUME NEW c \in Calls, Fails(c)  PROVE [RateNext]_rateVars
  BY <1>4, AttemptsReserve DEF Fails, RateNext
<1>5. ASSUME NEW c \in Calls, CallStep(c), ~Match(c), ~Reserve(c)  PROVE UNCHANGED rateVars
  BY <1>5 DEF CallStep, authorize, ReadAgent, MarkExpired, ReadPermissions, Loaded, Limited, Inspect,
              consumeApproval, Delegated, RecordAllowed, auditDenial, recordDenial, Elsewhere, StoreStays
<1>6. ASSUME NEW a \in Admins, AdminStep(a) \/ AdminFails(a)  PROVE UNCHANGED rateVars
  BY <1>6 DEF AdminStep, update, UpdateRow, DeletePermissions, InsertPermissions, revoke, Cascade, AdminFails
<1>7. CASE UNCHANGED vars
  BY <1>7 DEF vars
<1> QED BY <1>1, <1>2, <1>3, <1>4, <1>5, <1>6, <1>7 DEF Next

\* The local variables and the rows keep their types.
LEMMA TypedKept ==
  ASSUME Typed, RateTypeOK, [Next]_vars
  PROVE  Typed'
<1>1. ASSUME Passes  PROVE Typed'
  BY <1>1 DEF Typed, Agent, Admin, Passes, agentVars, history
<1>2. ASSUME NEW c \in Calls, authorize(c)  PROVE Typed'
  BY <1>2, AuthorizeMoves DEF Moved, Typed, Agent, authorize, agentVars, history, StoreStays
<1>3. ASSUME NEW c \in Calls, ReadAgent(c)  PROVE Typed'
  BY <1>3, ReadAgentMoves DEF Moved, Carries, Becomes, Typed, Agent, ReadAgent, agentVars, history, StoreStays
<1>4. ASSUME NEW c \in Calls, MarkExpired(c)  PROVE Typed'
  BY <1>4, RefusesMoves DEF Moved, IsRefused, Typed, Agent, MarkExpired, agentVars, history
<1>5. ASSUME NEW c \in Calls, ReadPermissions(c)  PROVE Typed'
  BY <1>5, ReadPermissionsMoves DEF Moved, Carries, Becomes, Typed, Agent, ReadPermissions, agentVars, history, StoreStays
<1>6. ASSUME NEW c \in Calls, Loaded(c)  PROVE Typed'
  BY <1>6, LoadedMoves DEF Moved, Carries, Becomes, IsRefused, Typed, Agent, Loaded, agentVars, history, StoreStays
<1>7. ASSUME NEW c \in Calls, Match(c)  PROVE Typed'
  BY <1>7, MatchMoves DEF Moved, Carries, Becomes, IsFinal, IsDenied, Matched, Typed, Agent, Match, agentVars, history
<1>8. ASSUME NEW c \in Calls, Reserve(c)  PROVE Typed'
  BY <1>8 DEF Typed, Agent, Reserve, agentVars, history
<1>9. ASSUME NEW c \in Calls, Limited(c)  PROVE Typed'
  BY <1>9, LimitedMoves DEF Moved, Carries, Becomes, IsFinal, IsDenied, Typed, Agent, Limited, agentVars, history, StoreStays
<1>10. ASSUME NEW c \in Calls, Inspect(c)  PROVE Typed'
  BY <1>10, InspectMoves DEF Moved, Carries, Becomes, IsFinal, IsDenied, IsAllowed, Typed, Agent, Inspect,
     agentVars, history, StoreStays
<1>11. ASSUME NEW c \in Calls, consumeApproval(c)  PROVE Typed'
  BY <1>11, ConsumeMoves DEF Moved, Carries, Becomes, IsFinal, IsDenied, IsAllowed, Typed, Agent, consumeApproval,
     agentVars, history
<1>12. ASSUME NEW c \in Calls, Delegated(c)  PROVE Typed'
  BY <1>12, DelegatedMoves DEF Moved, IsFinal, Typed, Agent, Delegated, agentVars, history, StoreStays
<1>13. ASSUME NEW c \in Calls, Audits(c)  PROVE Typed'
  BY <1>13, AuditsMoves DEF Typed, Moved
<1>14. ASSUME NEW c \in Calls, Fails(c)  PROVE Typed'
  <2>1. Moved(c)
    BY <1>14, FailsMoves
  <2>2. failures' \in 0..MaxFailures /\ cut' \subseteq Calls
    <3>1. failures < MaxFailures /\ failures' = failures + 1 /\ cut' = cut \cup {c}
      BY <1>14 DEF Fails, Fault
    <3> QED BY <3>1, BoundAssumption DEF Typed
  <2>3. UNCHANGED <<agent, perms, lent, approval, admin, spentBy, gone, asked, mixed>>
    BY <1>14 DEF Fails, agentVars
  <2> QED BY <2>1, <2>2, <2>3 DEF Typed, Moved
<1>15. ASSUME NEW a \in Admins, update(a)  PROVE Typed'
  BY <1>15, GrantsAssumption DEF Typed, Agent, Admin, update, agentVars, history
<1>16. ASSUME NEW a \in Admins, UpdateRow(a)  PROVE Typed'
  BY <1>16 DEF Typed, Agent, Admin, UpdateRow, agentVars, history
<1>17. ASSUME NEW a \in Admins, DeletePermissions(a)  PROVE Typed'
  BY <1>17 DEF Typed, Agent, Admin, DeletePermissions, agentVars, history, Kept
<1>18. ASSUME NEW a \in Admins, InsertPermissions(a)  PROVE Typed'
  BY <1>18 DEF Typed, Agent, Admin, InsertPermissions, agentVars, history
<1>19. ASSUME NEW a \in Admins, revoke(a)  PROVE Typed'
  BY <1>19 DEF Typed, Agent, Admin, revoke, agentVars, history
<1>20. ASSUME NEW a \in Admins, Cascade(a)  PROVE Typed'
  BY <1>20 DEF Typed, Agent, Admin, Cascade, agentVars, history
<1>21. ASSUME NEW a \in Admins, AdminFails(a)  PROVE Typed'
  BY <1>21, BoundAssumption DEF Typed, Agent, Admin, AdminFails, agentVars, history, Fault
<1>22. CASE UNCHANGED vars
  BY <1>22 DEF Typed, Agent, Admin, vars, agentVars, history
<1>23. ASSUME NEW c \in Calls, CallStep(c)  PROVE Typed'
  BY <1>2, <1>3, <1>4, <1>5, <1>6, <1>7, <1>8, <1>9, <1>10, <1>11, <1>12, <1>13, <1>23 DEF CallStep, Audits
<1>24. ASSUME NEW a \in Admins, AdminStep(a)  PROVE Typed'
  BY <1>15, <1>16, <1>17, <1>18, <1>19, <1>20, <1>24 DEF AdminStep
<1> QED BY <1>1, <1>14, <1>21, <1>22, <1>23, <1>24 DEF Next

\* No statement makes an agent active again.
LEMMA GoneKept ==
  ASSUME Typed, GoneIsDead, [Next]_vars
  PROVE  GoneIsDead'
<1>1. ASSUME Passes  PROVE GoneIsDead'
  BY <1>1 DEF Typed, GoneIsDead, Agent, Admin, Passes, agentVars, history
<1>2. ASSUME NEW c \in Calls, authorize(c)  PROVE GoneIsDead'
  BY <1>2, AuthorizeMoves DEF Typed, GoneIsDead, Agent, authorize, agentVars, history, StoreStays
<1>3. ASSUME NEW c \in Calls, ReadAgent(c)  PROVE GoneIsDead'
  BY <1>3, ReadAgentMoves DEF Typed, GoneIsDead, Agent, ReadAgent, agentVars, history, StoreStays
<1>4. ASSUME NEW c \in Calls, MarkExpired(c)  PROVE GoneIsDead'
  BY <1>4, RefusesMoves DEF Typed, GoneIsDead, Agent, MarkExpired, agentVars, history
<1>5. ASSUME NEW c \in Calls, ReadPermissions(c)  PROVE GoneIsDead'
  BY <1>5, ReadPermissionsMoves DEF Typed, GoneIsDead, Agent, ReadPermissions, agentVars, history, StoreStays
<1>6. ASSUME NEW c \in Calls, Loaded(c)  PROVE GoneIsDead'
  BY <1>6, LoadedMoves DEF Typed, GoneIsDead, Agent, Loaded, agentVars, history, StoreStays
<1>7. ASSUME NEW c \in Calls, Match(c)  PROVE GoneIsDead'
  BY <1>7, MatchMoves DEF Typed, GoneIsDead, Agent, Match, agentVars, history
<1>8. ASSUME NEW c \in Calls, Reserve(c)  PROVE GoneIsDead'
  BY <1>8 DEF Typed, GoneIsDead, Agent, Reserve, agentVars, history
<1>9. ASSUME NEW c \in Calls, Limited(c)  PROVE GoneIsDead'
  BY <1>9, LimitedMoves DEF Typed, GoneIsDead, Agent, Limited, agentVars, history, StoreStays
<1>10. ASSUME NEW c \in Calls, Inspect(c)  PROVE GoneIsDead'
  BY <1>10, InspectMoves DEF Typed, GoneIsDead, Agent, Inspect, agentVars, history, StoreStays
<1>11. ASSUME NEW c \in Calls, consumeApproval(c)  PROVE GoneIsDead'
  BY <1>11, ConsumeMoves DEF Typed, GoneIsDead, Agent, consumeApproval, agentVars, history
<1>12. ASSUME NEW c \in Calls, Delegated(c)  PROVE GoneIsDead'
  BY <1>12, DelegatedMoves DEF Typed, GoneIsDead, Agent, Delegated, agentVars, history, StoreStays
<1>13. ASSUME NEW c \in Calls, Audits(c)  PROVE GoneIsDead'
  BY <1>13, AuditsMoves DEF Typed, GoneIsDead, Agent, history
<1>14. ASSUME NEW c \in Calls, Fails(c)  PROVE GoneIsDead'
  BY <1>14, FailsMoves DEF Typed, GoneIsDead, Agent, Fails, agentVars, history, Fault, Running
<1>15. ASSUME NEW a \in Admins, update(a)  PROVE GoneIsDead'
  BY <1>15 DEF Typed, GoneIsDead, Agent, Admin, update, agentVars, history
<1>16. ASSUME NEW a \in Admins, UpdateRow(a)  PROVE GoneIsDead'
  BY <1>16 DEF Typed, GoneIsDead, Agent, Admin, UpdateRow, agentVars, history
<1>17. ASSUME NEW a \in Admins, DeletePermissions(a)  PROVE GoneIsDead'
  BY <1>17 DEF Typed, GoneIsDead, Agent, Admin, DeletePermissions, agentVars, history
<1>18. ASSUME NEW a \in Admins, InsertPermissions(a)  PROVE GoneIsDead'
  BY <1>18 DEF Typed, GoneIsDead, Agent, Admin, InsertPermissions, agentVars, history
<1>19. ASSUME NEW a \in Admins, revoke(a)  PROVE GoneIsDead'
  BY <1>19 DEF Typed, GoneIsDead, Agent, Admin, revoke, agentVars, history
<1>20. ASSUME NEW a \in Admins, Cascade(a)  PROVE GoneIsDead'
  BY <1>20 DEF Typed, GoneIsDead, Agent, Admin, Cascade, agentVars, history
<1>21. ASSUME NEW a \in Admins, AdminFails(a)  PROVE GoneIsDead'
  BY <1>21 DEF Typed, GoneIsDead, Agent, Admin, AdminFails, agentVars, history, Fault
<1>22. CASE UNCHANGED vars
  BY <1>22 DEF Typed, GoneIsDead, Agent, Admin, vars, agentVars, history
<1>23. ASSUME NEW c \in Calls, CallStep(c)  PROVE GoneIsDead'
  BY <1>2, <1>3, <1>4, <1>5, <1>6, <1>7, <1>8, <1>9, <1>10, <1>11, <1>12, <1>13, <1>23 DEF CallStep, Audits
<1>24. ASSUME NEW a \in Admins, AdminStep(a)  PROVE GoneIsDead'
  BY <1>15, <1>16, <1>17, <1>18, <1>19, <1>20, <1>24 DEF AdminStep
<1> QED BY <1>1, <1>14, <1>21, <1>22, <1>23, <1>24 DEF Next

LEMMA LateIsOne ==
  ASSUME LateIsDead, NEW c \in Calls, Moved(c), gone' = gone,
         call'[c].late => gone' /\ At(c, "load")' /\ ("agent" \in call'[c].unread \/ call'[c].dead)
  PROVE  LateIsDead'
<1> SUFFICES ASSUME NEW d \in Calls, call'[d].late
             PROVE  gone' /\ At(d, "load")' /\ ("agent" \in call'[d].unread \/ call'[d].dead)
  BY DEF LateIsDead
<1>1. CASE d = c BY <1>1
<1>2. CASE d # c BY <1>2 DEF Moved, LateIsDead, At
<1> QED BY <1>1, <1>2

\* A late call reads a dead agent, is refused, and forgets what it knew.
LEMMA LateKept ==
  ASSUME Typed, GoneIsDead, LateIsDead, [Next]_vars
  PROVE  LateIsDead'
<1>1. ASSUME Passes  PROVE LateIsDead'
  BY <1>1 DEF GoneIsDead, LateIsDead, At, Passes, agentVars, history
<1>2. ASSUME NEW c \in Calls, authorize(c)  PROVE LateIsDead'
  <2>1. Moved(c) /\ call'[c].pc = "load" /\ call'[c].late = gone /\ "agent" \in call'[c].unread
    BY <1>2, AuthorizeMoves
  <2>2. gone' = gone BY <1>2 DEF authorize, history, StoreStays, agentVars
  <2> QED BY <2>1, <2>2, LateIsOne DEF At
<1>3. ASSUME NEW c \in Calls, ReadAgent(c)  PROVE LateIsDead'
  <2>1. gone' = gone BY <1>3 DEF ReadAgent, history, StoreStays, agentVars
  <2>2. Moved(c) /\ call'[c].late = call[c].late BY <1>3, ReadAgentMoves DEF Becomes, Carries
  <2>3. gone => call'[c].pc = "load" /\ call'[c].dead BY <1>3, ReadAgentMoves DEF GoneIsDead, Becomes
  <2> QED BY <2>1, <2>2, <2>3, LateIsOne DEF LateIsDead, At
<1>4. ASSUME NEW c \in Calls, MarkExpired(c)  PROVE LateIsDead'
  <2>1. gone' = gone BY <1>4 DEF MarkExpired, history, agentVars
  <2>2. Moved(c) /\ ~call'[c].late BY <1>4, RefusesMoves DEF MarkExpired, IsRefused
  <2> QED BY <2>1, <2>2, LateIsOne
<1>5. ASSUME NEW c \in Calls, ReadPermissions(c)  PROVE LateIsDead'
  <2>1. gone' = gone BY <1>5 DEF ReadPermissions, history, StoreStays, agentVars
  <2>2. /\ Moved(c) /\ call'[c].late = call[c].late /\ call'[c].pc = "load" /\ call'[c].dead = call[c].dead
        /\ "agent" \in call[c].unread => "agent" \in call'[c].unread
    BY <1>5, ReadPermissionsMoves DEF Becomes, Carries
  <2> QED BY <2>1, <2>2, LateIsOne DEF LateIsDead, At
<1>6. ASSUME NEW c \in Calls, Loaded(c)  PROVE LateIsDead'
  <2>1. gone' = gone BY <1>6 DEF Loaded, history, StoreStays, agentVars
  <2>2. Moved(c) /\ (call'[c].late => call[c].late /\ ~call[c].dead /\ call[c].unread = {})
    BY <1>6, LoadedMoves DEF IsRefused, Becomes, Carries
  <2>3. ~call'[c].late BY <2>2 DEF LateIsDead
  <2> QED BY <2>1, <2>2, <2>3, LateIsOne
<1>7. ASSUME NEW c \in Calls, Match(c)  PROVE LateIsDead'
  <2>1. gone' = gone BY <1>7 DEF Match, history, agentVars
  <2>2. call[c].pc = "match" BY <1>7 DEF Match, At
  <2>3. ~call[c].late BY <2>2 DEF LateIsDead, At
  <2>4. Moved(c) /\ ~call'[c].late
    BY <1>7, <2>3, MatchMoves DEF IsDenied, IsFinal, IsRefused, Becomes, Carries, Matched
  <2> QED BY <2>1, <2>4, LateIsOne
<1>8. ASSUME NEW c \in Calls, Reserve(c)  PROVE LateIsDead'
  BY <1>8 DEF Typed, GoneIsDead, LateIsDead, At, Reserve, agentVars, history
<1>9. ASSUME NEW c \in Calls, Limited(c)  PROVE LateIsDead'
  BY <1>9, LimitedMoves DEF Moved, Carries, Becomes, IsFinal, IsDenied, Typed, GoneIsDead, LateIsDead, At, Limited,
     agentVars, history, StoreStays
<1>10. ASSUME NEW c \in Calls, Inspect(c)  PROVE LateIsDead'
  BY <1>10, InspectMoves DEF Moved, Carries, Becomes, IsFinal, IsDenied, IsAllowed, Typed, GoneIsDead, LateIsDead,
     At, Inspect, agentVars, history, StoreStays
<1>11. ASSUME NEW c \in Calls, consumeApproval(c)  PROVE LateIsDead'
  BY <1>11, ConsumeMoves DEF Moved, Carries, Becomes, IsFinal, IsDenied, IsAllowed, Typed, GoneIsDead, LateIsDead,
     At, consumeApproval, agentVars, history
<1>12. ASSUME NEW c \in Calls, Delegated(c)  PROVE LateIsDead'
  BY <1>12, DelegatedMoves DEF Moved, IsFinal, Typed, GoneIsDead, LateIsDead, At, Delegated, agentVars, history, StoreStays
<1>13. ASSUME NEW c \in Calls, Audits(c)  PROVE LateIsDead'
  BY <1>13, AuditsMoves DEF Moved, Typed, GoneIsDead, LateIsDead, At
<1>14. ASSUME NEW c \in Calls, Fails(c)  PROVE LateIsDead'
  BY <1>14, FailsMoves DEF Moved, Typed, GoneIsDead, LateIsDead, At, Fails, agentVars, history, Fault, Running
<1>15. ASSUME NEW a \in Admins, update(a)  PROVE LateIsDead'
  BY <1>15 DEF GoneIsDead, LateIsDead, At, update, agentVars, history
<1>16. ASSUME NEW a \in Admins, UpdateRow(a)  PROVE LateIsDead'
  BY <1>16 DEF GoneIsDead, LateIsDead, At, UpdateRow, agentVars, history
<1>17. ASSUME NEW a \in Admins, DeletePermissions(a)  PROVE LateIsDead'
  BY <1>17 DEF GoneIsDead, LateIsDead, At, DeletePermissions, agentVars, history
<1>18. ASSUME NEW a \in Admins, InsertPermissions(a)  PROVE LateIsDead'
  BY <1>18 DEF GoneIsDead, LateIsDead, At, InsertPermissions, agentVars, history
<1>19. ASSUME NEW a \in Admins, revoke(a)  PROVE LateIsDead'
  BY <1>19 DEF GoneIsDead, LateIsDead, At, revoke, agentVars, history
<1>20. ASSUME NEW a \in Admins, Cascade(a)  PROVE LateIsDead'
  BY <1>20 DEF GoneIsDead, LateIsDead, At, Cascade, agentVars, history
<1>21. ASSUME NEW a \in Admins, AdminFails(a)  PROVE LateIsDead'
  BY <1>21 DEF GoneIsDead, LateIsDead, At, AdminFails, agentVars, history
<1>22. CASE UNCHANGED vars
  BY <1>22 DEF GoneIsDead, LateIsDead, At, vars, agentVars, history
<1>23. ASSUME NEW c \in Calls, CallStep(c)  PROVE LateIsDead'
  BY <1>2, <1>3, <1>4, <1>5, <1>6, <1>7, <1>8, <1>9, <1>10, <1>11, <1>12, <1>13, <1>23 DEF CallStep, Audits
<1>24. ASSUME NEW a \in Admins, AdminStep(a)  PROVE LateIsDead'
  BY <1>15, <1>16, <1>17, <1>18, <1>19, <1>20, <1>24 DEF AdminStep
<1> QED BY <1>1, <1>14, <1>21, <1>22, <1>23, <1>24 DEF Next

\* A step that takes a call to no answer writes nothing.
LEMMA TrailStays ==
  ASSUME Typed, Trails, NEW c \in Calls, Moved(c), UNCHANGED <<trail, cut>>,
         ~Ended(c), call'[c].pc \notin {"allowed", "denied", "failed"},
         call'[c].pc \in {"record", "final", "refused"} => call'[c].id \in Ids
  PROVE  Trails'
<1>1. trail[c] = {} /\ trail' = trail /\ cut' = cut /\ c \notin cut
  BY DEF Trails
<1>2. \A x \in Calls : x # c => call'[x] = call[x]
  BY DEF Moved
<1>3. \A x \in cut : Ended(x)'
  BY <1>1, <1>2 DEF Trails, Ended, Typed
<1>4. \A x \in Calls : (~Ended(x) => trail[x] = {})' /\ (Writing(x) => call[x].id \in Ids)'
  BY <1>1, <1>2 DEF Trails, Ended, Writing
<1>5. TrailTellsAnswer'
  <2> SUFFICES ASSUME NEW x \in Calls
               PROVE  /\ \A row, other \in trail[x]' : row = other
                      /\ call'[x].pc \in {"allowed", "denied"} =>
                           /\ \A row \in trail'[x] : row.allowed = (call'[x].pc = "allowed") /\ call'[x].id \in {row.id, ""}
                           /\ x \notin cut' => (trail'[x] # {} <=> AuditAll)
    BY DEF TrailTellsAnswer, At
  <2>1. CASE x = c
    BY <1>1, <2>1
  <2>2. CASE x # c
    <3>1. /\ \A r1, r2 \in trail[x] : r1 = r2
          /\ call[x].pc \in {"allowed", "denied"} =>
               /\ \A r1 \in trail[x] : r1.allowed = (call[x].pc = "allowed") /\ call[x].id \in {r1.id, ""}
               /\ x \notin cut => (trail[x] # {} <=> AuditAll)
      BY DEF Trails, TrailTellsAnswer, At
    <3>2. call'[x] = call[x] /\ trail'[x] = trail[x] /\ (x \notin cut' => x \notin cut)
      BY <1>1, <1>2, <2>2
    <3> QED BY <3>1, <3>2
  <2> QED BY <2>1, <2>2
<1> QED BY <1>1, <1>3, <1>4, <1>5 DEF Trails

\* Each writer adds the one row of its call, with the id and the verdict that the
\* caller is told, or fails and counts as cut short.
LEMMA RowWritten ==
  ASSUME Typed, Trails, NEW c \in Calls, Writing(c), NEW allowed \in BOOLEAN,
         Moved(c), Ended(c)', call'[c].pc # "failed" => (call'[c].pc = "allowed" <=> allowed),
         call'[c].pc # "failed" => call'[c].id \in {call[c].id, ""},
         \/ trail' = Logged(c, allowed, call[c].id) /\ cut' = cut /\ call'[c].pc # "failed"
         \/ trail' \in {trail, Logged(c, allowed, call[c].id)} /\ cut' = cut \cup {c}
  PROVE  Trails'
<1> DEFINE row == [id |-> call[c].id, allowed |-> allowed]
<1>1. row \in Row /\ row.id = call[c].id /\ row.allowed = allowed
  BY DEF Row, Trails
<1>2. trail[c] = {} /\ trail \in [Calls -> SUBSET Row] /\ cut \subseteq Calls
  BY DEF Trails, Ended, Writing, Typed
<1>3. Logged(c, allowed, call[c].id) = IF AuditAll THEN [trail EXCEPT ![c] = {row}] ELSE trail
  BY <1>2 DEF Logged
<1> HIDE DEF row
<1>4. /\ trail' \in [Calls -> SUBSET Row]
      /\ \A x \in Calls : x # c => trail'[x] = trail[x] /\ call'[x] = call[x]
      /\ trail'[c] \subseteq {row}
      /\ c \notin cut' => (trail'[c] # {} <=> AuditAll)
  <2>1. \A x \in Calls : x # c => call'[x] = call[x]
    BY DEF Moved
  <2>2. CASE trail' = trail
    BY <1>2, <1>3, <2>1, <2>2, ConfigAssumption
  <2>3. CASE trail' = [trail EXCEPT ![c] = {row}] /\ AuditAll
    BY <1>1, <1>2, <2>1, <2>3
  <2> QED BY <1>3, <2>2, <2>3
<1>5. \A x \in cut' : Ended(x)'
  <2>1. cut' \subseteq cut \cup {c}
    OBVIOUS
  <2>2. \A x \in cut \ {c} : call'[x].pc \in {"allowed", "denied", "failed"}
    BY <1>2, <1>4 DEF Trails, Ended
  <2>3. call'[c].pc \in {"allowed", "denied", "failed"}
    BY DEF Ended
  <2> QED BY <2>1, <2>2, <2>3 DEF Ended
<1>6. \A x \in Calls : (~Ended(x) => trail[x] = {})' /\ (Writing(x) => call[x].id \in Ids)'
  BY <1>4 DEF Trails, Ended, Writing
<1>7. ASSUME NEW x \in Calls
      PROVE  /\ \A r1, r2 \in trail'[x] : r1 = r2
             /\ call'[x].pc \in {"allowed", "denied"} =>
                  /\ \A r1 \in trail'[x] : r1.allowed = (call'[x].pc = "allowed") /\ call'[x].id \in {r1.id, ""}
                  /\ x \notin cut' => (trail'[x] # {} <=> AuditAll)
  <2>1. CASE x = c
    BY <1>1, <1>4, <2>1
  <2>2. CASE x # c
    <3>1. /\ \A r1, r2 \in trail[x] : r1 = r2
          /\ call[x].pc \in {"allowed", "denied"} =>
               /\ \A r1 \in trail[x] : r1.allowed = (call[x].pc = "allowed") /\ call[x].id \in {r1.id, ""}
               /\ x \notin cut => (trail[x] # {} <=> AuditAll)
      BY DEF Trails, TrailTellsAnswer, At
    <3>2. call'[x] = call[x] /\ trail'[x] = trail[x] /\ (x \notin cut' => x \notin cut)
      BY <1>4, <2>2
    <3> QED BY <3>1, <3>2
  <2> QED BY <2>1, <2>2
<1>8. TrailTellsAnswer'
  BY <1>7 DEF TrailTellsAnswer, At
<1> QED BY <1>4, <1>5, <1>6, <1>8 DEF Trails

\* So the trail is as it should be after any step of a call,
LEMMA TrailsKeptByCall ==
  ASSUME Typed, Trails, NEW c \in Calls, CallStep(c) \/ Fails(c)
  PROVE  Trails'
<1>1. CASE authorize(c)
  <2>1. call[c].pc = "idle" /\ UNCHANGED <<trail, cut>>
    BY <1>1 DEF authorize, At, StoreStays, history
  <2> QED BY <1>1, <2>1, AuthorizeMoves, TrailStays DEF Ended
<1>2. CASE ReadAgent(c)
  <2>1. call[c].pc = "load" /\ UNCHANGED <<trail, cut>>
    BY <1>2 DEF ReadAgent, At, StoreStays, history
  <2>2. Moved(c) /\ call'[c].pc \in {"load", "mark"}
    BY <1>2, ReadAgentMoves DEF Becomes, Carries
  <2> QED BY <2>1, <2>2, TrailStays DEF Ended
<1>3. CASE MarkExpired(c)
  <2>1. call[c].pc = "mark" /\ UNCHANGED <<trail, cut>> /\ Refuses(c)
    BY <1>3 DEF MarkExpired, At, history
  <2> QED BY <2>1, RefusesMoves, TrailStays DEF Ended, IsRefused
<1>4. CASE ReadPermissions(c)
  <2>1. call[c].pc = "load" /\ UNCHANGED <<trail, cut>>
    BY <1>4 DEF ReadPermissions, At, StoreStays, history
  <2>2. Moved(c) /\ call'[c].pc = "load"
    BY <1>4, ReadPermissionsMoves DEF Becomes, Carries
  <2> QED BY <2>1, <2>2, TrailStays DEF Ended
<1>5. CASE Loaded(c)
  <2>1. call[c].pc = "load" /\ UNCHANGED <<trail, cut>>
    BY <1>5 DEF Loaded, At, StoreStays, history
  <2>2. Moved(c) /\ (call'[c].pc = "match" \/ (call'[c].pc = "refused" /\ call'[c].id \in Ids))
    BY <1>5, LoadedMoves DEF Becomes, Carries, IsRefused
  <2> QED BY <2>1, <2>2, TrailStays DEF Ended
<1>6. CASE Match(c)
  <2>1. call[c].pc = "match" /\ UNCHANGED cut
    BY <1>6 DEF Match, At, history
  <2>2. /\ Moved(c) /\ UNCHANGED trail
        /\ \/ call'[c].pc \in {"inspect", "limit", "delegated"}
           \/ call'[c].pc = "final" /\ call'[c].id \in Ids
    BY <1>6, MatchMoves DEF Becomes, Carries, IsDenied, IsFinal, Matched
  <2> QED BY <2>1, <2>2, TrailStays DEF Ended
<1>7. CASE Reserve(c)
  BY <1>7 DEF Reserve, history, Trails, TrailTellsAnswer, Ended, Writing, At
<1>8. CASE Limited(c)
  <2>1. call[c].pc = "limit" /\ UNCHANGED cut
    BY <1>8 DEF Limited, At, history
  <2>2. /\ Moved(c) /\ UNCHANGED trail
        /\ \/ call'[c].pc \in {"inspect", "delegated"}
           \/ call'[c].pc = "final" /\ call'[c].id \in Ids
    BY <1>8, LimitedMoves DEF Becomes, Carries, IsDenied, IsFinal
  <2> QED BY <2>1, <2>2, TrailStays DEF Ended
<1>9. CASE Inspect(c)
  <2>1. call[c].pc = "inspect" /\ UNCHANGED cut
    BY <1>9 DEF Inspect, At, history
  <2>2. /\ Moved(c) /\ UNCHANGED trail
        /\ \/ call'[c].pc \in {"spend", "delegated"}
           \/ call'[c].pc \in {"record", "final"} /\ call'[c].id \in Ids
    BY <1>9, InspectMoves DEF Becomes, Carries, IsDenied, IsFinal, IsAllowed
  <2> QED BY <2>1, <2>2, TrailStays DEF Ended
<1>10. CASE consumeApproval(c)
  <2>1. call[c].pc = "spend" /\ UNCHANGED cut
    BY <1>10 DEF consumeApproval, At
  <2>2. /\ Moved(c) /\ UNCHANGED trail
        /\ \/ call'[c].pc = "delegated"
           \/ call'[c].pc \in {"record", "final"} /\ call'[c].id \in Ids
    BY <1>10, ConsumeMoves DEF Becomes, Carries, IsDenied, IsFinal, IsAllowed
  <2> QED BY <2>1, <2>2, TrailStays DEF Ended
<1>11. CASE Delegated(c)
  <2>1. call[c].pc = "delegated" /\ UNCHANGED <<trail, cut>>
    BY <1>11 DEF Delegated, At, StoreStays, history
  <2>2. Moved(c) /\ (call'[c].pc = "match" \/ (call'[c].pc = "final" /\ call'[c].id \in Ids))
    BY <1>11, DelegatedMoves DEF IsFinal
  <2> QED BY <2>1, <2>2, TrailStays DEF Ended
<1>12. CASE RecordAllowed(c)
  <2>1. Writing(c) /\ (Written(c, TRUE) \/ Unsure(c, TRUE))
    BY <1>12 DEF RecordAllowed, At, Writing
  <2>2. Moved(c) /\ call'[c].pc = "allowed" /\ call'[c].id = call[c].id
    BY <1>12, RecordMoves
  <2>3. Ended(c)'
    BY <2>2 DEF Ended
  <2> QED BY <2>1, <2>2, <2>3, RowWritten DEF Written, Unsure
<1>13. CASE auditDenial(c) \/ recordDenial(c)
  <2>1. Writing(c) /\ (Written(c, FALSE) \/ Unsure(c, FALSE))
    BY <1>13 DEF auditDenial, recordDenial, At, Writing
  <2>2. Moved(c) /\ call'[c].pc = "denied" /\ call'[c].id \in {call[c].id, ""}
    BY <1>13, DenialMoves
  <2>3. Ended(c)'
    BY <2>2 DEF Ended
  <2> QED BY <2>1, <2>2, <2>3, RowWritten DEF Written, Unsure
<1>14. CASE Fails(c)
  <2>1. Moved(c) /\ call'[c].pc = "failed" /\ cut' = cut \cup {c}
    BY <1>14, FailsMoves DEF Fails
  <2>2. Ended(c)'
    BY <2>1 DEF Ended
  <2>3. CASE UNCHANGED trail
    <3>1. \A x \in Calls : x # c => call'[x] = call[x]
      BY <2>1 DEF Moved
    <3>2. ~Ended(c) /\ trail[c] = {}
      BY <1>14 DEF Fails, Running, Ended, Trails
    <3>3. \A x \in cut' : Ended(x)'
      BY <2>1, <2>2, <3>1 DEF Trails, Ended, Typed
    <3>4. \A x \in Calls : (~Ended(x) => trail[x] = {})' /\ (Writing(x) => call[x].id \in Ids)'
      BY <2>1, <2>2, <2>3, <3>1 DEF Trails, Ended, Writing
    <3>5. TrailTellsAnswer'
      BY <2>1, <2>3, <3>1, <3>2 DEF Trails, TrailTellsAnswer, At
    <3> QED BY <2>3, <3>3, <3>4, <3>5 DEF Trails
  <2>4. CASE At(c, "record") /\ trail' = Logged(c, TRUE, call[c].id)
    BY <2>1, <2>2, <2>4, RowWritten DEF At, Writing
  <2>5. CASE (At(c, "final") \/ At(c, "refused")) /\ trail' = Logged(c, FALSE, call[c].id)
    BY <2>1, <2>2, <2>5, RowWritten DEF At, Writing
  <2> QED BY <1>14, <2>3, <2>4, <2>5 DEF Fails
<1> QED BY <1>1, <1>2, <1>3, <1>4, <1>5, <1>6, <1>7, <1>8, <1>9, <1>10, <1>11, <1>12, <1>13, <1>14 DEF CallStep

\* and no other step touches it.
LEMMA TrailsKept ==
  ASSUME Typed, Trails, [Next]_vars
  PROVE  Trails'
<1>1. ASSUME NEW c \in Calls, CallStep(c) \/ Fails(c)  PROVE Trails'
  BY <1>1, TrailsKeptByCall
<1>2. ASSUME UNCHANGED <<call, trail, cut>>  PROVE Trails'
  BY <1>2 DEF Trails, TrailTellsAnswer, Ended, Writing, At
<1>3. CASE Passes \/ UNCHANGED vars
  BY <1>2, <1>3 DEF Passes, vars, history
<1>4. ASSUME NEW a \in Admins, AdminStep(a) \/ AdminFails(a)  PROVE UNCHANGED <<call, trail, cut>>
  BY <1>4 DEF AdminStep, AdminFails, update, UpdateRow, DeletePermissions, InsertPermissions, revoke, Cascade, history
<1> QED BY <1>1, <1>2, <1>3, <1>4 DEF Next

\* A call that has spent the approval stays where it is allowed, or is cut short.
LEMMA SpentStays ==
  ASSUME Typed, Spent, NEW c \in Calls, Moved(c), UNCHANGED <<approval, spentBy>>,
         cut' = cut \/ cut' = cut \cup {c},
         \/ call[c].pc \notin {"allowed", "record"}
         \/ call'[c].pc \in {"allowed", "record"} \/ c \in cut'
  PROVE  Spent'
<1>1. \A x \in Calls : x # c => call'[x] = call[x]
  BY DEF Moved
<1>2. ASSUME NEW x \in spentBy \ cut'  PROVE call'[x].pc \in {"allowed", "record"}
  <2>1. x \in Calls /\ x \notin cut
    BY DEF Typed
  <2>2. call[x].pc \in {"allowed", "record"}
    BY <2>1 DEF Spent, SpentIsAllowed, At
  <2> QED BY <1>1, <2>1, <2>2
<1> QED BY <1>2 DEF Spent, SpentIsAllowed, At

\* Only the statement that finds the approval unspent spends it, and its call goes
\* on to be allowed.
LEMMA SpentKept ==
  ASSUME Typed, Spent, [Next]_vars
  PROVE  Spent'
<1>1. ASSUME NEW c \in Calls, authorize(c) \/ ReadAgent(c) \/ ReadPermissions(c) \/ Loaded(c)  PROVE Spent'
  <2>1. call[c].pc \in {"idle", "load"} /\ UNCHANGED <<approval, spentBy, cut>>
    BY <1>1 DEF authorize, ReadAgent, ReadPermissions, Loaded, At, StoreStays, agentVars, history
  <2>2. Moved(c)
    BY <1>1, AuthorizeMoves, ReadAgentMoves, ReadPermissionsMoves, LoadedMoves DEF Becomes, Carries, IsRefused
  <2> QED BY <2>1, <2>2, SpentStays
<1>2. ASSUME NEW c \in Calls, MarkExpired(c)  PROVE Spent'
  <2>1. call[c].pc = "mark" /\ UNCHANGED <<approval, spentBy, cut>> /\ Refuses(c)
    BY <1>2 DEF MarkExpired, At, history
  <2> QED BY <2>1, RefusesMoves, SpentStays DEF IsRefused
<1>3. ASSUME NEW c \in Calls, Match(c) \/ Limited(c) \/ Inspect(c)  PROVE Spent'
  <2>1. call[c].pc \in {"match", "limit", "inspect"} /\ UNCHANGED <<approval, spentBy, cut>>
    BY <1>3 DEF Match, Limited, Inspect, At, agentVars, history
  <2>2. Moved(c)
    BY <1>3, MatchMoves, LimitedMoves, InspectMoves DEF IsDenied, IsFinal, IsAllowed, Becomes, Carries, Matched
  <2> QED BY <2>1, <2>2, SpentStays
<1>4. ASSUME NEW c \in Calls, Reserve(c)  PROVE Spent'
  BY <1>4 DEF Reserve, Spent, SpentIsAllowed, At, agentVars, history
<1>5. ASSUME NEW c \in Calls, consumeApproval(c)  PROVE Spent'
  <2>1. call[c].pc = "spend" /\ UNCHANGED cut
    BY <1>5 DEF consumeApproval, At
  <2>2. CASE approval = "approved" /\ approval' = "spent" /\ spentBy' = spentBy \cup {c} /\ IsAllowed(c)
    <3>1. spentBy' = {c} /\ call'[c].pc = "record"
      BY <2>2 DEF Spent, IsAllowed
    <3> QED BY <2>2, <3>1 DEF Spent, SpentIsAllowed, At
  <2>3. CASE IsDenied(c) /\ UNCHANGED <<approval, spentBy>>
    <3>1. Moved(c)
      BY <2>3 DEF IsDenied, IsFinal, Becomes, Carries
    <3> QED BY <2>1, <2>3, <3>1, SpentStays
  <2> QED BY <1>5, <2>2, <2>3, ConsumeMoves
<1>6. ASSUME NEW c \in Calls, Delegated(c)  PROVE Spent'
  <2>1. call[c].pc = "delegated" /\ UNCHANGED <<approval, spentBy, cut>>
    BY <1>6 DEF Delegated, At, StoreStays, agentVars, history
  <2>2. Moved(c)
    BY <1>6, DelegatedMoves DEF IsFinal
  <2> QED BY <2>1, <2>2, SpentStays
<1>7. ASSUME NEW c \in Calls, Audits(c)  PROVE Spent'
  BY <1>7, AuditsMoves, SpentStays
<1>8. ASSUME NEW c \in Calls, Fails(c)  PROVE Spent'
  <2>1. UNCHANGED <<approval, spentBy>> /\ cut' = cut \cup {c}
    BY <1>8 DEF Fails, agentVars
  <2> QED BY <1>8, <2>1, FailsMoves, SpentStays
<1>9. ASSUME NEW c \in Calls, CallStep(c)  PROVE Spent'
  BY <1>1, <1>2, <1>3, <1>4, <1>5, <1>6, <1>7, <1>9 DEF CallStep, Audits
<1>10. ASSUME NEW a \in Admins, AdminStep(a) \/ AdminFails(a)  PROVE UNCHANGED <<approval, spentBy, cut, call>>
  BY <1>10 DEF AdminStep, AdminFails, update, UpdateRow, DeletePermissions, InsertPermissions, revoke, Cascade,
               agentVars, history
<1>11. CASE Passes \/ UNCHANGED vars
  BY <1>11 DEF Passes, vars, agentVars, history, Spent, SpentIsAllowed, At
<1>12. ASSUME UNCHANGED <<approval, spentBy, cut, call>>  PROVE Spent'
  BY <1>12 DEF Spent, SpentIsAllowed, At
<1> QED BY <1>8, <1>9, <1>10, <1>11, <1>12 DEF Next

\* Only a delete that finds another update between its delete and its insert can
\* mix their permissions.
LEMMA ReplacedKept ==
  ASSUME Typed, Replaced, [Next]_vars
  PROVE  Replaced'
<1>1. ASSUME Passes  PROVE Replaced'
  BY <1>1 DEF Typed, Replaced, Admin, Passes, agentVars, history
<1>2. ASSUME NEW c \in Calls, authorize(c)  PROVE Replaced'
  BY <1>2, AuthorizeMoves DEF Replaced, authorize, agentVars, history, StoreStays
<1>3. ASSUME NEW c \in Calls, ReadAgent(c)  PROVE Replaced'
  BY <1>3, ReadAgentMoves DEF Replaced, ReadAgent, agentVars, history, StoreStays
<1>4. ASSUME NEW c \in Calls, MarkExpired(c)  PROVE Replaced'
  BY <1>4, RefusesMoves DEF Replaced, MarkExpired, agentVars, history
<1>5. ASSUME NEW c \in Calls, ReadPermissions(c)  PROVE Replaced'
  BY <1>5, ReadPermissionsMoves DEF Replaced, ReadPermissions, agentVars, history, StoreStays
<1>6. ASSUME NEW c \in Calls, Loaded(c)  PROVE Replaced'
  BY <1>6, LoadedMoves DEF Replaced, Loaded, agentVars, history, StoreStays
<1>7. ASSUME NEW c \in Calls, Match(c)  PROVE Replaced'
  BY <1>7, MatchMoves DEF Replaced, Match, agentVars, history
<1>8. ASSUME NEW c \in Calls, Reserve(c)  PROVE Replaced'
  BY <1>8 DEF Replaced, Reserve, agentVars, history
<1>9. ASSUME NEW c \in Calls, Limited(c)  PROVE Replaced'
  BY <1>9, LimitedMoves DEF Replaced, Limited, agentVars, history, StoreStays
<1>10. ASSUME NEW c \in Calls, Inspect(c)  PROVE Replaced'
  BY <1>10, InspectMoves DEF Replaced, Inspect, agentVars, history, StoreStays
<1>11. ASSUME NEW c \in Calls, consumeApproval(c)  PROVE Replaced'
  BY <1>11, ConsumeMoves DEF Replaced, consumeApproval, agentVars, history
<1>12. ASSUME NEW c \in Calls, Delegated(c)  PROVE Replaced'
  BY <1>12, DelegatedMoves DEF Replaced, Delegated, agentVars, history, StoreStays
<1>13. ASSUME NEW c \in Calls, Audits(c)  PROVE Replaced'
  BY <1>13, AuditsMoves DEF Replaced
<1>14. ASSUME NEW c \in Calls, Fails(c)  PROVE Replaced'
  BY <1>14, FailsMoves DEF Replaced, Fails, agentVars, history, Fault, Running
<1>15. ASSUME NEW a \in Admins, update(a)  PROVE Replaced'
  BY <1>15 DEF Typed, Replaced, Admin, update, agentVars, history
<1>16. ASSUME NEW a \in Admins, UpdateRow(a)  PROVE Replaced'
  BY <1>16 DEF Typed, Replaced, Admin, UpdateRow, agentVars, history
<1>17. ASSUME NEW a \in Admins, DeletePermissions(a)  PROVE Replaced'
  BY <1>17 DEF Typed, Replaced, Admin, DeletePermissions, agentVars, history, Kept
<1>18. ASSUME NEW a \in Admins, InsertPermissions(a)  PROVE Replaced'
  BY <1>18 DEF Typed, Replaced, Admin, InsertPermissions, agentVars, history
<1>19. ASSUME NEW a \in Admins, revoke(a)  PROVE Replaced'
  BY <1>19 DEF Typed, Replaced, Admin, revoke, agentVars, history
<1>20. ASSUME NEW a \in Admins, Cascade(a)  PROVE Replaced'
  BY <1>20 DEF Typed, Replaced, Admin, Cascade, agentVars, history
<1>21. ASSUME NEW a \in Admins, AdminFails(a)  PROVE Replaced'
  BY <1>21 DEF Typed, Replaced, Admin, AdminFails, agentVars, history, Fault
<1>22. CASE UNCHANGED vars
  BY <1>22 DEF Typed, Replaced, Admin, vars, agentVars, history
<1>23. ASSUME NEW c \in Calls, CallStep(c)  PROVE Replaced'
  BY <1>2, <1>3, <1>4, <1>5, <1>6, <1>7, <1>8, <1>9, <1>10, <1>11, <1>12, <1>13, <1>23 DEF CallStep, Audits
<1>24. ASSUME NEW a \in Admins, AdminStep(a)  PROVE Replaced'
  BY <1>15, <1>16, <1>17, <1>18, <1>19, <1>20, <1>24 DEF AdminStep
<1> QED BY <1>1, <1>14, <1>21, <1>22, <1>23, <1>24 DEF Next

--------------------------------------------------------------------------------
(* A limit is applied to every call it is set for. *)

\* The reservations of the other calls and paths are left alone.
RatesStay(c) == \A x \in Reservations \ {Attempt(c)} : res'[x] = res[x]

\* A reservation keeps the limit it was started with.
LEMMA ReserveKeepsLimit ==
  ASSUME RateTypeOK, NEW r \in Reservations, ReserveStep(r)
  PROVE  /\ res'[r].max = res[r].max
         /\ \A x \in Reservations \ {r} : res'[x] = res[x]
<1>1. ASSUME NEW from, NEW to \in {"insert", "rebump", "sum", "undo", "admitted", "denied", "failed"}, Goes(r, from, to)
      PROVE  /\ res'[r].max = res[r].max
             /\ \A x \in Reservations \ {r} : res'[x] = res[x]
  <2>1. res'[r].max = res[r].max
    BY <1>1, GoesIsTyped
  <2>2. \A x \in Reservations \ {r} : res'[x] = res[x]
    BY <1>1 DEF Goes, RateTypeOK
  <2> QED BY <2>1, <2>2
<1>2. \E from, to \in {"bump", "insert", "rebump", "sum", "undo", "admitted", "denied", "failed"} :
        Goes(r, from, to) /\ to # "bump"
  BY DEF ReserveStep, Bump, Insert, Rebump, Sum, Undo
<1> QED BY <1>1, <1>2

\* Two calls never share a reservation.
LEMMA OthersCounted ==
  ASSUME Typed, Counted, NEW c \in Calls, Moved(c), RatesStay(c), CountedCall(c)'
  PROVE  Counted'
<1> SUFFICES ASSUME NEW x \in Calls, x # c  PROVE CountedCall(x)'
  BY DEF Counted
<1>1. call'[x] = call[x]
  BY DEF Moved
<1>2. Attempt(x)' = Attempt(x) /\ Attempt(x) \in Reservations /\ Attempt(x) # Attempt(c)
  BY <1>1, AttemptsReserve DEF Attempt
<1>3. res'[Attempt(x)] = res[Attempt(x)]
  BY <1>2 DEF RatesStay
<1>4. CountedCall(x)
  BY DEF Counted
<1> HIDE DEF Attempt
<1> QED BY <1>1, <1>2, <1>3, <1>4 DEF CountedCall, Covered, At

LEMMA CallCounted ==
  ASSUME Typed, RateTypeOK, Counted, NEW c \in Calls, CallStep(c) \/ Fails(c)
  PROVE  CountedCall(c)' /\ RatesStay(c)
<1>1. ASSUME authorize(c)  PROVE CountedCall(c)' /\ RatesStay(c)
  <2>1. UNCHANGED res
    BY <1>1 DEF authorize, StoreStays, rateVars
  <2>2. CountedCall(c)
    BY DEF Counted
  <2>3. CountedCall(c)'
    BY <1>1, <2>1, <2>2, AuthorizeMoves DEF CountedCall, Covered, Attempt, At, IsDenied, IsFinal, IsRefused, IsAllowed,
       Becomes, Carries, authorize
  <2> QED BY <2>1, <2>3 DEF RatesStay
<1>2. ASSUME ReadAgent(c)  PROVE CountedCall(c)' /\ RatesStay(c)
  <2>1. UNCHANGED res
    BY <1>2 DEF ReadAgent, StoreStays, rateVars
  <2>2. CountedCall(c)
    BY DEF Counted
  <2>3. CountedCall(c)'
    BY <1>2, <2>1, <2>2, ReadAgentMoves DEF CountedCall, Covered, Attempt, At, IsDenied, IsFinal, IsRefused, IsAllowed,
       Becomes, Carries, ReadAgent
  <2> QED BY <2>1, <2>3 DEF RatesStay
<1>3. ASSUME MarkExpired(c)  PROVE CountedCall(c)' /\ RatesStay(c)
  <2>1. UNCHANGED res
    BY <1>3 DEF MarkExpired, StoreStays, rateVars
  <2>2. CountedCall(c)
    BY DEF Counted
  <2>3. CountedCall(c)'
    BY <1>3, <2>1, <2>2, RefusesMoves DEF CountedCall, Covered, Attempt, At, IsDenied, IsFinal, IsRefused, IsAllowed, Becomes,
       Carries, MarkExpired
  <2> QED BY <2>1, <2>3 DEF RatesStay
<1>4. ASSUME ReadPermissions(c)  PROVE CountedCall(c)' /\ RatesStay(c)
  <2>1. UNCHANGED res
    BY <1>4 DEF ReadPermissions, StoreStays, rateVars
  <2>2. CountedCall(c)
    BY DEF Counted
  <2>3. CountedCall(c)'
    BY <1>4, <2>1, <2>2, ReadPermissionsMoves DEF CountedCall, Covered, Attempt, At, IsDenied, IsFinal, IsRefused, IsAllowed,
       Becomes, Carries, ReadPermissions
  <2> QED BY <2>1, <2>3 DEF RatesStay
<1>5. ASSUME Loaded(c)  PROVE CountedCall(c)' /\ RatesStay(c)
  <2>1. UNCHANGED res
    BY <1>5 DEF Loaded, StoreStays, rateVars
  <2>2. CountedCall(c)
    BY DEF Counted
  <2>3. CountedCall(c)'
    BY <1>5, <2>1, <2>2, LoadedMoves DEF CountedCall, Covered, Attempt, At, IsDenied, IsFinal, IsRefused, IsAllowed, Becomes,
       Carries, Loaded
  <2> QED BY <2>1, <2>3 DEF RatesStay
<1>6. ASSUME Limited(c)  PROVE CountedCall(c)' /\ RatesStay(c)
  <2>1. UNCHANGED res
    BY <1>6 DEF Limited, StoreStays, rateVars
  <2>2. CountedCall(c)
    BY DEF Counted
  <2>3. CountedCall(c)'
    BY <1>6, <2>1, <2>2, LimitedMoves DEF CountedCall, Covered, Attempt, At, IsDenied, IsFinal, IsRefused, IsAllowed, Becomes,
       Carries, Limited
  <2> QED BY <2>1, <2>3 DEF RatesStay
<1>7. ASSUME Inspect(c)  PROVE CountedCall(c)' /\ RatesStay(c)
  <2>1. UNCHANGED res
    BY <1>7 DEF Inspect, StoreStays, rateVars
  <2>2. CountedCall(c)
    BY DEF Counted
  <2>3. CountedCall(c)'
    BY <1>7, <2>1, <2>2, InspectMoves DEF CountedCall, Covered, Attempt, At, IsDenied, IsFinal, IsRefused, IsAllowed, Becomes,
       Carries, Inspect
  <2> QED BY <2>1, <2>3 DEF RatesStay
<1>8. ASSUME consumeApproval(c)  PROVE CountedCall(c)' /\ RatesStay(c)
  <2>1. UNCHANGED res
    BY <1>8 DEF consumeApproval, StoreStays, rateVars
  <2>2. CountedCall(c)
    BY DEF Counted
  <2>3. CountedCall(c)'
    BY <1>8, <2>1, <2>2, ConsumeMoves DEF CountedCall, Covered, Attempt, At, IsDenied, IsFinal, IsRefused, IsAllowed, Becomes,
       Carries, consumeApproval
  <2> QED BY <2>1, <2>3 DEF RatesStay
<1>9. ASSUME Delegated(c)  PROVE CountedCall(c)' /\ RatesStay(c)
  <2>1. UNCHANGED res
    BY <1>9 DEF Delegated, StoreStays, rateVars
  <2>2. CountedCall(c)
    BY DEF Counted
  <2>3. CountedCall(c)'
    BY <1>9, <2>1, <2>2, DelegatedMoves DEF CountedCall, Covered, Attempt, At, IsDenied, IsFinal, IsRefused, IsAllowed,
       Becomes, Carries, Delegated
  <2> QED BY <2>1, <2>3 DEF RatesStay
<1>10. ASSUME Audits(c)  PROVE CountedCall(c)' /\ RatesStay(c)
  <2>1. UNCHANGED res
    BY <1>10, AuditsMoves DEF rateVars
  <2>2. CountedCall(c)
    BY DEF Counted
  <2>3. CountedCall(c)'
    <3>1. CASE call'[c].pc = "denied" /\ ~call'[c].allows
      BY <3>1 DEF CountedCall, At
    <3>2. CASE /\ call[c].pc = "record" /\ call'[c].pc = "allowed" /\ call'[c].allows
               /\ call'[c].path = call[c].path /\ call'[c].grant = call[c].grant
      BY <2>1, <2>2, <3>2 DEF CountedCall, Covered, Attempt, At
    <3> QED BY <1>10, <3>1, <3>2, AuditsMoves
  <2> QED BY <2>1, <2>3 DEF RatesStay
<1>11. ASSUME Match(c)  PROVE CountedCall(c)' /\ RatesStay(c)
  <2>1. CountedCall(c) /\ At(c, "match")
    BY <1>11 DEF Counted, Match
  <2>2. CASE IsDenied(c) /\ UNCHANGED rateVars
    BY <2>1, <2>2 DEF CountedCall, Covered, Attempt, At, IsDenied, IsFinal, IsRefused, Becomes, Carries, RatesStay, rateVars
  <2>3. ASSUME NEW g \in Grants, Matched(c, g), LimitOf[g] = None  PROVE CountedCall(c)' /\ RatesStay(c)
    BY <2>1, <2>3 DEF CountedCall, Covered, Attempt, At, Matched, Carries, RatesStay, rateVars
  <2>4. ASSUME NEW g \in Grants, Matched(c, g), LimitOf[g] # None  PROVE CountedCall(c)' /\ RatesStay(c)
    <3>1. Attempt(c)' = Attempt(c) /\ Attempt(c) \in Reservations
      BY <2>4, AttemptsReserve DEF Matched, Carries, Attempt
    <3>2. res' = [res EXCEPT ![Attempt(c)] = [pc |-> "bump", now |-> clock, max |-> LimitOf[g]]]
      BY <2>4 DEF Matched, checkRateLimit
    <3>3. RatesStay(c) /\ res'[Attempt(c)].max = LimitOf[g]
      BY <3>1, <3>2 DEF RateTypeOK, RatesStay
    <3>4. call'[c].pc = "limit" /\ ~call'[c].allows /\ call'[c].grant = g
      BY <2>1, <2>4 DEF Matched, Carries, CountedCall, At
    <3> HIDE DEF Attempt
    <3> QED BY <3>1, <3>3, <3>4 DEF CountedCall, Covered, At
  <2> QED BY <1>11, <2>2, <2>3, <2>4, MatchMoves
<1>12. ASSUME Reserve(c)  PROVE CountedCall(c)' /\ RatesStay(c)
  <2>1. CountedCall(c) /\ At(c, "limit") /\ UNCHANGED call /\ ReserveStep(Attempt(c))
    BY <1>12 DEF Counted, Reserve
  <2>2. RatesStay(c) /\ res'[Attempt(c)].max = res[Attempt(c)].max
    BY <2>1, AttemptsReserve, ReserveKeepsLimit DEF RatesStay
  <2> QED BY <2>1, <2>2 DEF CountedCall, Covered, Attempt, At
<1>13. ASSUME Fails(c)  PROVE CountedCall(c)' /\ RatesStay(c)
  <2>1. CountedCall(c)'
    BY <1>13, FailsMoves DEF CountedCall, Covered, Attempt, At
  <2>2. RatesStay(c)
    BY <1>13, AttemptsReserve DEF Fails, ReserveFails, RatesStay, RateTypeOK, rateVars
  <2> QED BY <2>1, <2>2
<1> QED BY <1>1, <1>2, <1>3, <1>4, <1>5, <1>6, <1>7, <1>8, <1>9, <1>10, <1>11, <1>12, <1>13 DEF CallStep, Audits

LEMMA CallStepsMove ==
  ASSUME Typed, NEW c \in Calls, CallStep(c) \/ Fails(c)
  PROVE  Moved(c)
<1>1. CASE Reserve(c)
  BY <1>1 DEF Reserve, Moved, Typed
<1>2. CASE authorize(c) \/ ReadAgent(c) \/ ReadPermissions(c) \/ Loaded(c)
  BY <1>2, AuthorizeMoves, ReadAgentMoves, ReadPermissionsMoves, LoadedMoves DEF IsRefused, Becomes, Carries
<1>3. CASE MarkExpired(c)
  BY <1>3, RefusesMoves DEF MarkExpired, IsRefused
<1>4. CASE Match(c) \/ Limited(c) \/ Inspect(c)
  BY <1>4, MatchMoves, LimitedMoves, InspectMoves DEF IsDenied, IsFinal, IsRefused, IsAllowed, Becomes, Carries, Matched
<1>5. CASE consumeApproval(c) \/ Delegated(c)
  BY <1>5, ConsumeMoves, DelegatedMoves DEF IsDenied, IsFinal, IsRefused, IsAllowed, Becomes, Carries
<1>6. CASE Audits(c) \/ Fails(c)
  BY <1>6, AuditsMoves, FailsMoves
<1> QED BY <1>1, <1>2, <1>3, <1>4, <1>5, <1>6 DEF CallStep, Audits

LEMMA CountedKept ==
  ASSUME Typed, RateTypeOK, Counted, [Next]_vars
  PROVE  Counted'
<1>1. ASSUME NEW c \in Calls, CallStep(c) \/ Fails(c)  PROVE Counted'
  BY <1>1, CallCounted, CallStepsMove, OthersCounted
<1>2. ASSUME UNCHANGED <<call, res>>  PROVE Counted'
  BY <1>2 DEF Counted, CountedCall, Covered, Attempt, At
<1>3. CASE Passes \/ UNCHANGED vars
  BY <1>2, <1>3 DEF Passes, Tick, vars, rateVars
<1>4. ASSUME NEW a \in Admins, AdminStep(a) \/ AdminFails(a)  PROVE UNCHANGED <<call, res>>
  BY <1>4 DEF AdminStep, AdminFails, update, UpdateRow, DeletePermissions, InsertPermissions, revoke, Cascade, rateVars
<1> QED BY <1>1, <1>2, <1>3, <1>4 DEF Next

--------------------------------------------------------------------------------
Inv == RateInv /\ Typed /\ GoneIsDead /\ LateIsDead /\ Trails /\ Spent /\ Counted /\ Replaced

LEMMA InitHolds == Init => Inv
<1> SUFFICES ASSUME Init  PROVE Inv
  OBVIOUS
<1>1. RateInv
  BY RateInitHolds DEF Init
<1>2. NewCall \in Call /\ NewCall.late = FALSE /\ NewCall.allows = FALSE /\ NewCall.pc = "idle"
  BY ZeroIsTime DEF NewCall, Call, Paths, Ids
<1>3. NewAdmin \in Admin /\ NewAdmin.pc = "idle"
  BY TimeAssumption DEF NewAdmin, Admin, Time
<1>4. Typed
  <2>1. agent \in Agent
    BY DEF Init, Agent
  <2>2. call \in [Calls -> Call] /\ admin \in [Admins -> Admin] /\ failures \in 0..MaxFailures
    BY <1>2, <1>3, BoundAssumption DEF Init
  <2>3. perms \subseteq Grants /\ lent \subseteq Grants /\ asked \subseteq Grants
    BY GrantsAssumption DEF Init
  <2> QED BY <2>1, <2>2, <2>3 DEF Init, Typed
<1>5. \A c \in Calls : ~call[c].late /\ ~call[c].allows /\ call[c].pc = "idle"
  BY <1>2 DEF Init
<1>6. \A a \in Admins : admin[a].pc = "idle"
  BY <1>3 DEF Init
<1>7. GoneIsDead /\ LateIsDead
  BY <1>5, <1>6 DEF Init, GoneIsDead, LateIsDead
<1>8. Trails
  BY <1>5 DEF Init, Trails, TrailTellsAnswer, Ended, Writing
<1>9. Spent
  BY DEF Init, Spent, SpentIsAllowed
<1>10. Counted
  BY <1>5 DEF Counted, CountedCall, At
<1>11. Replaced
  BY <1>6 DEF Init, Replaced
<1> QED BY <1>1, <1>4, <1>7, <1>8, <1>9, <1>10, <1>11 DEF Inv

LEMMA NextKeeps == Inv /\ [Next]_vars => Inv'
<1> SUFFICES ASSUME Inv, [Next]_vars  PROVE Inv'
  OBVIOUS
<1>1. RateInv /\ RateTypeOK /\ Typed /\ GoneIsDead /\ LateIsDead /\ Trails /\ Spent /\ Counted /\ Replaced
  BY DEF Inv, RateInv
<1>2. RateInv'
  BY <1>1, StepsReserve, RateNextKeeps
<1>3. Typed' /\ GoneIsDead' /\ LateIsDead'
  BY <1>1, TypedKept, GoneKept, LateKept
<1>4. Trails' /\ Spent' /\ Counted' /\ Replaced'
  BY <1>1, TrailsKept, SpentKept, CountedKept, ReplacedKept
<1> QED BY <1>2, <1>3, <1>4 DEF Inv

LEMMA Invariant == Spec => []Inv
<1> QED BY InitHolds, NextKeeps, PTL DEF Spec

--------------------------------------------------------------------------------
\* Every authorize() holds the local variables its place in the code allows, and
\* the rows of the agent, its permissions and the audit trail have their types.
THEOREM TypesHold == Spec => []TypeOK
<1>1. Inv => TypeOK
  <2> SUFFICES ASSUME Inv  PROVE TypeOK
    OBVIOUS
  <2>1. trail \in [Calls -> SUBSET Row]
    BY DEF Inv, Trails
  <2> QED BY <2>1 DEF Inv, RateInv, Typed, TypeOK
<1> QED BY <1>1, Invariant, PTL

\* authorize() reserves as RateSlots does: each of its steps is one of RateSlots
\* or leaves the counters alone.
THEOREM AuthorizeReserves == Spec => RateSpec
<1>1. Init => RateInit
  BY DEF Init
<1>2. Inv /\ [Next]_vars => [RateNext]_rateVars
  BY StepsReserve DEF Inv
<1> QED BY <1>1, <1>2, Invariant, PTL DEF Spec, RateSpec

\* So whatever the agent's calls do, in whatever order and on either path, no
\* more of them are admitted in a window than the largest of their limits.
THEOREM CallsKeepToTheLimit == Spec => []NeverOver
<1> QED BY AuthorizeReserves, LimitHolds, PTL

\* And a call the rate limit refused costs the later ones nothing.
THEOREM RefusalsAreFree == Spec => []DeniedLeavesNothing
<1> QED BY AuthorizeReserves, DenialsAreFree, PTL

\* Whatever update(), expiry and resolveToken() write to the agent's row, a call
\* that begins after revoke() has returned is not allowed.
THEOREM RevocationHolds == Spec => []RevokedRefuses
<1>1. Inv => RevokedRefuses
  BY DEF Inv, LateIsDead, RevokedRefuses, At
<1> QED BY <1>1, Invariant, PTL

\* Whoever's statement spends the approval is allowed: nothing that comes after it
\* on either path can refuse that call.
THEOREM SpendingAllows == Spec => []SpentIsAllowed
<1>1. Inv => SpentIsAllowed
  BY DEF Inv, Spent
<1> QED BY <1>1, Invariant, PTL

\* However a call is decided, by its own permissions, the delegated ones or none at
\* all, whichever of the three writers runs and wherever it is cut short, its rows
\* are at most one and tell what the caller is told; with auditAll an answer has
\* its row unless that write failed, and without it none has.
THEOREM DecisionsAreAudited == Spec => []TrailTellsAnswer
<1>1. Inv => TrailTellsAnswer
  BY DEF Inv, Trails
<1> QED BY <1>1, Invariant, PTL

\* No call is allowed by a grant with a maxCallsPerHour unless a reservation of its
\* own was admitted under that very limit.
THEOREM LimitsAreApplied == Spec => []AllowedIsCounted
<1>1. Inv => AllowedIsCounted
  BY DEF Inv, Counted, CountedCall, Covered, AllowedIsCounted
<1> QED BY <1>1, Invariant, PTL

\* An update that is cut short leaves fewer permissions than it grants, and never
\* one of those it replaces.
THEOREM UpdatesReplace == Spec => []UpdateIsWhole
<1>1. Inv => UpdateIsWhole
  BY DEF Inv, Replaced, UpdateIsWhole
<1> QED BY <1>1, Invariant, PTL
================================================================================

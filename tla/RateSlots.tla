-------------------------------- MODULE RateSlots --------------------------------
(***************************************************************************)
(* The maxCallsPerHour constraint (policy/abac.ts checkRateLimit(),        *)
(* db/store/single-use.ts rateLimits.reserve()): a call adds one to the    *)
(* counter of its bucket, then adds up the buckets of the last hour, and   *)
(* takes its one back if that is too many.  Each statement is a step, so   *)
(* concurrent reservations see each other's counts, and one that is cut    *)
(* short leaves its own behind.                                            *)
(*                                                                         *)
(* One agent and one resource: rows of others are never read together.     *)
(* The count of a row is told by the reservations that make it up.         *)
(*                                                                         *)
(* OffByOne is not the code: it is a plausible mistake in the definition   *)
(* it precedes, used in its place to confirm that the properties notice    *)
(* it.                                                                     *)
(***************************************************************************)
EXTENDS Integers, FiniteSets

CONSTANTS Reservations, \* reserve() calls, each of which runs once
          None,
          Limits,       \* values of maxCallsPerHour
          Bucket, Hour, \* five minutes and an hour, in ticks
          MaxTime       \* bound of the clock

ASSUME ReservationsAssumption == IsFiniteSet(Reservations) /\ None \notin Int
ASSUME LimitsAssumption == Limits \subseteq Nat
ASSUME TimeAssumption == Bucket \in Nat \ {0} /\ Hour \in Nat \ {0} /\ MaxTime \in Nat

VARIABLES
  clock,
  rows, \* buckets that have a row
  slot, \* the bucket that counts each reservation
  res   \* the local variables of each reservation

rateVars == <<clock, rows, slot, res>>

--------------------------------------------------------------------------------
Time == 0..MaxTime
BucketOf(t) == (t \div Bucket) * Bucket
Reservation == [pc : {"idle", "bump", "insert", "rebump", "sum", "undo", "admitted", "denied", "failed"},
                now : Time, max : Limits \cup {0}]

RateTypeOK ==
  /\ clock \in Time
  /\ rows \subseteq Time
  /\ slot \in [Reservations -> Time \cup {None}]
  /\ res \in [Reservations -> Reservation]

RateInit ==
  /\ clock = 0
  /\ rows = {}
  /\ slot = [r \in Reservations |-> None]
  /\ res = [r \in Reservations |-> [pc |-> "idle", now |-> 0, max |-> 0]]

--------------------------------------------------------------------------------
Goes(r, from, to) == res[r].pc = from /\ res' = [res EXCEPT ![r].pc = to]
MyBucket(r) == BucketOf(res[r].now)

\* The time is read once, before the first statement.
checkRateLimit(r, max) ==
  /\ res[r].pc = "idle"
  /\ res' = [res EXCEPT ![r] = [pc |-> "bump", now |-> clock, max |-> max]]
  /\ UNCHANGED <<clock, rows, slot>>

Counts(r) == slot' = [slot EXCEPT ![r] = MyBucket(r)]
Bump(r) ==
  \/ MyBucket(r) \in rows /\ Goes(r, "bump", "sum") /\ Counts(r) /\ UNCHANGED <<clock, rows>>
  \/ MyBucket(r) \notin rows /\ Goes(r, "bump", "insert") /\ UNCHANGED <<clock, rows, slot>>

\* Two first calls of a bucket collide on the key, and the loser increments.
Insert(r) ==
  \/ MyBucket(r) \notin rows /\ Goes(r, "insert", "sum") /\ Counts(r)
     /\ rows' = rows \cup {MyBucket(r)} /\ UNCHANGED clock
  \/ MyBucket(r) \in rows /\ Goes(r, "insert", "rebump") /\ UNCHANGED <<clock, rows, slot>>

Rebump(r) == Goes(r, "rebump", "sum") /\ Counts(r) /\ UNCHANGED <<clock, rows>>

\* The rows whose window starts an hour ago or later.
Seen(r) == {x \in Reservations : slot[x] # None /\ slot[x] >= res[r].now - Hour}
OffByOne(r) == Cardinality(Seen(r)) <= res[r].max + 1
Fits(r) == Cardinality(Seen(r)) <= res[r].max
Sum(r) ==
  /\ \/ Fits(r) /\ Goes(r, "sum", "admitted")
     \/ ~Fits(r) /\ Goes(r, "sum", "undo")
  /\ UNCHANGED <<clock, rows, slot>>

TakeBack(r) == slot' = [slot EXCEPT ![r] = None]
Undo(r) == Goes(r, "undo", "denied") /\ TakeBack(r) /\ UNCHANGED <<clock, rows>>

Pending(r) == res[r].pc \in {"bump", "insert", "rebump", "sum", "undo"}
\* A statement throws, or the process dies: before the statement or after it.
ReserveFails(r) ==
  /\ Pending(r)
  /\ res' = [res EXCEPT ![r].pc = "failed"]
  /\ UNCHANGED <<clock, rows, slot>>

Tick ==
  /\ clock < MaxTime
  /\ clock' = clock + 1
  /\ UNCHANGED <<rows, slot, res>>

ReserveStep(r) == Bump(r) \/ Insert(r) \/ Rebump(r) \/ Sum(r) \/ Undo(r)
RateNext ==
  \/ Tick
  \/ \E r \in Reservations :
       \/ \E max \in Limits : checkRateLimit(r, max)
       \/ ReserveStep(r) \/ ReserveFails(r)
RateSpec == RateInit /\ [][RateNext]_rateVars

--------------------------------------------------------------------------------
(* Properties *)

Admitted == {r \in Reservations : res[r].pc = "admitted"}
During(start, length) == {r \in Admitted : res[r].now >= start /\ res[r].now <= start + length}
\* The largest limit any of them was given.
Bounded(S) == S = {} \/ \E r \in S : Cardinality(S) <= res[r].max

\* A bucket leaves the sum an hour after it started, up to five minutes before
\* the last call it counts has become an hour old.
Assured == Hour - Bucket + 1

\* However reservations race, fail and undo, and whatever limits they were
\* given, no more are admitted in any 55 minutes than the largest of the limits.
NeverOver == \A start \in Time : Bounded(During(start, Assured))

\* A call that is refused is not counted against later ones.
DeniedLeavesNothing == \A r \in Reservations : res[r].pc \in {"idle", "denied"} => slot[r] = None

\* What docs/permissions.mdx:109 says: a "Rolling one-hour limit".
RollingHour == \A start \in Time : Bounded(During(start, Hour - 1))
================================================================================

------------------------------- MODULE AuditChain -------------------------------
(***************************************************************************)
(* The tamper-evident audit log (audit/chain.ts, record.ts, audit.ts,      *)
(* verify.ts).  The rows of one agent form a hash chain: a writer reads    *)
(* the head, and inserts its row with the next sequence number, which a    *)
(* unique index lets only one writer have.  A write that fails is counted  *)
(* in memory, and a gap row says so ahead of the next write.  Retention    *)
(* cuts the chain from the front behind a checkpoint row.  The verifier    *)
(* walks the chain page by page while all of this goes on.                 *)
(*                                                                         *)
(* Agents have chains of their own, so one agent is enough.  A row is      *)
(* known by its place in the history of inserts, which also stands for its *)
(* hash: nobody but this code writes the table.  Erasure, the anchors of   *)
(* checkpoint(), rows written before the chain was enabled and the date    *)
(* range of the verifier are left out.                                     *)
(*                                                                         *)
(* AppendAnywhere, LaterFailures, EveryExpired and AnchorsLast are not the *)
(* code: each is a plausible mistake in the definition it precedes, used   *)
(* in its place to confirm that the properties notice it.                  *)
(***************************************************************************)
EXTENDS Naturals, Sequences, FiniteSets, FiniteSetsExt

CONSTANTS Processes,
          Calls,
          None,         \* no process
          MaxAttempts,  \* MAX_APPEND_ATTEMPTS
          Page,         \* PAGE of verify.ts
          MaxTime, MaxRows, MaxFailures  \* bounds: clock, inserts, failures and crashes

ASSUME NoneAssumption == None \notin Processes
ASSUME FiniteAssumption == IsFiniteSet(Calls)
ASSUME CodeAssumption == MaxAttempts \in Nat \ {0} /\ Page \in Nat \ {0}
ASSUME BoundAssumption == MaxTime \in Nat /\ MaxRows \in Nat /\ MaxFailures \in Nat

VARIABLES
  rows,      \* every row ever inserted, in order
  table,     \* those that have not been deleted
  pending,   \* FailureState.pending of each process
  queue,     \* audit.exclusive of each process: the calls waiting to append
  call,      \* the local variables of each call
  clock,
  failures,
  owed,      \* history: failed writes of each process that no written row tells of
  late,      \* history: a row took a number that a deleted row had had
  alarms     \* history: what verifications that reported a break went through

store == <<rows, table>>
memory == <<pending, queue>>
history == <<owed, late, alarms>>
vars == <<store, memory, call, clock, failures, history>>

--------------------------------------------------------------------------------
Kinds == {"event", "gap", "checkpoint"}
\* prev: the row before (prev_hash), 0 for null; upto: the last row a checkpoint
\* lets go (throughSeq, lastHash); missed: the failures a gap row reports.
Row == [kind : Kinds, seq : Nat, prev : Nat, stamp : Nat, upto : Nat, missed : Nat]
Writing == {"head", "append"}
Verifying == {"stop", "pred", "first", "anchor", "page"}
Steps == {"idle", "event", "list", "delete"} \cup Writing \cup Verifying
\* in: the process the call runs in; row: the row being written; attempts: appends refused so far.  While
\* verifying, seq is the cursor, last the row before it and stop the end.
\* disturbed (history): rows were deleted during the verification.
Call == [pc : Steps, in : Processes \cup {None}, row : Row, cutoff : Nat, attempts : 0..(MaxAttempts - 1),
         seq : Nat, last : Nat, stop : Nat, disturbed : BOOLEAN]

NoRow == [kind |-> "event", seq |-> 0, prev |-> 0, stamp |-> 0, upto |-> 0, missed |-> 0]
Idle == [pc |-> "idle", in |-> None, row |-> NoRow, cutoff |-> 0, attempts |-> 0,
              seq |-> 0, last |-> 0, stop |-> 0, disturbed |-> FALSE]

TypeOK ==
  /\ rows \in Seq(Row)
  /\ table \subseteq 1..Len(rows)
  /\ pending \in [Processes -> Nat]
  /\ queue \in [Processes -> Seq(Calls)]
  /\ call \in [Calls -> Call]
  /\ clock \in 0..MaxTime
  /\ failures \in 0..MaxFailures
  /\ owed \in [Processes -> Nat] /\ late \in BOOLEAN
  /\ alarms \subseteq {"disturbed", "undisturbed"}

Init ==
  /\ rows = <<>> /\ table = {}
  /\ pending = [p \in Processes |-> 0]
  /\ queue = [p \in Processes |-> <<>>]
  /\ call = [c \in Calls |-> Idle]
  /\ clock = 0
  /\ failures = 0
  /\ owed = [p \in Processes |-> 0] /\ late = FALSE /\ alarms = {}

--------------------------------------------------------------------------------
SeqOf(i) == rows[i].seq
Highest(i, S) == i \in S /\ \A j \in S : SeqOf(j) <= SeqOf(i)
Lowest(i, S) == i \in S /\ \A j \in S : SeqOf(i) <= SeqOf(j)

At(c, pc) == call[c].pc = pc
Go(c, pc) == call' = [call EXCEPT ![c].pc = pc]
Return(c) == call' = [call EXCEPT ![c] = Idle]

(* insertAuditRow(): the calls of one process append one after the other *)

Stamped(kind) == [NoRow EXCEPT !.kind = kind, !.stamp = clock]
Enqueue(c, p) == queue' = [queue EXCEPT ![p] = Append(@, c)]
Dequeue(c) == queue' = [queue EXCEPT ![call[c].in] = Tail(@)]
MyTurn(c) == queue[call[c].in] # <<>> /\ Head(queue[call[c].in]) = c

\* linkAndAppend: number and link follow from the head.
ReadHead(c) ==
  /\ At(c, "head") /\ MyTurn(c)
  /\ \/ /\ table = {}
        /\ call' = [call EXCEPT ![c].pc = "append", ![c].row.seq = 1, ![c].row.prev = 0]
     \/ \E i \in table :
          /\ Highest(i, table)
          /\ call' = [call EXCEPT ![c].pc = "append",
                        ![c].row.seq = SeqOf(i) + 1, ![c].row.prev = i]
  /\ UNCHANGED <<store, memory, clock, failures, history>>

\* What follows a row that was written.
AfterAppend(c) ==
  CASE call[c].row.kind = "event" -> Return(c)
    [] call[c].row.kind = "gap" -> Go(c, "event")
    [] call[c].row.kind = "checkpoint" -> Go(c, "delete")

\* appendAt takes the row unless the unique index on the number refuses it.
AppendAnywhere(row) == TRUE
Fits(row) == \A i \in table : SeqOf(i) # row.seq

Inserted(c) ==
  /\ At(c, "append") /\ MyTurn(c) /\ Fits(call[c].row) /\ Len(rows) < MaxRows
  /\ rows' = Append(rows, call[c].row)
  /\ table' = table \cup {Len(rows) + 1}
  /\ late' = (late \/ \E i \in (1..Len(rows)) \ table : SeqOf(i) = call[c].row.seq)
  /\ owed' = [owed EXCEPT ![call[c].in] =
                 IF @ > call[c].row.missed THEN @ - call[c].row.missed ELSE 0]

AppendRow(c) ==
  /\ Inserted(c)
  /\ AfterAppend(c)
  /\ Dequeue(c)
  /\ UNCHANGED <<pending, clock, failures, alarms>>

LastAttempt(n) == n + 1 = MaxAttempts

\* Another process took the number: read the head again.
AppendRefused(c) ==
  /\ At(c, "append") /\ MyTurn(c) /\ ~Fits(call[c].row)
  /\ ~LastAttempt(call[c].attempts)
  /\ call' = [call EXCEPT ![c].pc = "head", ![c].attempts = @ + 1]
  /\ UNCHANGED <<store, memory, clock, failures, history>>

LaterFailures(p, missed) == pending[p]
\* What a process has to tell after a gap row that told of missed failed.
Restored(p, missed) == pending[p] + missed

\* insertAuditRow throws.  A gap row's count is kept and its event still
\* tried; an event counts as failed; a cleanup ends.
WriteFails(c) ==
  LET p == call[c].in
      row == call[c].row IN
  /\ Dequeue(c)
  /\ \/ /\ row.kind = "gap"
        /\ pending' = [pending EXCEPT ![p] = Restored(p, row.missed)]
        /\ Go(c, "event")
     \/ /\ row.kind = "event"
        /\ pending' = [pending EXCEPT ![p] = @ + 1]
        /\ Return(c)
     \/ /\ row.kind = "checkpoint"
        /\ Return(c)
        /\ UNCHANGED pending
\* history: an event that was not written is owed.
Owe(c) == owed' = [owed EXCEPT ![call[c].in] = @ + (IF call[c].row.kind = "event" THEN 1 ELSE 0)]

\* The last attempt was refused too.
GiveUp(c) ==
  /\ At(c, "append") /\ MyTurn(c) /\ ~Fits(call[c].row)
  /\ LastAttempt(call[c].attempts)
  /\ WriteFails(c) /\ Owe(c)
  /\ UNCHANGED <<store, clock, failures, late, alarms>>

\* A statement throws before it has had its effect, or after.
StatementFails(c) ==
  /\ failures < MaxFailures /\ failures' = failures + 1
  /\ \/ call[c].pc \in Writing /\ MyTurn(c) /\ Owe(c) /\ UNCHANGED <<store, late>>
     \/ Inserted(c)
  /\ WriteFails(c)
  /\ UNCHANGED <<clock, alarms>>

--------------------------------------------------------------------------------
(* recordAuditEvent() and writeGapMarker() *)

\* The failures counted so far are taken, and told of first.
Record(c, p) ==
  /\ call[c] = Idle
  /\ call' = [call EXCEPT ![c].pc = "head", ![c].in = p,
                ![c].row = IF pending[p] = 0 THEN Stamped("event")
                           ELSE [Stamped("gap") EXCEPT !.missed = pending[p]]]
  /\ pending' = [pending EXCEPT ![p] = 0]
  /\ Enqueue(c, p)
  /\ UNCHANGED <<store, clock, failures, history>>

\* The owner of the agent cannot be read: nothing is tried.
RecordFails(p) ==
  /\ failures < MaxFailures /\ failures' = failures + 1
  /\ pending' = [pending EXCEPT ![p] = @ + 1]
  /\ owed' = [owed EXCEPT ![p] = @ + 1]
  /\ UNCHANGED <<store, queue, call, clock, late, alarms>>

\* The event itself, after its gap row.
RecordEvent(c) ==
  /\ At(c, "event")
  /\ call' = [call EXCEPT ![c].pc = "head", ![c].row = Stamped("event"), ![c].attempts = 0]
  /\ Enqueue(c, call[c].in)
  /\ UNCHANGED <<store, pending, clock, failures, history>>

--------------------------------------------------------------------------------
(* cleanup() *)

EveryExpired(cutoff) == {i \in table : rows[i].stamp < cutoff}
\* The oldest rows of the chain, as far as they have expired without exception.
Expired(cutoff) ==
  {i \in table : \A j \in table : SeqOf(j) <= SeqOf(i) => rows[j].stamp < cutoff}

\* Some row has expired.
Cleanup(c, p, cutoff) ==
  /\ call[c] = Idle
  /\ \E i \in table : rows[i].stamp < cutoff
  /\ call' = [call EXCEPT ![c] = [Idle EXCEPT !.pc = "list", !.in = p, !.cutoff = cutoff]]
  /\ UNCHANGED <<store, memory, clock, failures, history>>

\* The checkpoint comes first.
ListExpired(c) ==
  LET run == Expired(call[c].cutoff) IN
  /\ At(c, "list")
  /\ \/ /\ run = {}
        /\ Return(c)
        /\ UNCHANGED queue
     \/ \E last \in run :
          /\ Highest(last, run)
          /\ call' = [call EXCEPT ![c].pc = "head",
                        ![c].row = [Stamped("checkpoint") EXCEPT !.upto = last]]
          /\ Enqueue(c, call[c].in)
  /\ UNCHANGED <<store, pending, clock, failures, history>>

Delete(c) ==
  LET last == call[c].row.upto IN
  /\ At(c, "delete")
  /\ table' = {i \in table : SeqOf(i) > SeqOf(last)}
  /\ call' = [d \in Calls |->
       IF d = c THEN Idle
       ELSE [call[d] EXCEPT !.disturbed = call[d].pc \in Verifying /\ (@ \/ table' # table)]]
  /\ UNCHANGED <<rows, memory, clock, failures, history>>

--------------------------------------------------------------------------------
(* verifyAuditChain(): verifyAgentChain(), checkStart(), checkRow() *)

Verify(c, p) ==
  /\ call[c] = Idle
  /\ \E i \in table :
       /\ Lowest(i, table)
       /\ call' = [call EXCEPT ![c].pc = "stop", ![c].in = p, ![c].seq = SeqOf(i)]
  /\ UNCHANGED <<store, memory, clock, failures, history>>

ReadStop(c) ==
  LET next == IF call[c].seq > 1 THEN "pred" ELSE "page" IN
  /\ At(c, "stop")
  /\ \/ /\ table = {}
        /\ call' = [call EXCEPT ![c].pc = next, ![c].stop = call[c].seq]
     \/ \E i \in table :
          /\ Highest(i, table)
          /\ call' = [call EXCEPT ![c].pc = next, ![c].stop = SeqOf(i)]
  /\ UNCHANGED <<store, memory, clock, failures, history>>

\* A chain that does not start at 1 starts behind its predecessor or a checkpoint.
ReadPred(c) ==
  LET before == {i \in table : SeqOf(i) = call[c].seq - 1} IN
  /\ At(c, "pred")
  /\ \/ /\ before = {}
        /\ Go(c, "first")
     \/ \E i \in before : call' = [call EXCEPT ![c].pc = "page", ![c].last = i]
  /\ UNCHANGED <<store, memory, clock, failures, history>>

ReadFirst(c) ==
  LET first == {i \in table : SeqOf(i) = call[c].seq} IN
  /\ At(c, "first")
  /\ \/ /\ first = {}
        /\ Go(c, "page")
     \/ \E i \in first : call' = [call EXCEPT ![c].pc = "anchor", ![c].row.prev = rows[i].prev]
  /\ UNCHANGED <<store, memory, clock, failures, history>>

\* A break is reported and the walk ends.
Alarm(c) ==
  /\ alarms' = alarms \cup {IF call[c].disturbed THEN "disturbed" ELSE "undisturbed"}
  /\ Return(c)

\* Checkpoints that let go what comes before seq.
AnchorsLast(seq) == {i \in table : rows[i].kind = "checkpoint" /\ rows[i].upto = seq}
Anchors(seq) == {i \in table : rows[i].kind = "checkpoint" /\ SeqOf(rows[i].upto) + 1 = seq}

ReadAnchors(c) ==
  LET anchors == Anchors(call[c].seq) IN
  /\ At(c, "anchor")
  /\ \/ /\ \E i \in anchors : rows[i].upto = call[c].row.prev
        /\ Go(c, "page")
        /\ UNCHANGED alarms
     \/ /\ anchors = {} \/ \E i \in anchors : rows[i].upto # call[c].row.prev
        /\ Alarm(c)
  /\ UNCHANGED <<store, memory, clock, failures, owed, late>>

\* Row i comes right behind row j.
Follows(i, j) == SeqOf(i) = SeqOf(j) + 1 /\ rows[i].prev = j
\* The rows of a page link up, the first of them with the row before, if any.
Linked(page, last) ==
  \A i \in page :
    LET before == {j \in page : SeqOf(j) < SeqOf(i)} IN
    /\ before = {} /\ last # 0 => Follows(i, last)
    /\ \A j \in before : Highest(j, before) => Follows(i, j)

ReadPage(c) ==
  LET k == call[c]
      end == IF k.stop < k.seq + Page THEN k.stop ELSE k.seq + Page - 1
      page == {i \in table : SeqOf(i) \in k.seq..end} IN
  /\ At(c, "page")
  /\ \/ /\ ~Linked(page, k.last)
        /\ Alarm(c)
     \/ /\ Linked(page, k.last)
        /\ \/ /\ end = k.stop
              /\ Return(c)
           \/ /\ end # k.stop
              /\ \E last \in page \cup {k.last} :
                   /\ page # {} => Highest(last, page)
                   /\ call' = [call EXCEPT ![c].seq = end + 1, ![c].last = last]
        /\ UNCHANGED alarms
  /\ UNCHANGED <<store, memory, clock, failures, owed, late>>

--------------------------------------------------------------------------------

\* A process dies, its calls and its memory with it.
Crash(p) ==
  /\ failures < MaxFailures /\ failures' = failures + 1
  /\ pending' = [pending EXCEPT ![p] = 0]
  /\ queue' = [queue EXCEPT ![p] = <<>>]
  /\ call' = [c \in Calls |-> IF call[c].in = p THEN Idle ELSE call[c]]
  /\ owed' = [owed EXCEPT ![p] = 0]
  /\ UNCHANGED <<store, clock, late, alarms>>

\* Any other statement of a cleanup or a verification throws.
Throws(c) ==
  /\ failures < MaxFailures /\ failures' = failures + 1
  /\ call[c].pc \in {"list", "delete"} \cup Verifying
  /\ Return(c)
  /\ UNCHANGED <<store, memory, clock, history>>

Tick ==
  /\ clock < MaxTime
  /\ clock' = clock + 1
  /\ UNCHANGED <<store, memory, call, failures, history>>

NewCall(c, p) ==
  \/ Record(c, p) \/ Verify(c, p)
  \/ \E cutoff \in 1..clock : Cleanup(c, p, cutoff)

Continue(c) ==
  \/ ReadHead(c) \/ AppendRow(c) \/ AppendRefused(c) \/ GiveUp(c) \/ RecordEvent(c)
  \/ ListExpired(c) \/ Delete(c)
  \/ ReadStop(c) \/ ReadPred(c) \/ ReadFirst(c) \/ ReadAnchors(c) \/ ReadPage(c)

Next ==
  \/ Tick
  \/ \E p \in Processes : RecordFails(p) \/ Crash(p)
  \/ \E c \in Calls :
       \/ \E p \in Processes : NewCall(c, p)
       \/ Continue(c) \/ StatementFails(c) \/ Throws(c)

Spec == Init /\ [][Next]_vars

--------------------------------------------------------------------------------
(* Properties *)

\* Unless a writer slept on a head that has been deleted since, with the row
\* that had taken its number: whatever writers race, wherever writes and cleanups are cut short, the rows
\* in the table are one chain, without fork or gap, that begins at the first
\* row ever or where a checkpoint in the table says.
OneChain ==
  ~late =>
    /\ \A i, j \in table : i # j => SeqOf(i) # SeqOf(j)
    /\ Linked(table, 0)
    /\ \A i \in table : Lowest(i, table) =>
         SeqOf(i) = 1 \/ \E k \in Anchors(SeqOf(i)) : rows[k].upto = rows[i].prev

\* The verifier accepts what the code wrote, while others write, fail and
\* retry, unless rows are deleted under it.
NoFalseAlarm == ~late => "undisturbed" \notin alarms

\* Retention deletes expired rows only, even when newer and older stamps lie
\* out of order in the chain.
RetentionSparesYoung ==
  [][~late => \A i \in table \ table' :
       \E c \in Calls : At(c, "delete") /\ rows[i].stamp < call[c].cutoff]_vars

\* Failures on their way in a gap row
Told(c) == IF call[c].pc \in Writing THEN call[c].row.missed ELSE 0
\* A failed write is not forgotten while its process lives: unless a written
\* row tells of it, it is still counted or on its way in a gap row.
FailuresAreTold ==
  \A p \in Processes :
    owed[p] <= pending[p] + MapThenSumSet(Told, {c \in Calls : call[c].in = p})
================================================================================

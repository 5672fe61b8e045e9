---------------------------- MODULE AuditChainProofs ---------------------------
(***************************************************************************)
(* Theorems about AuditChain for any processes, calls and bounds.          *)
(***************************************************************************)
EXTENDS AuditChain, FiniteSetTheorems, WellFoundedInduction, TLAPS

(***************************************************************************)
(* Type correctness.  A call under way has a process, whose queue it may   *)
(* be in.                                                                  *)
(***************************************************************************)

CallsPlaced == \A c \in Calls : call[c].pc # "idle" => call[c].in \in Processes
Typed == TypeOK /\ CallsPlaced

LEMMA IdleTyped == Idle \in Call /\ NoRow \in Row
BY CodeAssumption DEF Idle, Call, NoRow, Row, Kinds, Steps

LEMMA StampedTyped ==
  ASSUME NEW kind \in Kinds, clock \in Nat
  PROVE  Stamped(kind) \in Row
BY DEF Stamped, NoRow, Row, Kinds

\* A step that leaves the table alone and gives one call new locals of its type.
LEMMA CallTyped ==
  ASSUME Typed, NEW c \in Calls, NEW k \in Call, k.pc # "idle" => k.in \in Processes,
         call' = [call EXCEPT ![c] = k]
  PROVE  call' \in [Calls -> Call] /\ CallsPlaced'
BY DEF Typed, TypeOK, CallsPlaced

LEMMA ReturnTyped ==
  ASSUME Typed, NEW c \in Calls, Return(c)
  PROVE  call' \in [Calls -> Call] /\ CallsPlaced'
BY IdleTyped, CallTyped DEF Return, Idle

LEMMA GoTyped ==
  ASSUME Typed, NEW c \in Calls, NEW pc \in Steps, call[c].pc # "idle", Go(c, pc)
  PROVE  call' \in [Calls -> Call] /\ CallsPlaced'
<1>1. [call[c] EXCEPT !.pc = pc] \in Call
  BY DEF Typed, TypeOK, Call
<1>2. call' = [call EXCEPT ![c] = [call[c] EXCEPT !.pc = pc]]
  BY DEF Go
<1>3. [call[c] EXCEPT !.pc = pc].in \in Processes
  BY DEF Typed, TypeOK, CallsPlaced, Call
<1> QED
  BY <1>1, <1>2, <1>3, CallTyped

LEMMA DequeueTyped ==
  ASSUME Typed, NEW c \in Calls, call[c].pc # "idle", MyTurn(c), Dequeue(c)
  PROVE  queue' \in [Processes -> Seq(Calls)]
BY DEF Typed, TypeOK, CallsPlaced, MyTurn, Dequeue

LEMMA EnqueueTyped ==
  ASSUME Typed, NEW c \in Calls, NEW p \in Processes, Enqueue(c, p)
  PROVE  queue' \in [Processes -> Seq(Calls)]
BY DEF Typed, TypeOK, Enqueue

LEMMA InsertedTyped ==
  ASSUME Typed, NEW c \in Calls, Inserted(c)
  PROVE  /\ rows' \in Seq(Row) /\ table' \subseteq 1..Len(rows')
         /\ owed' \in [Processes -> Nat] /\ late' \in BOOLEAN
<1> DEFINE k == call[c]
<1>1. k \in Call /\ k.in \in Processes /\ k.row \in Row /\ k.row.missed \in Nat
  BY DEF Typed, TypeOK, CallsPlaced, Inserted, At, Call, Row
<1>2. rows' \in Seq(Row) /\ Len(rows') = Len(rows) + 1 /\ Len(rows) \in Nat
  BY <1>1 DEF Typed, TypeOK, Inserted
<1>3. table' \subseteq 1..Len(rows')
  <2> DEFINE n == Len(rows)
  <2>1. table \subseteq 1..n /\ table' = table \cup {n + 1} /\ n \in Nat /\ Len(rows') = n + 1
    BY <1>2 DEF Typed, TypeOK, Inserted
  <2> HIDE DEF n
  <2>2. table' \subseteq 1..(n + 1)
    BY <2>1
  <2> QED
    BY <2>1, <2>2
<1>4. late' \in BOOLEAN
  BY DEF Typed, TypeOK, Inserted
<1>5. owed' \in [Processes -> Nat]
  BY <1>1 DEF Typed, TypeOK, Inserted
<1> QED
  BY <1>2, <1>3, <1>4, <1>5

LEMMA WriteFailsTyped ==
  ASSUME Typed, NEW c \in Calls, call[c].pc \in Writing, MyTurn(c), WriteFails(c)
  PROVE  /\ call' \in [Calls -> Call] /\ CallsPlaced'
         /\ queue' \in [Processes -> Seq(Calls)] /\ pending' \in [Processes -> Nat]
<1> DEFINE k == call[c]
<1>1. k \in Call /\ k.in \in Processes /\ k.pc # "idle" /\ k.row \in Row /\ k.row.missed \in Nat
  BY DEF Typed, TypeOK, CallsPlaced, Writing, Call, Row
<1>2. queue' \in [Processes -> Seq(Calls)]
  BY <1>1, DequeueTyped DEF WriteFails
<1>3. pending' \in [Processes -> Nat]
  <2>1. pending \in [Processes -> Nat] /\ pending[k.in] \in Nat
    BY <1>1 DEF Typed, TypeOK
  <2>2. \/ pending' = [pending EXCEPT ![k.in] = pending[k.in] + k.row.missed]
        \/ pending' = [pending EXCEPT ![k.in] = @ + 1]
        \/ pending' = pending
    BY DEF WriteFails, Restored
  <2> QED
    BY <1>1, <2>1, <2>2
<1>4. call' \in [Calls -> Call] /\ CallsPlaced'
  <2>1. CASE Return(c)
    BY <2>1, ReturnTyped
  <2>2. CASE Go(c, "event")
    BY <1>1, <2>2, GoTyped DEF Steps
  <2> QED
    BY <2>1, <2>2 DEF WriteFails
<1> QED
  BY <1>2, <1>3, <1>4

LEMMA OweTyped ==
  ASSUME Typed, NEW c \in Calls, call[c].pc # "idle", Owe(c)
  PROVE  owed' \in [Processes -> Nat]
BY DEF Typed, TypeOK, CallsPlaced, Owe

\* What the actions that only move one call have to show.
Rest == <<store, memory, clock, failures, history>>

LEMMA RestTyped ==
  ASSUME Typed, UNCHANGED Rest, call' \in [Calls -> Call], CallsPlaced'
  PROVE  Typed'
BY DEF Typed, TypeOK, Rest, store, memory, history

LEMMA NewCallTyped ==
  ASSUME Typed, NEW c \in Calls, NEW p \in Processes, NewCall(c, p)
  PROVE  Typed'
<1> USE DEF Typed, TypeOK
<1>1. CASE Record(c, p)
  <2>1. pending[p] \in Nat /\ clock \in Nat
    BY BoundAssumption
  <2> DEFINE row == IF pending[p] = 0 THEN Stamped("event")
                    ELSE [Stamped("gap") EXCEPT !.missed = pending[p]]
             k == [call[c] EXCEPT !.pc = "head", !.in = p, !.row = row]
  <2>2. row \in Row
    BY <2>1 DEF Stamped, NoRow, Row, Kinds
  <2>3. k \in Call /\ k.in \in Processes
    <3>1. call[c] \in Call
      OBVIOUS
    <3> HIDE DEF row
    <3> QED
      BY <2>2, <3>1 DEF Call, Steps, Writing
  <2>4. call' = [call EXCEPT ![c] = k]
    BY <1>1 DEF Record
  <2> HIDE DEF k
  <2>5. call' \in [Calls -> Call] /\ CallsPlaced'
    BY <2>3, <2>4, CallTyped
  <2>6. queue' \in [Processes -> Seq(Calls)]
    BY <1>1, EnqueueTyped DEF Record
  <2>7. pending' \in [Processes -> Nat]
    BY <1>1 DEF Record
  <2> QED
    BY <1>1, <2>5, <2>6, <2>7 DEF Record, store, history
<1>2. CASE Verify(c, p)
  <2>1. PICK i \in table : call' = [call EXCEPT ![c].pc = "stop", ![c].in = p, ![c].seq = SeqOf(i)]
    BY <1>2 DEF Verify
  <2>2. rows[i] \in Row
    OBVIOUS
  <2>3. SeqOf(i) \in Nat
    BY <2>2 DEF SeqOf, Row
  <2> DEFINE k == [call[c] EXCEPT !.pc = "stop", !.in = p, !.seq = SeqOf(i)]
  <2>4. k \in Call /\ k.in \in Processes
    <3>1. call[c] \in Call
      OBVIOUS
    <3>2. PICK n : n = SeqOf(i) /\ n \in Nat
      BY <2>3
    <3>3. PICK h : h = call[c] /\ h \in Call
      BY <3>1
    <3>4. [h EXCEPT !.pc = "stop", !.in = p, !.seq = n] \in Call
      BY <3>2, <3>3 DEF Call, Steps, Verifying
    <3>5. k.in = p
      BY <3>1 DEF Call
    <3> QED
      BY <3>2, <3>3, <3>4, <3>5
  <2>5. call' = [call EXCEPT ![c] = k]
    BY <2>1
  <2> HIDE DEF k
  <2>6. call' \in [Calls -> Call] /\ CallsPlaced'
    BY <2>4, <2>5, CallTyped
  <2> QED
    BY <1>2, <2>6, RestTyped DEF Verify, Rest
<1>3. ASSUME NEW cutoff \in 1..clock, Cleanup(c, p, cutoff)
      PROVE  Typed'
  <2> DEFINE k == [Idle EXCEPT !.pc = "list", !.in = p, !.cutoff = cutoff]
  <2>1. k \in Call /\ k.in \in Processes
    <3>1. cutoff \in Nat /\ Idle \in Call
      BY IdleTyped, BoundAssumption
    <3> QED
      BY <3>1 DEF Call, Steps
  <2>2. call' = [call EXCEPT ![c] = k]
    BY <1>3 DEF Cleanup
  <2> HIDE DEF k
  <2>3. call' \in [Calls -> Call] /\ CallsPlaced'
    BY <2>1, <2>2, CallTyped
  <2> QED
    BY <1>3, <2>3, RestTyped DEF Cleanup, Rest
<1> QED
  BY <1>1, <1>2, <1>3 DEF NewCall

LEMMA WritingTyped ==
  ASSUME Typed, NEW c \in Calls,
         ReadHead(c) \/ AppendRow(c) \/ AppendRefused(c) \/ GiveUp(c) \/ StatementFails(c)
  PROVE  Typed'
<1> DEFINE k == call[c]
<1>0. k \in Call /\ k.row \in Row
  BY DEF Typed, TypeOK, Call
<1>1. CASE ReadHead(c)
  <2>1. k.pc = "head" /\ k.in \in Processes
    BY <1>1 DEF ReadHead, At, Typed, CallsPlaced
  <2>2. PICK s \in Nat, i \in Nat :
          call' = [call EXCEPT ![c].pc = "append", ![c].row.seq = s, ![c].row.prev = i]
    <3>1. CASE table = {}
      BY <1>1, <3>1 DEF ReadHead
    <3>2. ASSUME NEW i \in table,
                 call' = [call EXCEPT ![c].pc = "append",
                            ![c].row.seq = SeqOf(i) + 1, ![c].row.prev = i]
          PROVE  \E s \in Nat, j \in Nat :
                   call' = [call EXCEPT ![c].pc = "append", ![c].row.seq = s, ![c].row.prev = j]
      <4>1. rows[i] \in Row /\ i \in Nat
        BY DEF Typed, TypeOK
      <4>2. SeqOf(i) + 1 \in Nat
        BY <4>1 DEF SeqOf, Row
      <4> QED
        BY <3>2, <4>1, <4>2
    <3> QED
      BY <1>1, <3>1, <3>2 DEF ReadHead
  <2> DEFINE h == [k EXCEPT !.pc = "append", !.row.seq = s, !.row.prev = i]
  <2>3. [k.row EXCEPT !.seq = s, !.prev = i] \in Row
    BY <1>0 DEF Row
  <2>4. h \in Call /\ h.in \in Processes
    BY <1>0, <2>1, <2>3 DEF Call, Steps, Writing
  <2>5. call' = [call EXCEPT ![c] = h]
    BY <2>2
  <2> HIDE DEF h
  <2>6. call' \in [Calls -> Call] /\ CallsPlaced'
    BY <2>4, <2>5, CallTyped
  <2> QED
    BY <1>1, <2>6, RestTyped DEF ReadHead, Rest
<1>2. CASE AppendRow(c)
  <2>1. At(c, "append") /\ MyTurn(c) /\ Inserted(c) /\ Dequeue(c)
    BY <1>2 DEF AppendRow, Inserted
  <2>2. /\ rows' \in Seq(Row) /\ table' \subseteq 1..Len(rows')
        /\ owed' \in [Processes -> Nat] /\ late' \in BOOLEAN
    BY <2>1, InsertedTyped
  <2>3. queue' \in [Processes -> Seq(Calls)]
    BY <2>1, DequeueTyped DEF At
  <2>4. Return(c) \/ Go(c, "event") \/ Go(c, "delete")
    BY <1>0, <1>2 DEF AppendRow, AfterAppend, Row, Kinds
  <2>5. call' \in [Calls -> Call] /\ CallsPlaced'
    BY <2>1, <2>4, ReturnTyped, GoTyped DEF At, Steps
  <2> QED
    BY <1>2, <2>2, <2>3, <2>5 DEF AppendRow, Typed, TypeOK
<1>3. CASE AppendRefused(c)
  <2>1. k.pc = "append" /\ k.in \in Processes
    BY <1>3 DEF AppendRefused, At, Typed, CallsPlaced
  <2> DEFINE h == [k EXCEPT !.pc = "head", !.attempts = k.attempts + 1]
  <2>2. k.attempts + 1 \in 0..(MaxAttempts - 1)
    <3>1. k.attempts \in 0..(MaxAttempts - 1) /\ k.attempts + 1 # MaxAttempts
      BY <1>0, <1>3 DEF AppendRefused, LastAttempt, Call
    <3> QED
      BY <3>1, CodeAssumption
  <2>3. h \in Call /\ h.in \in Processes
    BY <1>0, <2>1, <2>2 DEF Call, Steps, Writing
  <2>4. call' = [call EXCEPT ![c] = h]
    BY <1>3 DEF AppendRefused
  <2> HIDE DEF h
  <2>5. call' \in [Calls -> Call] /\ CallsPlaced'
    BY <2>3, <2>4, CallTyped
  <2> QED
    BY <1>3, <2>5, RestTyped DEF AppendRefused, Rest
<1>4. CASE GiveUp(c)
  <2>1. k.pc = "append" /\ MyTurn(c) /\ WriteFails(c) /\ Owe(c)
    BY <1>4 DEF GiveUp, At
  <2>2. /\ call' \in [Calls -> Call] /\ CallsPlaced'
        /\ queue' \in [Processes -> Seq(Calls)] /\ pending' \in [Processes -> Nat]
    BY <2>1, WriteFailsTyped DEF Writing
  <2>3. owed' \in [Processes -> Nat]
    BY <2>1, OweTyped
  <2> QED
    BY <1>4, <2>2, <2>3 DEF GiveUp, Typed, TypeOK, store
<1>5. CASE StatementFails(c)
  <2>1. k.pc \in Writing /\ MyTurn(c) /\ WriteFails(c)
    BY <1>5 DEF StatementFails, Inserted, At, Writing
  <2>2. /\ call' \in [Calls -> Call] /\ CallsPlaced'
        /\ queue' \in [Processes -> Seq(Calls)] /\ pending' \in [Processes -> Nat]
    BY <2>1, WriteFailsTyped
  <2>3. /\ rows' \in Seq(Row) /\ table' \subseteq 1..Len(rows')
        /\ owed' \in [Processes -> Nat] /\ late' \in BOOLEAN
    <3>1. CASE Inserted(c)
      BY <3>1, InsertedTyped
    <3>2. CASE Owe(c) /\ UNCHANGED <<store, late>>
      BY <2>1, <3>2, OweTyped DEF store, Typed, TypeOK, Writing
    <3> QED
      BY <1>5, <3>1, <3>2 DEF StatementFails
  <2>4. failures' \in 0..MaxFailures
    BY <1>5, BoundAssumption DEF StatementFails, Typed, TypeOK
  <2> QED
    BY <1>5, <2>2, <2>3, <2>4 DEF StatementFails, Typed, TypeOK
<1> QED
  BY <1>1, <1>2, <1>3, <1>4, <1>5

LEMMA CuttingTyped ==
  ASSUME Typed, NEW c \in Calls, RecordEvent(c) \/ ListExpired(c) \/ Delete(c)
  PROVE  Typed'
<1> DEFINE k == call[c]
<1>0. k \in Call /\ (k.pc # "idle" => k.in \in Processes) /\ clock \in Nat
  BY BoundAssumption DEF Typed, TypeOK, CallsPlaced
<1>1. CASE RecordEvent(c)
  <2> DEFINE h == [k EXCEPT !.pc = "head", !.row = Stamped("event"), !.attempts = 0]
  <2>1. k.in \in Processes
    BY <1>0, <1>1 DEF RecordEvent, At
  <2>2. Stamped("event") \in Row /\ 0 \in 0..(MaxAttempts - 1)
    BY <1>0, CodeAssumption, StampedTyped DEF Kinds
  <2>3. h \in Call /\ h.in \in Processes
    BY <1>0, <2>1, <2>2 DEF Call, Steps, Writing
  <2>4. call' = [call EXCEPT ![c] = h]
    BY <1>1 DEF RecordEvent
  <2> HIDE DEF h
  <2>5. call' \in [Calls -> Call] /\ CallsPlaced'
    BY <2>3, <2>4, CallTyped
  <2>6. queue' \in [Processes -> Seq(Calls)]
    BY <1>1, <2>1, EnqueueTyped DEF RecordEvent
  <2> QED
    BY <1>1, <2>5, <2>6 DEF RecordEvent, Typed, TypeOK, store, history
<1>2. CASE ListExpired(c)
  <2>1. k.in \in Processes
    BY <1>0, <1>2 DEF ListExpired, At
  <2>2. CASE Return(c) /\ UNCHANGED queue
    <3>1. call' \in [Calls -> Call] /\ CallsPlaced'
      BY <2>2, ReturnTyped
    <3> QED
      BY <1>2, <2>2, <3>1, RestTyped DEF ListExpired, Rest, memory
  <2>3. ASSUME NEW last \in table, Enqueue(c, k.in),
               call' = [call EXCEPT ![c].pc = "head",
                          ![c].row = [Stamped("checkpoint") EXCEPT !.upto = last]]
        PROVE  Typed'
    <3> DEFINE row == [Stamped("checkpoint") EXCEPT !.upto = last]
               h == [k EXCEPT !.pc = "head", !.row = row]
    <3>1. Stamped("checkpoint") \in Row /\ last \in Nat
      BY <1>0, StampedTyped DEF Kinds, Typed, TypeOK
    <3>2. row \in Row
      BY <3>1 DEF Row
    <3>3. call' = [call EXCEPT ![c] = h]
      BY <2>3
    <3> HIDE DEF row
    <3>4. h \in Call /\ h.in \in Processes
      BY <1>0, <2>1, <3>2 DEF Call, Steps, Writing
    <3> HIDE DEF h
    <3>5. call' \in [Calls -> Call] /\ CallsPlaced'
      BY <3>3, <3>4, CallTyped
    <3>6. queue' \in [Processes -> Seq(Calls)]
      BY <2>1, <2>3, EnqueueTyped
    <3> QED
      BY <1>2, <3>5, <3>6 DEF ListExpired, Typed, TypeOK, store, history
  <2>4. Expired(k.cutoff) \subseteq table
    BY DEF Expired
  <2> QED
    BY <1>2, <2>2, <2>3, <2>4 DEF ListExpired
<1>3. CASE Delete(c)
  <2>1. table' \subseteq table /\ rows' = rows
    BY <1>3 DEF Delete
  <2>2. ASSUME NEW d \in Calls
        PROVE  call'[d] \in Call /\ (call'[d].pc # "idle" => call'[d].in \in Processes)
    <3>1. CASE d = c
      BY <1>3, <3>1, IdleTyped DEF Delete, Idle
    <3>2. CASE d # c
      <4> DEFINE b == call[d].pc \in Verifying /\ (call[d].disturbed \/ table' # table)
      <4>1. call'[d] = [call[d] EXCEPT !.disturbed = b]
        BY <1>3, <3>2 DEF Delete
      <4>2. call[d] \in Call /\ (call[d].pc # "idle" => call[d].in \in Processes)
        BY DEF Typed, TypeOK, CallsPlaced
      <4>3. b \in BOOLEAN
        BY DEF Typed
      <4> HIDE DEF b
      <4> QED
        BY <4>1, <4>2, <4>3 DEF Call
    <3> QED
      BY <3>1, <3>2
  <2>3. call' \in [Calls -> Call] /\ CallsPlaced'
    <3>1. call' = [d \in Calls |-> call'[d]]
      BY <1>3 DEF Delete
    <3> QED
      BY <2>2, <3>1 DEF CallsPlaced
  <2> QED
    BY <1>3, <2>1, <2>3 DEF Delete, Typed, TypeOK, memory, history
<1> QED
  BY <1>1, <1>2, <1>3

LEMMA AlarmTyped ==
  ASSUME Typed, NEW c \in Calls, Alarm(c)
  PROVE  /\ call' \in [Calls -> Call] /\ CallsPlaced'
         /\ alarms' \subseteq {"disturbed", "undisturbed"}
BY ReturnTyped DEF Alarm, Typed, TypeOK

LEMMA VerifyingTyped ==
  ASSUME Typed, NEW c \in Calls,
         ReadStop(c) \/ ReadPred(c) \/ ReadFirst(c) \/ ReadAnchors(c) \/ ReadPage(c)
  PROVE  Typed'
<1> DEFINE k == call[c]
<1>1. k \in Call /\ k.pc # "idle" /\ k.in \in Processes
  BY DEF Typed, TypeOK, CallsPlaced, ReadStop, ReadPred, ReadFirst, ReadAnchors, ReadPage, At
<1>2. \A i \in table : i \in Nat /\ rows[i] \in Row /\ SeqOf(i) \in Nat /\ rows[i].prev \in Nat
  <2>1. \A i \in table : i \in Nat /\ rows[i] \in Row
    BY DEF Typed, TypeOK
  <2> QED
    BY <2>1 DEF Row, SeqOf
\* Most steps move a call to another step and read a number or two.
<1>3. ASSUME NEW pc \in {"page", "pred", "first", "anchor"},
             NEW row \in Row, NEW seq \in Nat, NEW last \in Nat, NEW stop \in Nat,
             call' = [call EXCEPT ![c] = [k EXCEPT !.pc = pc, !.row = row, !.seq = seq, !.last = last,
                                                   !.stop = stop]]
      PROVE  call' \in [Calls -> Call] /\ CallsPlaced'
  <2> DEFINE h == [k EXCEPT !.pc = pc, !.row = row, !.seq = seq, !.last = last, !.stop = stop]
  <2>1. h \in Call /\ h.in \in Processes
    BY <1>1 DEF Call, Steps, Verifying
  <2>2. call' = [call EXCEPT ![c] = h]
    BY <1>3
  <2> HIDE DEF h
  <2> QED
    BY <2>1, <2>2, CallTyped
<1>4. k.row \in Row /\ k.seq \in Nat /\ k.last \in Nat /\ k.stop \in Nat
  BY <1>1 DEF Call
<1>5. ASSUME call' \in [Calls -> Call], CallsPlaced', alarms' \subseteq {"disturbed", "undisturbed"},
             UNCHANGED <<store, memory, clock, failures, owed, late>>
      PROVE  Typed'
  BY <1>5 DEF Typed, TypeOK, store, memory
<1>6. CASE ReadStop(c)
  <2>1. PICK pc \in {"pred", "page"}, stop \in Nat :
          call' = [call EXCEPT ![c].pc = pc, ![c].stop = stop]
    BY <1>2, <1>4, <1>6 DEF ReadStop
  <2>2. call' = [call EXCEPT ![c] = [k EXCEPT !.pc = pc, !.row = k.row, !.seq = k.seq, !.last = k.last,
                                              !.stop = stop]]
    BY <1>1, <2>1 DEF Call
  <2>3. call' \in [Calls -> Call] /\ CallsPlaced'
    BY <1>3, <1>4, <2>2
  <2> QED
    BY <1>6, <2>3, RestTyped DEF ReadStop, Rest
<1>7. CASE ReadPred(c)
  <2>1. PICK pc \in {"first", "page"}, last \in Nat :
          call' = [call EXCEPT ![c].pc = pc, ![c].last = last]
    <3>1. CASE Go(c, "first")
      <4>1. call' = [call EXCEPT ![c].pc = "first", ![c].last = k.last]
        BY <1>1, <3>1 DEF Go, Call, Typed, TypeOK
      <4> QED
        BY <1>4, <4>1
    <3>2. ASSUME NEW i \in table, call' = [call EXCEPT ![c].pc = "page", ![c].last = i]
          PROVE  \E last \in Nat : call' = [call EXCEPT ![c].pc = "page", ![c].last = last]
      BY <1>2, <3>2
    <3> QED
      BY <1>7, <3>1, <3>2 DEF ReadPred
  <2>2. call' = [call EXCEPT ![c] = [k EXCEPT !.pc = pc, !.row = k.row, !.seq = k.seq, !.last = last,
                                              !.stop = k.stop]]
    BY <1>1, <2>1 DEF Call
  <2>3. call' \in [Calls -> Call] /\ CallsPlaced'
    BY <1>3, <1>4, <2>2
  <2> QED
    BY <1>7, <2>3, RestTyped DEF ReadPred, Rest
<1>8. CASE ReadFirst(c)
  <2>1. CASE Go(c, "page")
    <3>1. call' \in [Calls -> Call] /\ CallsPlaced'
      BY <1>1, <2>1, GoTyped DEF Steps, Verifying
    <3> QED
      BY <1>8, <3>1, RestTyped DEF ReadFirst, Rest
  <2>2. ASSUME NEW i \in table,
               call' = [call EXCEPT ![c].pc = "anchor", ![c].row.prev = rows[i].prev]
        PROVE  Typed'
    <3> DEFINE row == [k.row EXCEPT !.prev = rows[i].prev]
    <3>1. row \in Row
      BY <1>2, <1>4 DEF Row
    <3>2. call' = [call EXCEPT ![c] = [k EXCEPT !.pc = "anchor", !.row = row, !.seq = k.seq, !.last = k.last,
                                                !.stop = k.stop]]
      BY <1>1, <2>2 DEF Call
    <3> HIDE DEF row
    <3>3. call' \in [Calls -> Call] /\ CallsPlaced'
      BY <1>3, <1>4, <3>1, <3>2
    <3> QED
      BY <1>8, <3>3, RestTyped DEF ReadFirst, Rest
  <2> QED
    BY <1>8, <2>1, <2>2 DEF ReadFirst
<1>9. CASE ReadAnchors(c)
  <2>1. Alarm(c) \/ (Go(c, "page") /\ UNCHANGED alarms)
    BY <1>9 DEF ReadAnchors
  <2>2. CASE Alarm(c)
    BY <1>5, <1>9, <2>2, AlarmTyped DEF ReadAnchors
  <2>3. CASE Go(c, "page") /\ UNCHANGED alarms
    <3>1. call' \in [Calls -> Call] /\ CallsPlaced'
      BY <1>1, <2>3, GoTyped DEF Steps, Verifying
    <3> QED
      BY <1>5, <1>9, <2>3, <3>1 DEF ReadAnchors, Typed, TypeOK
  <2> QED
    BY <2>1, <2>2, <2>3
<1>10. CASE ReadPage(c)
  <2>1. CASE Alarm(c)
    BY <1>5, <1>10, <2>1, AlarmTyped DEF ReadPage
  <2>2. CASE Return(c) /\ UNCHANGED alarms
    BY <1>5, <1>10, <2>2, ReturnTyped DEF ReadPage, Typed, TypeOK
  <2>3. ASSUME UNCHANGED alarms,
               NEW seq \in Nat, NEW last \in table \cup {k.last},
               call' = [call EXCEPT ![c].seq = seq, ![c].last = last]
        PROVE  Typed'
    <3>1. last \in Nat
      BY <1>2, <1>4
    <3>2. call' = [call EXCEPT ![c] = [k EXCEPT !.pc = "page", !.row = k.row, !.seq = seq, !.last = last,
                                                !.stop = k.stop]]
      <4>1. k.pc = "page"
        BY <1>10 DEF ReadPage, At
      <4> QED
        BY <1>1, <2>3, <4>1 DEF Call
    <3>3. call' \in [Calls -> Call] /\ CallsPlaced'
      BY <1>3, <1>4, <3>1, <3>2
    <3> QED
      BY <1>5, <1>10, <2>3, <3>3 DEF ReadPage, Typed, TypeOK
  <2> DEFINE end == IF k.stop < k.seq + Page THEN k.stop ELSE k.seq + Page - 1
             page == {i \in table : SeqOf(i) \in k.seq..end}
  <2>4. end + 1 \in Nat
    BY <1>4, CodeAssumption
  <2>5. page \subseteq table
    OBVIOUS
  <2> HIDE DEF page
  <2>6. ASSUME UNCHANGED alarms,
               NEW last \in page \cup {k.last},
               call' = [call EXCEPT ![c].seq = end + 1, ![c].last = last]
        PROVE  Typed'
    BY <2>3, <2>4, <2>5, <2>6
  <2>7. \/ Alarm(c)
        \/ Return(c) /\ UNCHANGED alarms
        \/ /\ UNCHANGED alarms
           /\ \E last \in page \cup {k.last} : call' = [call EXCEPT ![c].seq = end + 1, ![c].last = last]
    BY <1>10 DEF ReadPage, page
  <2> QED
    BY <2>1, <2>2, <2>6, <2>7
<1> QED
  BY <1>6, <1>7, <1>8, <1>9, <1>10

LEMMA FailingTyped ==
  ASSUME Typed, Tick \/ \E p \in Processes : RecordFails(p) \/ Crash(p)
  PROVE  Typed'
<1>1. CASE Tick
  BY <1>1, BoundAssumption DEF Tick, Typed, TypeOK, CallsPlaced, store, memory, history
<1>2. ASSUME NEW p \in Processes, RecordFails(p)
      PROVE  Typed'
  <2>1. pending' \in [Processes -> Nat] /\ owed' \in [Processes -> Nat] /\ failures' \in 0..MaxFailures
    BY <1>2, BoundAssumption DEF RecordFails, Typed, TypeOK
  <2> QED
    BY <1>2, <2>1 DEF RecordFails, Typed, TypeOK, CallsPlaced, store
<1>3. ASSUME NEW p \in Processes, Crash(p)
      PROVE  Typed'
  <2>1. pending' \in [Processes -> Nat] /\ owed' \in [Processes -> Nat] /\ failures' \in 0..MaxFailures
    BY <1>3, BoundAssumption DEF Crash, Typed, TypeOK
  <2>2. queue' \in [Processes -> Seq(Calls)]
    BY <1>3 DEF Crash, Typed, TypeOK
  <2>3. call' \in [Calls -> Call] /\ CallsPlaced'
    <3>1. \A c \in Calls : call'[c] = Idle \/ call'[c] = call[c]
      BY <1>3 DEF Crash
    <3>2. call' = [c \in Calls |-> call'[c]]
      BY <1>3 DEF Crash
    <3>3. Idle.pc = "idle"
      BY DEF Idle
    <3> QED
      BY <3>1, <3>2, <3>3, IdleTyped DEF Typed, TypeOK, CallsPlaced
  <2> QED
    BY <1>3, <2>1, <2>2, <2>3 DEF Crash, Typed, TypeOK, store
<1> QED
  BY <1>1, <1>2, <1>3

LEMMA ThrowsTyped ==
  ASSUME Typed, NEW c \in Calls, Throws(c)
  PROVE  Typed'
<1>1. call' \in [Calls -> Call] /\ CallsPlaced'
  BY ReturnTyped DEF Throws
<1>2. failures' \in 0..MaxFailures
  BY BoundAssumption DEF Throws, Typed, TypeOK
<1> QED
  BY <1>1, <1>2 DEF Throws, Typed, TypeOK, store, memory, history

LEMMA InitTyped ==
  ASSUME Init
  PROVE  Typed
<1>1. rows \in Seq(Row) /\ table \subseteq 1..Len(rows)
  BY DEF Init
<1>2. pending \in [Processes -> Nat] /\ owed \in [Processes -> Nat]
  BY DEF Init
<1>3. queue \in [Processes -> Seq(Calls)]
  BY DEF Init
<1>4. call \in [Calls -> Call] /\ CallsPlaced
  BY IdleTyped DEF Init, CallsPlaced, Idle
<1>5. clock \in 0..MaxTime /\ failures \in 0..MaxFailures
  BY BoundAssumption DEF Init
<1>6. late \in BOOLEAN /\ alarms \subseteq {"disturbed", "undisturbed"}
  BY DEF Init
<1> QED
  BY <1>1, <1>2, <1>3, <1>4, <1>5, <1>6 DEF Typed, TypeOK

LEMMA NextTyped ==
  ASSUME Typed, [Next]_vars
  PROVE  Typed'
<1>1. CASE UNCHANGED vars
  BY <1>1 DEF vars, store, memory, history, Typed, TypeOK, CallsPlaced
<1>2. CASE Tick \/ \E p \in Processes : RecordFails(p) \/ Crash(p)
  BY <1>2, FailingTyped
<1>3. ASSUME NEW c \in Calls, NEW p \in Processes, NewCall(c, p)
      PROVE  Typed'
  BY <1>3, NewCallTyped
<1>4. ASSUME NEW c \in Calls, Continue(c) \/ StatementFails(c) \/ Throws(c)
      PROVE  Typed'
  BY <1>4, WritingTyped, CuttingTyped, VerifyingTyped, ThrowsTyped DEF Continue
<1> QED
  BY <1>1, <1>2, <1>3, <1>4 DEF Next

LEMMA TypedInvariant == Spec => []Typed
BY InitTyped, NextTyped, PTL DEF Spec

\* Every write, cleanup and verification keeps its variables within their types.
THEOREM TypeCorrect == Spec => []TypeOK
<1>1. Typed => TypeOK
  BY DEF Typed
<1> QED
  BY <1>1, TypedInvariant, PTL

(***************************************************************************)
(* The chain.  As long as no writer was late, every row has its place as   *)
(* its number and the table is a suffix of the history.  A writer holds a  *)
(* number that follows a row of the history: with that row's successor     *)
(* present the index refuses it, with the successor deleted it is late, so *)
(* only the next place is left.  A cleanup holds a prefix that has         *)
(* expired, before a checkpoint that names it.                             *)
(***************************************************************************)

Places == 1..Len(rows)
Numbered == \A i \in Places : SeqOf(i) = i /\ rows[i].prev = i - 1
Upward == \A i \in table : \A j \in Places : i < j => j \in table
Rooted == table = {} => Len(rows) = 0
LetsGo(k, i) == rows[k].kind = "checkpoint" /\ rows[k].upto = i
Anchored == \A i \in table : (\A j \in table : i <= j) => i = 1 \/ \E k \in table : LetsGo(k, i - 1)

Cutting(k) == k.pc = "delete" \/ (k.pc \in Writing /\ k.row.kind = "checkpoint")
NumberHeld(k) == k.pc = "append" => k.row.seq = k.row.prev + 1 /\ k.row.prev \in 0..Len(rows)
PrefixHeld(k) ==
  Cutting(k) => k.row.upto \in Places /\ \A i \in table : i <= k.row.upto => rows[i].stamp < k.cutoff
CheckpointHeld(k) == k.pc = "delete" => \E j \in Places : k.row.upto < j /\ LetsGo(j, k.row.upto)
Held(k) == NumberHeld(k) /\ PrefixHeld(k) /\ CheckpointHeld(k)

Chain == Numbered /\ Upward /\ Rooted /\ Anchored /\ \A c \in Calls : Held(call[c])
IInv == Typed /\ (~late => Chain)

LEMMA NothingHeld ==
  ASSUME NEW k, k.pc # "append", ~Cutting(k)
  PROVE  Held(k)
BY DEF Held, NumberHeld, PrefixHeld, CheckpointHeld, Cutting

\* A step that leaves the table alone.
LEMMA ChainKept ==
  ASSUME Chain, UNCHANGED store, \A d \in Calls : call'[d] = call[d] \/ Held(call'[d])
  PROVE  Chain'
<1>1. \A d \in Calls : Held(call'[d])
  BY DEF Chain
<1>2. rows' = rows /\ table' = table
  BY DEF store
<1>3. \A d \in Calls : Held(call[d])'
  BY <1>1, <1>2 DEF Held, NumberHeld, PrefixHeld, CheckpointHeld, Cutting, Places, LetsGo
<1>4. (Numbered /\ Upward /\ Rooted /\ Anchored)'
  BY <1>2 DEF Chain, Numbered, Upward, Rooted, Anchored, Places, SeqOf, LetsGo
<1> QED
  BY <1>3, <1>4 DEF Chain

\* The index leaves a writer that is not late only the next place.
LEMMA NextPlace ==
  ASSUME Typed, Chain, ~late', NEW c \in Calls, Inserted(c)
  PROVE  /\ call[c].row.prev = Len(rows) /\ call[c].row.seq = Len(rows) + 1
         /\ rows' = Append(rows, call[c].row) /\ table' = table \cup {Len(rows) + 1}
<1> DEFINE n == Len(rows)
           s == call[c].row.seq
<1>1. n \in Nat
  BY DEF Typed, TypeOK
<1>2. s = call[c].row.prev + 1 /\ call[c].row.prev \in 0..n
  BY DEF Chain, Held, NumberHeld, Inserted, At
<1>3. \A i \in 1..n : SeqOf(i) = i
  BY DEF Chain, Numbered, Places
<1>4. \A i \in table : SeqOf(i) # s
  BY DEF Inserted, Fits
<1>5. \A i \in (1..n) \ table : SeqOf(i) # s
  BY DEF Inserted
<1>6. s \notin 1..n
  BY <1>3, <1>4, <1>5
<1>7. s = n + 1 /\ call[c].row.prev = n
  BY <1>1, <1>2, <1>6
<1> QED
  BY <1>7 DEF Inserted

LEMMA InsertedChain ==
  ASSUME Typed, Chain, ~late', NEW c \in Calls, Inserted(c)
  PROVE  /\ (Numbered /\ Upward /\ Rooted /\ Anchored)'
         /\ \A k : Held(k) => Held(k)'
<1> DEFINE n == Len(rows)
           row == call[c].row
<1>1. /\ n \in Nat /\ table \subseteq 1..n /\ rows \in Seq(Row) /\ row \in Row
      /\ row.seq = n + 1 /\ row.prev = n
      /\ rows' = Append(rows, row) /\ table' = table \cup {n + 1}
  <2>1. row.seq = n + 1 /\ row.prev = n /\ rows' = Append(rows, row) /\ table' = table \cup {n + 1}
    BY NextPlace
  <2>2. table \subseteq 1..n /\ rows \in Seq(Row) /\ call[c] \in Call
    BY DEF Typed, TypeOK
  <2>3. row \in Row /\ n \in Nat
    BY <2>2 DEF Call
  <2> QED
    BY <2>1, <2>2, <2>3
<1>2. Len(rows') = n + 1 /\ rows'[n + 1] = row /\ \A i \in 1..n : rows'[i] = rows[i]
  BY <1>1
<1> HIDE DEF n, row
<1>3. Places' = 1..(n + 1) /\ Places = 1..n
  BY <1>2 DEF Places, n
<1>4. Numbered'
  <2>1. \A i \in 1..n : rows[i].seq = i /\ rows[i].prev = i - 1
    BY <1>3 DEF Chain, Numbered, SeqOf
  <2>2. \A i \in 1..(n + 1) : rows'[i].seq = i /\ rows'[i].prev = i - 1
    BY <1>1, <1>2, <2>1
  <2> QED
    BY <1>3, <2>2 DEF Numbered, SeqOf
<1>5. Upward'
  <2>1. \A i \in table : \A j \in 1..n : i < j => j \in table
    BY <1>3 DEF Chain, Upward
  <2>2. \A i \in table' : \A j \in 1..(n + 1) : i < j => j \in table'
    BY <1>1, <2>1
  <2> QED
    BY <1>3, <2>2 DEF Upward
<1>6. Rooted'
  BY <1>1 DEF Rooted
<1>7. Anchored'
  <2> SUFFICES ASSUME NEW i \in table', \A j \in table' : i <= j
               PROVE  i = 1 \/ \E k \in table' : LetsGo(k, i - 1)'
    BY DEF Anchored, LetsGo
  <2>1. CASE table = {}
    BY <1>1, <2>1 DEF Chain, Rooted, n
  <2>2. CASE table # {}
    <3>0. PICK j \in table : TRUE
      BY <2>2
    <3>1. i \in table /\ \A h \in table : i <= h
      <4>1. j \in 1..n /\ i <= j
        BY <1>1, <3>0
      <4> QED
        BY <1>1, <4>1
    <3>2. i = 1 \/ \E k \in table : LetsGo(k, i - 1)
      BY <3>1 DEF Chain, Anchored
    <3> QED
      BY <1>1, <1>2, <3>2 DEF LetsGo
  <2> QED
    BY <2>1, <2>2
<1>8. ASSUME NEW k, Held(k)
      PROVE  Held(k)'
  <2>1. NumberHeld(k)'
    BY <1>1, <1>2, <1>8 DEF Held, NumberHeld, n
  <2>2. PrefixHeld(k)'
    <3> SUFFICES ASSUME Cutting(k)
                 PROVE  k.row.upto \in Places' /\ \A i \in table' : i <= k.row.upto => rows'[i].stamp < k.cutoff
      BY DEF PrefixHeld, Cutting
    <3>1. k.row.upto \in 1..n /\ \A i \in table : i <= k.row.upto => rows[i].stamp < k.cutoff
      BY <1>3, <1>8 DEF Held, PrefixHeld
    <3> QED
      BY <1>1, <1>2, <1>3, <3>1
  <2>3. CheckpointHeld(k)'
    <3> SUFFICES ASSUME k.pc = "delete"
                 PROVE  \E j \in Places' : k.row.upto < j /\ LetsGo(j, k.row.upto)'
      BY DEF CheckpointHeld, LetsGo
    <3>1. PICK j \in 1..n : k.row.upto < j /\ LetsGo(j, k.row.upto)
      BY <1>3, <1>8 DEF Held, CheckpointHeld
    <3> QED
      BY <1>1, <1>2, <1>3, <3>1 DEF LetsGo
  <2> QED
    BY <2>1, <2>2, <2>3 DEF Held
<1> QED
  BY <1>4, <1>5, <1>6, <1>7, <1>8

\* The part of a step that moves call c to locals k.
LEMMA CallMoves ==
  ASSUME Typed, Chain, UNCHANGED store, NEW c \in Calls, NEW k, call' = [call EXCEPT ![c] = k], Held(k)
  PROVE  Chain'
<1>1. \A d \in Calls : call'[d] = call[d] \/ Held(call'[d])
  BY DEF Typed, TypeOK
<1> QED
  BY <1>1, ChainKept

LEMMA IdleHoldsNothing == Held(Idle)
BY NothingHeld DEF Idle, Cutting, Writing

LEMMA ReturnKeepsChain ==
  ASSUME Typed, Chain, UNCHANGED store, NEW c \in Calls, Return(c)
  PROVE  Chain'
BY CallMoves, IdleHoldsNothing DEF Return

LEMMA GoKeepsChain ==
  ASSUME Typed, Chain, UNCHANGED store, NEW c \in Calls,
         NEW pc \in {"event", "page", "first"}, Go(c, pc)
  PROVE  Chain'
<1> DEFINE k == [call[c] EXCEPT !.pc = pc]
<1>1. k.pc = pc
  BY DEF Typed, TypeOK, Call
<1>2. k.pc # "append" /\ ~Cutting(k)
  BY <1>1 DEF Cutting, Writing
<1>3. call' = [call EXCEPT ![c] = k]
  BY DEF Go
<1> HIDE DEF k
<1> QED
  BY <1>2, <1>3, NothingHeld, CallMoves

LEMMA ReadHeadKeepsChain ==
  ASSUME Typed, Chain, NEW c \in Calls, ReadHead(c)
  PROVE  Chain'
<1> DEFINE k == call[c]
           n == Len(rows)
<1>1. k \in Call /\ k.row \in Row /\ k.pc = "head" /\ UNCHANGED store /\ n \in Nat
  <2>1. k \in Call /\ n \in Nat
    BY DEF Typed, TypeOK
  <2> QED
    BY <2>1 DEF Call, ReadHead, At
<1>2. PICK i \in 0..n :
        call' = [call EXCEPT ![c].pc = "append", ![c].row.seq = i + 1, ![c].row.prev = i]
  <2>1. CASE call' = [call EXCEPT ![c].pc = "append", ![c].row.seq = 1, ![c].row.prev = 0]
    <3>1. 0 \in 0..n /\ 0 + 1 = 1
      BY <1>1
    <3> QED
      BY <2>1, <3>1
  <2>2. ASSUME NEW i \in table
        PROVE  i \in 0..n /\ SeqOf(i) = i
    BY <1>1 DEF Typed, TypeOK, Chain, Numbered, Places
  <2> HIDE DEF n
  <2>3. ASSUME NEW i \in table,
               call' = [call EXCEPT ![c].pc = "append", ![c].row.seq = SeqOf(i) + 1, ![c].row.prev = i]
        PROVE  \E j \in 0..n :
                 call' = [call EXCEPT ![c].pc = "append", ![c].row.seq = j + 1, ![c].row.prev = j]
    BY <2>2, <2>3
  <2> QED
    BY <2>1, <2>3 DEF ReadHead
<1> DEFINE h == [k EXCEPT !.pc = "append", !.row.seq = i + 1, !.row.prev = i]
<1>3. /\ h.pc = "append" /\ h.cutoff = k.cutoff
      /\ h.row.seq = i + 1 /\ h.row.prev = i /\ h.row.upto = k.row.upto /\ h.row.kind = k.row.kind
  BY <1>1 DEF Call, Row
<1>4. call' = [call EXCEPT ![c] = h]
  BY <1>2
<1> HIDE DEF h
<1>5. NumberHeld(h) /\ CheckpointHeld(h)
  BY <1>3 DEF NumberHeld, CheckpointHeld
<1>6. PrefixHeld(h)
  <2>1. Held(k)
    BY DEF Chain
  <2> QED
    BY <1>1, <1>3, <2>1 DEF Held, PrefixHeld, Cutting, Writing
<1> QED
  BY <1>1, <1>4, <1>5, <1>6, CallMoves DEF Held

\* What a call holds is what its locals hold.
LEMMA HeldByCall ==
  ASSUME NEW c \in Calls, NEW h, call'[c] = h, Held(h)'
  PROVE  Held(call[c])'
BY DEF Held, NumberHeld, PrefixHeld, CheckpointHeld, Cutting, Places, LetsGo

LEMMA AppendKeepsChain ==
  ASSUME Typed, Chain, ~late', NEW c \in Calls, AppendRow(c)
  PROVE  Chain'
<1> DEFINE n == Len(rows)
<1>0. PICK k : k = call[c]
  OBVIOUS
<1>1. k \in Call /\ k.row \in Row /\ k.pc = "append" /\ Inserted(c) /\ n \in Nat /\ Held(k)
  <2>1. k \in Call /\ Held(k) /\ n \in Nat
    BY <1>0 DEF Typed, TypeOK, Chain
  <2> QED
    BY <1>0, <2>1 DEF AppendRow, Inserted, At, Call
<1>2. (Numbered /\ Upward /\ Rooted /\ Anchored)' /\ \A h : Held(h) => Held(h)'
  BY <1>1, InsertedChain
<1>3. ASSUME NEW d \in Calls, d # c
      PROVE  Held(call[d])'
  <2>1. PICK h : h = call[d]
    OBVIOUS
  <2>2. call'[d] = h
    BY <1>3, <2>1 DEF AppendRow, AfterAppend, Return, Go, Typed, TypeOK, Call, Row, Kinds
  <2>3. Held(h)
    BY <2>1 DEF Chain
  <2>4. Held(h)'
    BY <1>2, <2>3
  <2> QED
    BY <2>2, <2>4, HeldByCall
<1>4. Held(call[c])'
  <2>0. PICK h : h = call'[c]
    OBVIOUS
  <2>1. CASE Return(c)
    <3>1. h = Idle
      BY <2>0, <2>1 DEF Return, Typed, TypeOK
    <3>2. Held(h)
      BY <3>1, IdleHoldsNothing
    <3>3. Held(h)'
      BY <1>2, <3>2
    <3> QED
      BY <2>0, <3>3, HeldByCall
  <2>2. CASE Go(c, "event")
    <3>1. h.pc = "event"
      BY <1>0, <1>1, <2>0, <2>2 DEF Go, Typed, TypeOK, Call
    <3>2. Held(h)
      BY <3>1, NothingHeld DEF Cutting, Writing
    <3>3. Held(h)'
      BY <1>2, <3>2
    <3> QED
      BY <2>0, <3>3, HeldByCall
  <2>3. CASE k.row.kind = "checkpoint" /\ Go(c, "delete")
    <3>1. h.pc = "delete" /\ h.row = k.row /\ h.cutoff = k.cutoff
      BY <1>0, <1>1, <2>0, <2>3 DEF Go, Typed, TypeOK, Call
    <3>2. Held(k)'
      BY <1>1, <1>2
    <3>3. (NumberHeld(h) /\ PrefixHeld(h))'
      BY <1>1, <2>3, <3>1, <3>2 DEF Held, NumberHeld, PrefixHeld, Cutting, Writing
    <3>4. CheckpointHeld(h)'
      <4>1. rows' = Append(rows, k.row) /\ rows \in Seq(Row)
        BY <1>0, <1>1, NextPlace DEF Typed, TypeOK
      <4>2. n + 1 \in 1..Len(rows') /\ rows'[n + 1] = k.row
        BY <1>1, <4>1
      <4>3. k.row.upto \in 1..n
        BY <1>1, <2>3 DEF Held, PrefixHeld, Cutting, Writing, Places
      <4>4. k.row.upto < n + 1
        BY <1>1, <4>3
      <4> HIDE DEF n
      <4> QED
        BY <2>3, <3>1, <4>2, <4>4 DEF CheckpointHeld, LetsGo, Places
    <3>5. Held(h)'
      BY <3>3, <3>4 DEF Held
    <3> QED
      BY <2>0, <3>5, HeldByCall
  <2> QED
    BY <1>0, <1>1, <2>1, <2>2, <2>3 DEF AppendRow, AfterAppend, Row, Kinds
<1>5. \A d \in Calls : Held(call[d])'
  BY <1>3, <1>4
<1> QED
  BY <1>2, <1>5 DEF Chain

LEMMA RefusedKeepsChain ==
  ASSUME Typed, Chain, NEW c \in Calls, AppendRefused(c)
  PROVE  Chain'
<1> DEFINE k == call[c]
           h == [k EXCEPT !.pc = "head", !.attempts = k.attempts + 1]
<1>1. k \in Call /\ k.pc = "append" /\ Held(k) /\ UNCHANGED store
  BY DEF Typed, TypeOK, Chain, AppendRefused, At
<1>2. h.pc = "head" /\ h.row = k.row /\ h.cutoff = k.cutoff
  BY <1>1 DEF Call
<1>3. call' = [call EXCEPT ![c] = h]
  BY DEF AppendRefused
<1> HIDE DEF h
<1>4. Held(h)
  BY <1>1, <1>2 DEF Held, NumberHeld, PrefixHeld, CheckpointHeld, Cutting, Writing
<1> QED
  BY <1>1, <1>3, <1>4, CallMoves

LEMMA FailureHoldsNothing ==
  ASSUME Typed, NEW c \in Calls, call[c].pc \in Writing, WriteFails(c)
  PROVE  \A d \in Calls : call'[d] = call[d] \/ (d = c /\ call'[d].pc # "append" /\ ~Cutting(call'[d]))
<1>1. call[c] \in Call /\ call \in [Calls -> Call]
  BY DEF Typed, TypeOK
<1>2. CASE Return(c)
  BY <1>1, <1>2 DEF Return, Idle, Cutting, Writing
<1>3. CASE Go(c, "event")
  <2>1. call'[c].pc = "event"
    BY <1>1, <1>3 DEF Go, Call
  <2> QED
    BY <1>1, <1>3, <2>1 DEF Go, Cutting, Writing
<1> QED
  BY <1>2, <1>3 DEF WriteFails

LEMMA FailuresKeepChain ==
  ASSUME Typed, Chain, ~late', NEW c \in Calls, GiveUp(c) \/ StatementFails(c)
  PROVE  Chain'
<1>1. WriteFails(c) /\ call[c].pc \in Writing
  BY DEF GiveUp, StatementFails, Inserted, At, Writing
<1>2. \A d \in Calls : call'[d] = call[d] \/ Held(call'[d])
  BY <1>1, FailureHoldsNothing, NothingHeld
<1>3. CASE UNCHANGED store
  BY <1>2, <1>3, ChainKept
<1>4. CASE Inserted(c)
  <2>1. (Numbered /\ Upward /\ Rooted /\ Anchored)' /\ \A h : Held(h) => Held(h)'
    BY <1>4, InsertedChain
  <2>2. ASSUME NEW d \in Calls
        PROVE  Held(call[d])'
    <3>1. PICK h : h = call'[d]
      OBVIOUS
    <3>2. Held(h)
      BY <1>2, <3>1 DEF Chain
    <3>3. Held(h)'
      BY <2>1, <3>2
    <3> QED
      BY <3>1, <3>3, HeldByCall
  <2> QED
    BY <2>1, <2>2 DEF Chain
<1> QED
  BY <1>3, <1>4 DEF GiveUp, StatementFails

LEMMA RecordKeepsChain ==
  ASSUME Typed, Chain, NEW c \in Calls, RecordEvent(c) \/ \E p \in Processes : Record(c, p)
  PROVE  Chain'
<1>1. call[c] \in Call /\ call \in [Calls -> Call]
  BY DEF Typed, TypeOK
<1>2. call'[c].pc = "head" /\ call'[c].row.kind # "checkpoint"
  <2>1. \A n : [Stamped("gap") EXCEPT !.missed = n].kind = "gap" /\ Stamped("event").kind = "event"
    BY DEF Stamped, NoRow
  <2>2. CASE RecordEvent(c)
    BY <1>1, <2>1, <2>2 DEF RecordEvent, Call
  <2>3. ASSUME NEW p \in Processes, Record(c, p)
        PROVE  call'[c].pc = "head" /\ call'[c].row.kind # "checkpoint"
    <3>1. CASE pending[p] = 0
      BY <1>1, <2>1, <2>3, <3>1 DEF Record, Call
    <3>2. CASE pending[p] # 0
      BY <1>1, <2>1, <2>3, <3>2 DEF Record, Call
    <3> QED
      BY <3>1, <3>2
  <2> QED
    BY <2>2, <2>3
<1>3. Held(call'[c])
  BY <1>2, NothingHeld DEF Cutting
<1>4. UNCHANGED store /\ \A d \in Calls : call'[d] = call[d] \/ Held(call'[d])
  BY <1>1, <1>3 DEF RecordEvent, Record
<1> QED
  BY <1>4, ChainKept

\* The prefix that a cleanup takes has expired.
LEMMA ListKeepsChain ==
  ASSUME Typed, Chain, NEW c \in Calls, ListExpired(c)
  PROVE  Chain'
<1> DEFINE k == call[c]
<1>1. k \in Call /\ k.pc = "list" /\ UNCHANGED store /\ clock \in Nat
  BY BoundAssumption DEF Typed, TypeOK, ListExpired, At
<1>2. CASE Return(c)
  BY <1>1, <1>2, ReturnKeepsChain
<1>3. ASSUME NEW last \in Expired(k.cutoff),
             call' = [call EXCEPT ![c].pc = "head",
                        ![c].row = [Stamped("checkpoint") EXCEPT !.upto = last]]
      PROVE  Chain'
  <2> DEFINE row == [Stamped("checkpoint") EXCEPT !.upto = last]
             h == [k EXCEPT !.pc = "head", !.row = row]
  <2>1. row.upto = last
    BY DEF Stamped, NoRow
  <2> HIDE DEF row
  <2>2. h.pc = "head" /\ h.row = row /\ h.cutoff = k.cutoff
    BY <1>1 DEF Call
  <2>3. call' = [call EXCEPT ![c] = h]
    BY <1>3 DEF row
  <2> HIDE DEF h
  <2>4. last \in Places /\ \A i \in table : i <= last => rows[i].stamp < k.cutoff
    <3>1. \A i \in table : i \in Places /\ SeqOf(i) = i
      BY DEF Typed, TypeOK, Places, Chain, Numbered
    <3>2. last \in table /\ \A i \in table : SeqOf(i) <= SeqOf(last) => rows[i].stamp < k.cutoff
      BY DEF Expired
    <3> QED
      BY <3>1, <3>2
  <2>5. Held(h)
    BY <2>1, <2>2, <2>4 DEF Held, NumberHeld, PrefixHeld, CheckpointHeld
  <2> QED
    BY <1>1, <2>3, <2>5, CallMoves
<1> QED
  BY <1>2, <1>3 DEF ListExpired

\* A cut leaves a suffix that begins where the checkpoint says.
LEMMA DeleteKeepsChain ==
  ASSUME Typed, Chain, NEW c \in Calls, Delete(c)
  PROVE  Chain'
<1> DEFINE last == call[c].row.upto
           n == Len(rows)
<1>1. /\ n \in Nat /\ table \subseteq 1..n /\ rows' = rows
      /\ Places = 1..n /\ Places' = 1..n
  BY DEF Typed, TypeOK, Delete, Places
<1>2. Held(call[c]) /\ call[c].pc = "delete"
  BY DEF Chain, Delete, At
<1>3. last \in 1..n
  BY <1>1, <1>2 DEF Held, PrefixHeld, Cutting
<1>4. table' = {i \in table : i > last}
  BY <1>1, <1>3 DEF Delete, Chain, Numbered
<1>5. PICK k \in 1..n : last < k /\ LetsGo(k, last)
  BY <1>1, <1>2 DEF Held, CheckpointHeld
<1> HIDE DEF last, n
<1>6. \A i \in table : \A j \in 1..n : i < j => j \in table
  BY <1>1 DEF Chain, Upward
<1>7. table' = table \/ (k \in table' /\ last + 1 \in table')
  <2>0. \A i \in table : i \in Nat /\ last \in Nat
    BY <1>1, <1>3
  <2>1. CASE \A i \in table : i > last
    BY <1>4, <2>1
  <2>2. ASSUME NEW i \in table, ~(i > last)
        PROVE  k \in table' /\ last + 1 \in table'
    <3>1. i < k /\ i < last + 1 /\ last + 1 \in 1..n
      BY <1>1, <1>3, <1>5, <2>0, <2>2
    <3> QED
      BY <1>3, <1>4, <1>5, <1>6, <3>1
  <2> QED
    BY <2>1, <2>2
<1>8. Numbered'
  BY <1>1 DEF Chain, Numbered, SeqOf
<1>9. Upward'
  <2>1. \A i \in table' : \A j \in 1..n : i < j => j \in table'
    BY <1>1, <1>3, <1>4, <1>6
  <2> QED
    BY <1>1, <2>1 DEF Upward
<1>10. Rooted'
  BY <1>1, <1>7 DEF Chain, Rooted
<1>11. Anchored'
  <2>1. CASE table' = table
    <3>1. Anchored
      BY DEF Chain
    <3> QED
      BY <1>1, <2>1, <3>1 DEF Anchored, LetsGo
  <2>2. CASE k \in table' /\ last + 1 \in table'
    <3> SUFFICES ASSUME NEW i \in table', \A j \in table' : i <= j
                 PROVE  \E h \in table' : LetsGo(h, i - 1)'
      BY DEF Anchored, LetsGo
    <3>1. i = last + 1
      BY <1>1, <1>3, <1>4, <2>2
    <3>2. i - 1 = last
      BY <1>3, <3>1
    <3>3. LetsGo(k, i - 1)'
      BY <1>1, <1>5, <3>2 DEF LetsGo
    <3> QED
      BY <2>2, <3>3
  <2> QED
    BY <1>7, <2>1, <2>2
<1>12. ASSUME NEW d \in Calls
       PROVE  Held(call[d])'
  <2>1. PICK h : h = call'[d]
    OBVIOUS
  <2>2. Held(h)
    <3>1. CASE d = c
      BY <2>1, <3>1, IdleHoldsNothing DEF Delete
    <3>2. CASE d # c
      <4>1. h.pc = call[d].pc /\ h.row = call[d].row /\ h.cutoff = call[d].cutoff
        BY <2>1, <3>2 DEF Delete, Typed, TypeOK, Call
      <4>2. Held(call[d])
        BY DEF Chain
      <4> QED
        BY <4>1, <4>2 DEF Held, NumberHeld, PrefixHeld, CheckpointHeld, Cutting
    <3> QED
      BY <3>1, <3>2
  <2>3. Held(h)'
    BY <1>1, <1>4, <2>2 DEF Held, NumberHeld, PrefixHeld, CheckpointHeld, Cutting, LetsGo
  <2> QED
    BY <2>1, <2>3, HeldByCall
<1> QED
  BY <1>8, <1>9, <1>10, <1>11, <1>12 DEF Chain

\* A verification or the beginning of a cleanup moves its own locals only.
LEMMA VerifyingLocals ==
  ASSUME Typed, NEW c \in Calls,
         \/ ReadStop(c) \/ ReadPred(c) \/ ReadFirst(c) \/ ReadAnchors(c) \/ ReadPage(c)
         \/ Throws(c) \/ \E p \in Processes : NewCall(c, p) /\ ~Record(c, p)
  PROVE  /\ UNCHANGED store /\ \A d \in Calls : d # c => call'[d] = call[d]
         /\ call'[c].pc \in {"idle", "list"} \cup Verifying
<1>1. call[c] \in Call /\ call \in [Calls -> Call]
  BY DEF Typed, TypeOK
<1>2. UNCHANGED store /\ \A d \in Calls : d # c => call'[d] = call[d]
  BY <1>1 DEF ReadStop, ReadPred, ReadFirst, ReadAnchors, ReadPage, Alarm, Throws, NewCall, Verify, Cleanup,
              Go, Return
<1>3. call'[c].pc \in {"idle", "list"} \cup Verifying
  <2>1. CASE ReadStop(c) \/ ReadFirst(c) \/ ReadPred(c) \/ ReadAnchors(c)
    <3>1. CASE ReadStop(c)
      BY <1>1, <3>1 DEF ReadStop, Go, Return, Idle, Verifying, Call
    <3>2. CASE ReadFirst(c)
      BY <1>1, <3>2 DEF ReadFirst, Alarm, Go, Return, Idle, Verifying, Call
    <3>3. CASE ReadPred(c)
      BY <1>1, <3>3 DEF ReadPred, Alarm, Go, Return, Idle, Verifying, Call
    <3>4. CASE ReadAnchors(c)
      BY <1>1, <3>4 DEF ReadAnchors, Alarm, Go, Return, Idle, Verifying, Call
    <3> QED
      BY <2>1, <3>1, <3>2, <3>3, <3>4
  <2>2. CASE ReadPage(c)
    <3>1. Return(c) \/ \E seq, last : call' = [call EXCEPT ![c].seq = seq, ![c].last = last]
      BY <2>2 DEF ReadPage, Alarm
    <3>2. CASE Return(c)
      BY <1>1, <3>2 DEF Return, Idle
    <3>3. ASSUME NEW seq, NEW last, call' = [call EXCEPT ![c].seq = seq, ![c].last = last]
          PROVE  call'[c].pc = "page"
      BY <1>1, <2>2, <3>3 DEF ReadPage, At, Call
    <3> QED
      BY <3>1, <3>2, <3>3 DEF Verifying
  <2>3. CASE Throws(c)
    BY <1>1, <2>3 DEF Throws, Return, Idle
  <2>4. ASSUME NEW p \in Processes, Verify(c, p) \/ \E cutoff \in 1..clock : Cleanup(c, p, cutoff)
        PROVE  call'[c].pc \in {"idle", "list"} \cup Verifying
    <3>1. CASE Verify(c, p)
      BY <1>1, <3>1 DEF Verify, Idle, Verifying, Call
    <3>2. ASSUME NEW cutoff \in 1..clock, Cleanup(c, p, cutoff)
          PROVE  call'[c].pc = "list"
      BY <1>1, <3>2 DEF Cleanup, Call
    <3> QED
      BY <2>4, <3>1, <3>2
  <2> QED
    BY <2>1, <2>2, <2>3, <2>4 DEF NewCall
<1> QED
  BY <1>2, <1>3

LEMMA VerifyingKeepsChain ==
  ASSUME Typed, Chain, NEW c \in Calls,
         \/ ReadStop(c) \/ ReadPred(c) \/ ReadFirst(c) \/ ReadAnchors(c) \/ ReadPage(c)
         \/ Throws(c) \/ \E p \in Processes : NewCall(c, p) /\ ~Record(c, p)
  PROVE  Chain'
<1>1. Held(call'[c])
  BY VerifyingLocals, NothingHeld DEF Verifying, Cutting, Writing
<1> QED
  BY <1>1, VerifyingLocals, ChainKept

LEMMA CrashKeepsChain ==
  ASSUME Typed, Chain, Tick \/ \E p \in Processes : RecordFails(p) \/ Crash(p)
  PROVE  Chain'
<1>1. UNCHANGED store /\ \A d \in Calls : call'[d] = call[d] \/ call'[d] = Idle
  BY DEF Tick, RecordFails, Crash
<1> QED
  BY <1>1, ChainKept, IdleHoldsNothing

\* No step forgets that a row came late, and only a cut takes rows away.
LEMMA InsertedAdds ==
  ASSUME NEW c \in Calls, Inserted(c)
  PROVE  (late => late') /\ table \subseteq table'
BY DEF Inserted

LEMMA ContinueAdds ==
  ASSUME NEW c \in Calls, Continue(c)
  PROVE  (late => late') /\ (table \subseteq table' \/ Delete(c))
<1>1. CASE ReadHead(c)
  BY <1>1 DEF ReadHead, store, history
<1>2. CASE AppendRow(c)
  BY <1>2, InsertedAdds DEF AppendRow
<1>3. CASE AppendRefused(c)
  BY <1>3 DEF AppendRefused, store, history
<1>4. CASE GiveUp(c)
  BY <1>4 DEF GiveUp, store
<1>5. CASE RecordEvent(c)
  BY <1>5 DEF RecordEvent, store, history
<1>6. CASE ListExpired(c)
  BY <1>6 DEF ListExpired, store, history
<1>7. CASE Delete(c)
  BY <1>7 DEF Delete, history
<1>8. CASE ReadStop(c)
  BY SMTT(60), <1>8 DEF ReadStop, store, history
<1>9. CASE ReadPred(c)
  BY <1>9 DEF ReadPred, store, history
<1>10. CASE ReadFirst(c)
  BY <1>10 DEF ReadFirst, store, history
<1>11. CASE ReadAnchors(c)
  BY <1>11 DEF ReadAnchors, store
<1>12. CASE ReadPage(c)
  BY <1>12 DEF ReadPage, store
<1> QED
  BY <1>1, <1>2, <1>3, <1>4, <1>5, <1>6, <1>7, <1>8, <1>9, <1>10, <1>11, <1>12 DEF Continue

LEMMA NewCallAdds ==
  ASSUME NEW c \in Calls, NEW p \in Processes, NewCall(c, p)
  PROVE  (late => late') /\ table \subseteq table'
<1>1. CASE Record(c, p)
  BY <1>1 DEF Record, store, history
<1>2. CASE Verify(c, p)
  BY <1>2 DEF Verify, store, history
<1>3. ASSUME NEW cutoff \in 1..clock, Cleanup(c, p, cutoff)
      PROVE  (late => late') /\ table \subseteq table'
  BY <1>3 DEF Cleanup, store, history
<1> QED
  BY <1>1, <1>2, <1>3 DEF NewCall

LEMMA FaultAdds ==
  ASSUME \/ Tick
         \/ \E p \in Processes : RecordFails(p) \/ Crash(p)
         \/ \E c \in Calls : StatementFails(c) \/ Throws(c)
  PROVE  (late => late') /\ table \subseteq table'
<1>1. CASE Tick
  BY <1>1 DEF Tick, store, history
<1>2. ASSUME NEW p \in Processes, RecordFails(p)
      PROVE  (late => late') /\ table \subseteq table'
  BY <1>2 DEF RecordFails, store
<1>3. ASSUME NEW p \in Processes, Crash(p)
      PROVE  (late => late') /\ table \subseteq table'
  BY <1>3 DEF Crash, store
<1>4. ASSUME NEW c \in Calls, StatementFails(c)
      PROVE  (late => late') /\ table \subseteq table'
  <2>1. Inserted(c) \/ UNCHANGED <<store, late>>
    BY <1>4 DEF StatementFails
  <2> QED
    BY <2>1, InsertedAdds DEF store
<1>5. ASSUME NEW c \in Calls, Throws(c)
      PROVE  (late => late') /\ table \subseteq table'
  BY <1>5 DEF Throws, store, history
<1> QED
  BY <1>1, <1>2, <1>3, <1>4, <1>5

LEMMA NextAdds ==
  ASSUME Next
  PROVE  (late => late') /\ (table \subseteq table' \/ \E c \in Calls : Delete(c))
BY ContinueAdds, NewCallAdds, FaultAdds DEF Next

LEMMA ChainInvariant == Spec => []IInv
<1>1. Init => IInv
  <2> SUFFICES ASSUME Init PROVE Typed /\ Chain
    BY DEF IInv
  <2>1. Typed
    BY InitTyped
  <2>2. Len(rows) = 0 /\ table = {}
    BY DEF Init
  <2>3. \A c \in Calls : Held(call[c])
    BY IdleHoldsNothing DEF Init
  <2> QED
    BY <2>1, <2>2, <2>3 DEF Chain, Numbered, Upward, Rooted, Anchored, Places
<1>2. IInv /\ [Next]_vars => IInv'
  <2> SUFFICES ASSUME Typed, [Next]_vars, ~late => Chain, ~late'
               PROVE  Chain'
    BY NextTyped DEF IInv
  <2>1. CASE UNCHANGED vars
    <3>1. Chain
      BY <2>1 DEF vars, history
    <3> QED
      BY <2>1, <3>1, ChainKept DEF vars
  <2>2. CASE Next
    <3>1. Chain
      BY SMTT(60), <2>2, NextAdds
    <3>2. CASE Tick \/ \E p \in Processes : RecordFails(p) \/ Crash(p)
      BY <3>1, <3>2, CrashKeepsChain
    <3>3. ASSUME NEW c \in Calls, NEW p \in Processes, NewCall(c, p)
          PROVE  Chain'
      BY <3>1, <3>3, RecordKeepsChain, VerifyingKeepsChain
    <3>4. ASSUME NEW c \in Calls, Continue(c) \/ StatementFails(c) \/ Throws(c)
          PROVE  Chain'
      BY <3>1, <3>4, ReadHeadKeepsChain, AppendKeepsChain, RefusedKeepsChain, FailuresKeepChain, RecordKeepsChain,
         ListKeepsChain, DeleteKeepsChain, VerifyingKeepsChain DEF Continue
    <3> QED
      BY <2>2, <3>2, <3>3, <3>4 DEF Next
  <2> QED
    BY <2>1, <2>2
<1> QED
  BY <1>1, <1>2, PTL DEF Spec

LEMMA ChainIsOne == IInv => OneChain
<1> SUFFICES ASSUME Typed, Chain
             PROVE  /\ \A i, j \in table : i # j => SeqOf(i) # SeqOf(j)
                    /\ Linked(table, 0)
                    /\ \A i \in table : Lowest(i, table) =>
                         SeqOf(i) = 1 \/ \E k \in Anchors(SeqOf(i)) : rows[k].upto = rows[i].prev
  BY DEF IInv, OneChain
<1>1. /\ \A i \in table : i \in Places /\ i \in Nat
      /\ \A i \in Places : i \in Nat /\ SeqOf(i) = i /\ rows[i].prev = i - 1
  BY DEF Typed, TypeOK, Chain, Numbered, Places
<1>2. \A i, j \in table : i # j => SeqOf(i) # SeqOf(j)
  BY <1>1
<1>3. Linked(table, 0)
  <2> SUFFICES ASSUME NEW i \in table, NEW j \in table, j < i,
                      \A h \in table : h < i => h <= j
               PROVE  i = j + 1
    BY <1>1 DEF Linked, Follows, Highest
  <2>1. j + 1 \in Places
    BY <1>1 DEF Places, Typed, TypeOK
  <2>2. j + 1 \in table
    BY <1>1, <2>1 DEF Chain, Upward
  <2> QED
    BY <1>1, <2>2
<1>4. ASSUME NEW i \in table, Lowest(i, table)
      PROVE  SeqOf(i) = 1 \/ \E k \in Anchors(SeqOf(i)) : rows[k].upto = rows[i].prev
  <2>1. \A j \in table : i <= j
    BY <1>1, <1>4 DEF Lowest
  <2>2. CASE i = 1
    BY <1>1, <2>2
  <2>3. ASSUME NEW k \in table, LetsGo(k, i - 1), i # 1
        PROVE  \E h \in Anchors(SeqOf(i)) : rows[h].upto = rows[i].prev
    <3>1. i - 1 \in Places
      BY <1>1, <2>3 DEF Places
    <3>2. SeqOf(i - 1) + 1 = SeqOf(i) /\ rows[i].prev = i - 1
      BY <1>1, <3>1
    <3> QED
      BY <2>3, <3>2 DEF Anchors, LetsGo
  <2> QED
    BY <2>1, <2>2, <2>3 DEF Chain, Anchored
<1> QED
  BY <1>2, <1>3, <1>4

\* However writers race and writes and cleanups are cut short, the rows kept
\* are one chain from the first row ever or from a checkpoint's cut, as long
\* as no writer slept on a head that has been deleted since.
THEOREM RowsAreOneChain == Spec => []OneChain
BY ChainInvariant, ChainIsOne, PTL

\* Retention deletes what had expired when its cleanup looked, and nothing else.
THEOREM YoungRowsStay == Spec => RetentionSparesYoung
<1>1. IInv /\ [Next]_vars =>
        [~late => \A i \in table \ table' : \E c \in Calls : At(c, "delete") /\ rows[i].stamp < call[c].cutoff]_vars
  <2> SUFFICES ASSUME Typed, Chain, [Next]_vars, NEW i \in table \ table'
               PROVE  \E c \in Calls : At(c, "delete") /\ rows[i].stamp < call[c].cutoff
    BY DEF IInv
  <2>1. PICK c \in Calls : Delete(c)
    <3>1. ~UNCHANGED vars /\ ~(table \subseteq table')
      BY DEF vars, store
    <3> QED
      BY <3>1, NextAdds
  <2>2. At(c, "delete") /\ Held(call[c])
    BY <2>1 DEF Delete, Chain
  <2>3. call[c].row.upto \in Places /\ \A j \in table : j <= call[c].row.upto => rows[j].stamp < call[c].cutoff
    BY <2>2 DEF At, Held, PrefixHeld, Cutting
  <2>4. i \in Places /\ \A j \in Places : SeqOf(j) = j
    BY DEF Typed, TypeOK, Chain, Numbered, Places
  <2>5. ~(i > call[c].row.upto)
    BY <2>1, <2>3, <2>4 DEF Delete
  <2> QED
    BY <2>2, <2>3, <2>4, <2>5 DEF Places
<1> QED
  BY <1>1, ChainInvariant, PTL DEF Spec, RetentionSparesYoung


(***************************************************************************)
(* No false alarm.  A walk that saw no deletion starts at the lowest row   *)
(* of the table and stays on rows that follow each other: the first one is *)
(* anchored by a checkpoint, every page begins right behind the last row   *)
(* of the one before, and what others insert meanwhile comes behind the    *)
(* end of the chain.                                                       *)
(***************************************************************************)

\* A checkpoint lets go rows that there have been.
Uptos == \A i \in Places : rows[i].kind = "checkpoint" => rows[i].upto \in Places

OnTrack(k) ==
  /\ k.seq \in table
  /\ k.pc # "page" => k.last = 0 /\ \A j \in table : k.seq <= j
  /\ k.pc \in {"pred", "first", "anchor"} => k.seq > 1
  /\ k.pc # "stop" => k.stop \in table /\ k.seq <= k.stop
  /\ k.pc = "anchor" => k.row.prev = k.seq - 1
  /\ k.pc = "page" => k.last \in {0, k.seq - 1}
Walk(k) == k.pc \in Verifying /\ ~k.disturbed => OnTrack(k)

Walks == Uptos /\ "undisturbed" \notin alarms /\ \A c \in Calls : Walk(call[c])


\* What a proof about the numbers of rows needs.
LEMMA ChainNumbers ==
  ASSUME Typed, Chain
  PROVE  /\ Len(rows) \in Nat /\ table \subseteq Places
         /\ \A i \in Places : i \in Nat /\ i > 0 /\ SeqOf(i) = i /\ rows[i].prev = i - 1
BY DEF Typed, TypeOK, Chain, Numbered, Places

\* A step that leaves the table alone.
LEMMA WalksKept ==
  ASSUME Walks, UNCHANGED store, "undisturbed" \notin alarms',
         \A d \in Calls : call'[d] = call[d] \/ \A h : h = call'[d] => Walk(h)
  PROVE  Walks'
<1>1. rows' = rows /\ table' = table BY DEF store
<1>2. Uptos' BY <1>1 DEF Walks, Uptos, Places
<1>3. ASSUME NEW d \in Calls
      PROVE  Walk(call[d])'
  <2>1. PICK h : h = call'[d] OBVIOUS
  <2>2. Walk(h)
    <3>1. CASE h = call[d] BY <3>1 DEF Walks
    <3>2. CASE h # call[d] BY <2>1, <3>2
    <3> QED BY <3>1, <3>2
  <2> QED BY <1>1, <2>1, <2>2 DEF Walk, OnTrack
<1> QED BY <1>2, <1>3 DEF Walks

\* The part of a verification's step that moves it to locals k.
LEMMA WalkMoves ==
  ASSUME Typed, Walks, UNCHANGED store, "undisturbed" \notin alarms', NEW c \in Calls, NEW k,
         Walk(k), call' = [call EXCEPT ![c] = k]
  PROVE  Walks'
<1>1. \A d \in Calls : call'[d] = call[d] \/ call'[d] = k BY DEF Typed, TypeOK
<1>2. \A d \in Calls : call'[d] = call[d] \/ \A h : h = call'[d] => Walk(h) BY <1>1
<1> QED BY <1>2, WalksKept

LEMMA IdleWalks == ~(Idle.pc \in Verifying) /\ Walk(Idle)
BY DEF Idle, Verifying, Walk

\* A row that is inserted comes behind every walk.
LEMMA InsertedWalks ==
  ASSUME Typed, Chain, Walks, ~late', NEW c \in Calls, Inserted(c), UNCHANGED alarms,
         \A d \in Calls : call'[d] = call[d] \/ ~(call'[d].pc \in Verifying)
  PROVE  Walks'
<1>1. PICK n : n = Len(rows) OBVIOUS
<1>2. PICK r : r = call[c].row OBVIOUS
<1>3. n \in Nat /\ table \subseteq 1..n /\ Places = 1..n BY <1>1, ChainNumbers DEF Places
<1>4. rows' = Append(rows, r) /\ table' = table \cup {n + 1} BY <1>1, <1>2, NextPlace
<1>5. Places' = 1..(n + 1) /\ rows'[n + 1] = r /\ \A i \in 1..n : rows'[i] = rows[i]
  <2>1. rows \in Seq(Row) /\ call[c] \in Call BY DEF Typed, TypeOK
  <2>2. r \in Row BY <1>2, <2>1 DEF Call
  <2>3. Len(rows') = n + 1 /\ rows'[n + 1] = r /\ \A i \in 1..n : rows'[i] = rows[i]
    BY <1>1, <1>4, <2>1, <2>2
  <2> QED BY <2>3 DEF Places
<1>6. Uptos'
  <2>1. r.kind = "checkpoint" => r.upto \in 1..n
    <3>1. call[c].pc = "append" /\ Held(call[c]) BY DEF Inserted, At, Chain
    <3> QED BY <1>2, <1>3, <3>1 DEF Held, PrefixHeld, Cutting, Writing
  <2>2. \A i \in 1..n : rows[i].kind = "checkpoint" => rows[i].upto \in 1..n
    BY <1>3 DEF Walks, Uptos
  <2>3. \A i \in 1..(n + 1) : rows'[i].kind = "checkpoint" => rows'[i].upto \in 1..(n + 1)
    <3> TAKE i \in 1..(n + 1)
    <3>1. i \in 1..n \/ i = n + 1 BY <1>3
    <3>2. 1..n \subseteq 1..(n + 1) BY <1>3
    <3> QED BY <1>5, <2>1, <2>2, <3>1, <3>2
  <2> QED BY <1>5, <2>3 DEF Uptos
<1>7. ASSUME NEW d \in Calls
      PROVE  Walk(call[d])'
  <2>1. PICK h : h = call'[d] OBVIOUS
  <2>2. CASE ~(h.pc \in Verifying) BY <2>1, <2>2 DEF Walk
  <2>3. CASE h = call[d]
    <3>1. Walk(h) BY <2>3 DEF Walks
    <3>2. ASSUME OnTrack(h)
          PROVE  OnTrack(h)'
      <4>1. h.seq \in table BY <3>2 DEF OnTrack
      <4>2. h.seq \in 1..n BY <1>3, <4>1
      <4>3. h.seq <= n + 1 BY <1>3, <4>2
      <4> QED BY <1>4, <3>2, <4>1, <4>3 DEF OnTrack
    <3> QED BY <2>1, <3>1, <3>2 DEF Walk
  <2> QED BY <2>1, <2>2, <2>3
<1> QED BY <1>6, <1>7 DEF Walks

\* A deletion that takes rows away disturbs every walk under way.
LEMMA DeleteWalks ==
  ASSUME Typed, Walks, NEW c \in Calls, Delete(c)
  PROVE  Walks'
<1>1. rows' = rows /\ alarms' = alarms BY DEF Delete, history
<1>2. Uptos' BY <1>1 DEF Walks, Uptos, Places
<1>3. ASSUME NEW d \in Calls
      PROVE  Walk(call[d])'
  <2>1. PICK g, h : g = call[d] /\ h = call'[d] OBVIOUS
  <2>2. CASE d = c
    <3>1. h = Idle BY <2>1, <2>2 DEF Delete
    <3>2. ~(h.pc \in Verifying) BY <3>1, IdleWalks
    <3> QED BY <2>1, <3>2 DEF Walk
  <2>3. CASE d # c
    <3>1. h = [g EXCEPT !.disturbed = g.pc \in Verifying /\ (g.disturbed \/ table' # table)]
      BY <2>1, <2>3 DEF Delete
    <3>2. g \in Call /\ Walk(g) BY <2>1 DEF Typed, TypeOK, Walks
    <3>3. /\ h.pc = g.pc /\ h.seq = g.seq /\ h.last = g.last /\ h.stop = g.stop /\ h.row = g.row
          /\ h.disturbed = (g.pc \in Verifying /\ (g.disturbed \/ table' # table))
      BY <3>1, <3>2 DEF Call
    <3>4. CASE table' = table BY <2>1, <3>2, <3>3, <3>4 DEF Walk, OnTrack
    <3>5. CASE table' # table BY <2>1, <3>3, <3>5 DEF Walk
    <3> QED BY <3>4, <3>5
  <2> QED BY <2>2, <2>3
<1> QED BY <1>1, <1>2, <1>3 DEF Walks

\* A writer, a cleanup or a process that fails leaves no walk behind.
LEMMA WritersWalk ==
  ASSUME Typed, NEW c \in Calls,
         \/ ReadHead(c) \/ AppendRow(c) \/ AppendRefused(c) \/ GiveUp(c) \/ RecordEvent(c)
         \/ ListExpired(c) \/ StatementFails(c) \/ Throws(c)
         \/ \E p \in Processes : Record(c, p) \/ \E cutoff \in 1..clock : Cleanup(c, p, cutoff)
  PROVE  UNCHANGED alarms /\ \A d \in Calls : call'[d] = call[d] \/ ~(call'[d].pc \in Verifying)
<1>1. PICK g : g = call[c] OBVIOUS
<1>2. g \in Call /\ call \in [Calls -> Call] BY <1>1 DEF Typed, TypeOK
<1>3. UNCHANGED alarms
  BY DEF ReadHead, AppendRow, AppendRefused, GiveUp, RecordEvent, ListExpired, StatementFails,
         Throws, Record, Cleanup, history
<1>4. ASSUME NEW k, call' = [call EXCEPT ![c] = k], ~(k.pc \in Verifying)
      PROVE  \A d \in Calls : call'[d] = call[d] \/ ~(call'[d].pc \in Verifying)
  BY <1>2, <1>4
<1>5. CASE Return(c)
  <2>1. PICK k : k = Idle OBVIOUS
  <2> QED BY <1>3, <1>4, <1>5, <2>1, IdleWalks DEF Return
<1>6. ASSUME NEW pc \in {"event", "delete"}, Go(c, pc)
      PROVE  \A d \in Calls : call'[d] = call[d] \/ ~(call'[d].pc \in Verifying)
  <2>1. PICK k : k = [g EXCEPT !.pc = pc] OBVIOUS
  <2>2. k.pc = pc BY <1>2, <2>1 DEF Call
  <2>3. call' = [call EXCEPT ![c] = k] BY <1>1, <1>6, <2>1 DEF Go
  <2> QED BY <1>3, <1>4, <2>2, <2>3 DEF Verifying
<1>7. CASE ReadHead(c)
  <2>1. PICK s, i : call' = [call EXCEPT ![c].pc = "append", ![c].row.seq = s, ![c].row.prev = i]
    BY <1>7 DEF ReadHead
  <2>2. PICK k : k = [g EXCEPT !.pc = "append", !.row.seq = s, !.row.prev = i] OBVIOUS
  <2>3. k.pc = "append" BY <1>2, <2>2 DEF Call
  <2>4. call' = [call EXCEPT ![c] = k] BY <1>1, <1>2, <2>1, <2>2
  <2> QED BY <1>3, <1>4, <2>3, <2>4 DEF Verifying
<1>8. CASE AppendRow(c)
  <2>1. g.row.kind \in Kinds BY <1>2 DEF Call, Row
  <2>2. Return(c) \/ Go(c, "event") \/ Go(c, "delete")
    BY <1>1, <1>8, <2>1 DEF AppendRow, AfterAppend, Kinds
  <2> QED BY <1>3, <1>5, <1>6, <2>2
<1>9. CASE AppendRefused(c)
  <2>1. PICK k : k = [g EXCEPT !.pc = "head", !.attempts = g.attempts + 1] OBVIOUS
  <2>2. k.pc = "head" BY <1>2, <2>1 DEF Call
  <2>3. call' = [call EXCEPT ![c] = k] BY <1>1, <1>2, <1>9, <2>1 DEF AppendRefused
  <2> QED BY <1>3, <1>4, <2>2, <2>3 DEF Verifying
<1>10. CASE GiveUp(c) \/ StatementFails(c)
  <2>1. Return(c) \/ Go(c, "event") BY <1>10 DEF GiveUp, StatementFails, WriteFails
  <2> QED BY <1>3, <1>5, <1>6, <2>1
<1>11. CASE RecordEvent(c)
  <2>1. PICK k : k = [g EXCEPT !.pc = "head", !.row = Stamped("event"), !.attempts = 0] OBVIOUS
  <2>2. k.pc = "head" BY <1>2, <2>1 DEF Call
  <2>3. call' = [call EXCEPT ![c] = k] BY <1>1, <1>2, <1>11, <2>1 DEF RecordEvent
  <2> QED BY <1>3, <1>4, <2>2, <2>3 DEF Verifying
<1>12. CASE ListExpired(c)
  <2>1. ASSUME NEW r, call' = [call EXCEPT ![c].pc = "head", ![c].row = r]
        PROVE  \A d \in Calls : call'[d] = call[d] \/ ~(call'[d].pc \in Verifying)
    <3>1. PICK k : k = [g EXCEPT !.pc = "head", !.row = r] OBVIOUS
    <3>2. k.pc = "head" BY <1>2, <3>1 DEF Call
    <3>3. call' = [call EXCEPT ![c] = k] BY <1>1, <1>2, <2>1, <3>1
    <3> QED BY <1>4, <3>2, <3>3 DEF Verifying
  <2> QED BY <1>3, <1>5, <1>12, <2>1 DEF ListExpired
<1>13. CASE Throws(c) BY <1>3, <1>5, <1>13 DEF Throws
<1>14. ASSUME NEW p \in Processes, Record(c, p)
       PROVE  \A d \in Calls : call'[d] = call[d] \/ ~(call'[d].pc \in Verifying)
  <2>1. PICK r : call' = [call EXCEPT ![c].pc = "head", ![c].in = p, ![c].row = r]
    BY <1>14 DEF Record
  <2>2. PICK k : k = [g EXCEPT !.pc = "head", !.in = p, !.row = r] OBVIOUS
  <2>3. k.pc = "head" BY <1>2, <2>2 DEF Call
  <2>4. call' = [call EXCEPT ![c] = k] BY <1>1, <1>2, <2>1, <2>2
  <2> QED BY <1>3, <1>4, <2>3, <2>4 DEF Verifying
<1>15. ASSUME NEW p \in Processes, NEW cutoff \in 1..clock, Cleanup(c, p, cutoff)
       PROVE  \A d \in Calls : call'[d] = call[d] \/ ~(call'[d].pc \in Verifying)
  <2>1. PICK k : k = [Idle EXCEPT !.pc = "list", !.in = p, !.cutoff = cutoff] OBVIOUS
  <2>2. k.pc = "list" BY <2>1 DEF Idle
  <2>3. call' = [call EXCEPT ![c] = k] BY <1>15, <2>1 DEF Cleanup
  <2> QED BY <1>3, <1>4, <2>2, <2>3 DEF Verifying
<1> QED BY <1>3, <1>7, <1>8, <1>9, <1>10, <1>11, <1>12, <1>13, <1>14, <1>15


LEMMA ReturnWalks ==
  ASSUME Typed, Walks, UNCHANGED store, "undisturbed" \notin alarms', NEW c \in Calls, Return(c)
  PROVE  Walks'
<1>1. PICK k : k = Idle OBVIOUS
<1>2. Walk(k) /\ call' = [call EXCEPT ![c] = k] BY <1>1, IdleWalks DEF Return
<1> QED BY <1>2, WalkMoves

\* A walk begins at the lowest row.
LEMMA VerifyWalks ==
  ASSUME Typed, Chain, Walks, NEW c \in Calls, NEW p \in Processes, Verify(c, p)
  PROVE  Walks'
<1>1. PICK i \in table :
        /\ Lowest(i, table)
        /\ call' = [call EXCEPT ![c].pc = "stop", ![c].in = p, ![c].seq = SeqOf(i)]
  BY DEF Verify
<1>2. SeqOf(i) = i /\ \A j \in table : i <= j BY <1>1, ChainNumbers DEF Lowest
<1>3. PICK k : k = [Idle EXCEPT !.pc = "stop", !.in = p, !.seq = i] OBVIOUS
<1>4. call[c] = Idle BY DEF Verify
<1>5. call' = [call EXCEPT ![c] = k] BY <1>1, <1>2, <1>3, <1>4
<1>6. k.pc = "stop" /\ k.seq = i /\ k.last = 0 BY <1>3 DEF Idle
<1>7. Walk(k) BY <1>1, <1>2, <1>6 DEF Walk, OnTrack
<1>8. UNCHANGED store /\ "undisturbed" \notin alarms' BY DEF Verify, history, Walks
<1> QED BY <1>5, <1>7, <1>8, WalkMoves

\* It has an end at or behind its beginning, and an anchor to look for unless
\* it begins at the first row ever.
LEMMA ReadStopWalks ==
  ASSUME Typed, Chain, Walks, NEW c \in Calls, ReadStop(c)
  PROVE  Walks'
<1>1. PICK g : g = call[c] OBVIOUS
<1>2. g \in Call /\ g.pc = "stop" /\ g.seq \in Nat /\ Walk(g)
  BY <1>1 DEF Typed, TypeOK, Walks, ReadStop, At, Call
<1>3. PICK pc : pc = IF g.seq > 1 THEN "pred" ELSE "page" OBVIOUS
<1>4. UNCHANGED store /\ "undisturbed" \notin alarms' BY DEF ReadStop, history, Walks
<1>5. ASSUME NEW stop, ~g.disturbed => stop \in table /\ g.seq <= stop,
             call' = [call EXCEPT ![c].pc = pc, ![c].stop = stop]
      PROVE  Walks'
  <2>1. PICK k : k = [g EXCEPT !.pc = pc, !.stop = stop] OBVIOUS
  <2>2. /\ k.pc = pc /\ k.stop = stop /\ k.seq = g.seq /\ k.last = g.last
        /\ k.disturbed = g.disturbed
    BY <1>2, <2>1 DEF Call
  <2>3. call' = [call EXCEPT ![c] = k] BY <1>1, <1>5, <2>1
  <2>4. ASSUME ~g.disturbed
        PROVE  OnTrack(k)
    <3>1. OnTrack(g) BY <1>2, <2>4 DEF Walk, Verifying
    <3>2. g.seq \in table /\ g.last = 0 /\ \A j \in table : g.seq <= j BY <1>2, <3>1 DEF OnTrack
    <3>3. stop \in table /\ g.seq <= stop BY <1>5, <2>4
    <3>4. pc \in {"pred", "page"} /\ (pc = "pred" => g.seq > 1) BY <1>3
    <3> QED BY <2>2, <3>2, <3>3, <3>4 DEF OnTrack
  <2>5. Walk(k) BY <2>2, <2>4 DEF Walk
  <2> QED BY <1>4, <2>3, <2>5, WalkMoves
<1>6. CASE table = {} /\ call' = [call EXCEPT ![c].pc = pc, ![c].stop = g.seq]
  <2>1. ~g.disturbed => g.seq \in table BY <1>2 DEF Walk, OnTrack, Verifying
  <2> QED BY <1>5, <1>6, <2>1
<1>7. ASSUME NEW i \in table, Highest(i, table), call' = [call EXCEPT ![c].pc = pc, ![c].stop = SeqOf(i)]
      PROVE  Walks'
  <2>1. SeqOf(i) = i BY ChainNumbers
  <2>2. ~g.disturbed => g.seq \in table BY <1>2 DEF Walk, OnTrack, Verifying
  <2>3. \A j \in table : SeqOf(j) = j /\ SeqOf(j) <= SeqOf(i) BY <1>7, ChainNumbers DEF Highest
  <2>4. ~g.disturbed => g.seq <= i BY <2>1, <2>2, <2>3
  <2> QED BY <1>5, <1>7, <2>1, <2>4
<1> QED BY <1>1, <1>3, <1>6, <1>7 DEF ReadStop

\* There is no row before the first.
LEMMA ReadPredWalks ==
  ASSUME Typed, Chain, Walks, NEW c \in Calls, ReadPred(c)
  PROVE  Walks'
<1>1. PICK g : g = call[c] OBVIOUS
<1>2. g \in Call /\ g.pc = "pred" /\ g.seq \in Nat /\ Walk(g)
  BY <1>1 DEF Typed, TypeOK, Walks, ReadPred, At, Call
<1>3. UNCHANGED store /\ "undisturbed" \notin alarms' BY DEF ReadPred, history, Walks
<1>4. CASE Go(c, "first")
  <2>1. PICK k : k = [g EXCEPT !.pc = "first"] OBVIOUS
  <2>2. /\ k.pc = "first" /\ k.last = g.last /\ k.seq = g.seq /\ k.stop = g.stop
        /\ k.disturbed = g.disturbed
    BY <1>2, <2>1 DEF Call
  <2>3. call' = [call EXCEPT ![c] = k] BY <1>1, <1>4, <2>1 DEF Go
  <2>4. ~g.disturbed => OnTrack(g) BY <1>2 DEF Walk, Verifying
  <2>5. ~g.disturbed => OnTrack(k) BY <1>2, <2>2, <2>4 DEF OnTrack
  <2>6. Walk(k) BY <2>2, <2>5 DEF Walk
  <2> QED BY <1>3, <2>3, <2>6, WalkMoves
<1>5. ASSUME NEW i \in table, SeqOf(i) = g.seq - 1, call' = [call EXCEPT ![c].pc = "page", ![c].last = i]
      PROVE  Walks'
  <2>1. i = g.seq - 1 /\ i \in Nat BY <1>5, ChainNumbers
  <2>2. ~g.disturbed => g.seq <= i BY <1>2 DEF Walk, OnTrack, Verifying
  <2>3. ~(~g.disturbed) BY <1>2, <2>1, <2>2
  <2>4. PICK k : k = [g EXCEPT !.pc = "page", !.last = i] OBVIOUS
  <2>5. k.disturbed = g.disturbed BY <1>2, <2>4 DEF Call
  <2>6. call' = [call EXCEPT ![c] = k] BY <1>1, <1>5, <2>4
  <2>7. Walk(k) BY <2>3, <2>5 DEF Walk
  <2> QED BY <1>3, <2>6, <2>7, WalkMoves
<1>6. \/ Go(c, "first")
      \/ \E i \in table : SeqOf(i) = g.seq - 1 /\ call' = [call EXCEPT ![c].pc = "page", ![c].last = i]
  BY <1>1 DEF ReadPred
<1> QED BY <1>4, <1>5, <1>6

\* The first row names the row before it.
LEMMA ReadFirstWalks ==
  ASSUME Typed, Chain, Walks, NEW c \in Calls, ReadFirst(c)
  PROVE  Walks'
<1>1. PICK g : g = call[c] OBVIOUS
<1>2. g \in Call /\ g.pc = "first" /\ g.seq \in Nat /\ Walk(g)
  BY <1>1 DEF Typed, TypeOK, Walks, ReadFirst, At, Call
<1>3. UNCHANGED store /\ "undisturbed" \notin alarms' BY DEF ReadFirst, history, Walks
<1>4. ~g.disturbed => OnTrack(g) BY <1>2 DEF Walk, Verifying
<1>5. CASE {i \in table : SeqOf(i) = g.seq} = {} /\ Go(c, "page")
  <2>1. ~g.disturbed => g.seq \in table BY <1>4 DEF OnTrack
  <2>2. ~g.disturbed => SeqOf(g.seq) = g.seq BY <2>1, ChainNumbers
  <2>3. ~(~g.disturbed) BY <1>5, <2>1, <2>2
  <2>4. PICK k : k = [g EXCEPT !.pc = "page"] OBVIOUS
  <2>5. k.disturbed = g.disturbed BY <1>2, <2>4 DEF Call
  <2>6. call' = [call EXCEPT ![c] = k] BY <1>1, <1>5, <2>4 DEF Go
  <2>7. Walk(k) BY <2>3, <2>5 DEF Walk
  <2> QED BY <1>3, <2>6, <2>7, WalkMoves
<1>6. ASSUME NEW i \in table, SeqOf(i) = g.seq,
             call' = [call EXCEPT ![c].pc = "anchor", ![c].row.prev = rows[i].prev]
      PROVE  Walks'
  <2>1. rows[i].prev = g.seq - 1 BY <1>6, ChainNumbers
  <2>2. PICK k : k = [g EXCEPT !.pc = "anchor", !.row.prev = g.seq - 1] OBVIOUS
  <2>3. /\ k.pc = "anchor" /\ k.last = g.last /\ k.seq = g.seq /\ k.stop = g.stop
        /\ k.disturbed = g.disturbed /\ k.row.prev = g.seq - 1
    BY <1>2, <2>2 DEF Call, Row
  <2>4. call' = [call EXCEPT ![c] = k] BY <1>1, <1>6, <2>1, <2>2
  <2>5. ~g.disturbed => OnTrack(k) BY <1>2, <1>4, <2>3 DEF OnTrack
  <2>6. Walk(k) BY <2>3, <2>5 DEF Walk
  <2> QED BY <1>3, <2>4, <2>6, WalkMoves
<1>7. \/ {i \in table : SeqOf(i) = g.seq} = {} /\ Go(c, "page")
      \/ \E i \in table : SeqOf(i) = g.seq
                          /\ call' = [call EXCEPT ![c].pc = "anchor", ![c].row.prev = rows[i].prev]
  BY <1>1 DEF ReadFirst
<1> QED BY <1>5, <1>6, <1>7

\* An alarm says whether the walk was disturbed.
LEMMA AlarmWalks ==
  ASSUME Typed, Walks, UNCHANGED store, NEW c \in Calls, call[c].disturbed, Alarm(c)
  PROVE  Walks'
<1>1. alarms' = alarms \cup {"disturbed"} BY DEF Alarm
<1>2. "undisturbed" \notin alarms' BY <1>1 DEF Walks
<1> QED BY <1>2, ReturnWalks DEF Alarm

\* A checkpoint in the table lets go the row before.
LEMMA ReadAnchorsWalks ==
  ASSUME Typed, Chain, Walks, NEW c \in Calls, ReadAnchors(c)
  PROVE  Walks'
<1>1. PICK g : g = call[c] OBVIOUS
<1>2. g \in Call /\ g.pc = "anchor" /\ g.seq \in Nat /\ Walk(g)
  BY <1>1 DEF Typed, TypeOK, Walks, ReadAnchors, At, Call
<1>3. UNCHANGED store /\ (UNCHANGED alarms => "undisturbed" \notin alarms') BY DEF ReadAnchors, Walks
<1>4. ~g.disturbed => OnTrack(g) BY <1>2 DEF Walk, Verifying
<1>5. CASE Go(c, "page") /\ UNCHANGED alarms
  <2>1. PICK k : k = [g EXCEPT !.pc = "page"] OBVIOUS
  <2>2. /\ k.pc = "page" /\ k.last = g.last /\ k.seq = g.seq /\ k.stop = g.stop
        /\ k.disturbed = g.disturbed
    BY <1>2, <2>1 DEF Call
  <2>3. call' = [call EXCEPT ![c] = k] BY <1>1, <1>5, <2>1 DEF Go
  <2>4. ~g.disturbed => OnTrack(k) BY <1>2, <1>4, <2>2 DEF OnTrack
  <2>5. Walk(k) BY <2>2, <2>4 DEF Walk
  <2> QED BY <1>3, <1>5, <2>3, <2>5, WalkMoves
<1>6. ASSUME ~g.disturbed
      PROVE  Anchors(g.seq) # {} /\ \A i \in Anchors(g.seq) : rows[i].upto = g.row.prev
  <2>1. OnTrack(g) BY <1>4, <1>6
  <2>2. g.seq \in table /\ g.seq > 1 /\ g.row.prev = g.seq - 1 /\ \A j \in table : g.seq <= j
    BY <1>2, <2>1 DEF OnTrack
  <2>3. g.seq - 1 \in Places
    <3>1. g.seq \in Places BY <2>2, ChainNumbers
    <3> QED BY <2>2, <3>1, ChainNumbers DEF Places
  <2>4. PICK k \in table : LetsGo(k, g.seq - 1)
    <3>1. Anchored BY DEF Chain
    <3> QED BY <1>2, <2>2, <3>1 DEF Anchored
  <2>5. SeqOf(g.seq - 1) + 1 = g.seq BY <1>2, <2>3, ChainNumbers
  <2>6. k \in Anchors(g.seq) BY <2>4, <2>5 DEF Anchors, LetsGo
  <2>7. ASSUME NEW i \in Anchors(g.seq)
        PROVE  rows[i].upto = g.row.prev
    <3>1. i \in table /\ rows[i].kind = "checkpoint" /\ SeqOf(rows[i].upto) + 1 = g.seq
      BY <2>7 DEF Anchors
    <3>2. rows[i].upto \in Places BY <3>1, ChainNumbers DEF Walks, Uptos
    <3>3. rows[i].upto \in Nat /\ SeqOf(rows[i].upto) = rows[i].upto BY <3>2, ChainNumbers
    <3> QED BY <1>2, <2>2, <3>1, <3>3
  <2> QED BY <2>6, <2>7
<1>7. CASE Alarm(c) /\ (Anchors(g.seq) = {} \/ \E i \in Anchors(g.seq) : rows[i].upto # g.row.prev)
  <2>1. g.disturbed BY <1>6, <1>7
  <2> QED BY <1>1, <1>3, <1>7, <2>1, AlarmWalks
<1>8. \/ Go(c, "page") /\ UNCHANGED alarms
      \/ Alarm(c) /\ (Anchors(g.seq) = {} \/ \E i \in Anchors(g.seq) : rows[i].upto # g.row.prev)
  BY <1>1 DEF ReadAnchors
<1> QED BY <1>5, <1>7, <1>8


\* A page is all the rows from the cursor on, so it links up.
LEMMA PageLinked ==
  ASSUME Typed, Chain, NEW first \in table, NEW last \in {0, first - 1}, NEW stop \in table,
         NEW end \in Nat, first <= end, end <= stop,
         NEW page \in SUBSET table, \A i \in table : i \in page <=> SeqOf(i) \in first..end
  PROVE  page = first..end /\ Linked(page, last)
<1>1. /\ table \subseteq Places
      /\ \A i \in Places : i \in Nat /\ i > 0 /\ SeqOf(i) = i /\ rows[i].prev = i - 1
  BY ChainNumbers
<1>2. first..end \subseteq table
  <2> SUFFICES ASSUME NEW i \in first..end PROVE i \in table
    OBVIOUS
  <2>1. first \in Nat /\ first > 0 /\ stop \in Nat /\ stop <= Len(rows) /\ Len(rows) \in Nat
    BY <1>1, ChainNumbers DEF Places
  <2>2. i \in Places BY <2>1 DEF Places
  <2>3. CASE i = first BY <2>3
  <2>4. CASE first < i BY <2>2, <2>4 DEF Chain, Upward
  <2> QED BY <2>1, <2>3, <2>4
<1>3. page = first..end
  <2>1. \A i \in page : i \in first..end BY <1>1
  <2>2. \A i \in first..end : i \in page BY <1>1, <1>2
  <2> QED BY <2>1, <2>2
<1>4. first \in Nat /\ first > 0 BY <1>1
<1>5. ASSUME NEW i \in page, {j \in page : SeqOf(j) < SeqOf(i)} = {}, last # 0
      PROVE  Follows(i, last)
  <2>1. \A j \in page : j \in Places /\ SeqOf(j) = j BY <1>1, <1>2, <1>3
  <2>2. first \in page BY <1>3, <1>4
  <2>3. ~(first < i) BY <1>5, <2>1, <2>2
  <2>4. i = first BY <1>3, <1>4, <2>3
  <2>5. last = first - 1 /\ last \in Nat /\ last > 0 BY <1>4, <1>5
  <2>6. last \in Places
    <3>1. first \in 1..Len(rows) /\ Len(rows) \in Nat BY <1>1, ChainNumbers DEF Places
    <3> QED BY <2>5, <3>1 DEF Places
  <2>7. SeqOf(last) = last /\ SeqOf(first) = first /\ rows[first].prev = first - 1 BY <1>1, <2>6
  <2> QED BY <1>4, <2>4, <2>5, <2>7 DEF Follows
<1>6. ASSUME NEW i \in page, NEW before, before = {j \in page : SeqOf(j) < SeqOf(i)},
             NEW j \in before, Highest(j, before)
      PROVE  Follows(i, j)
  <2>1. \A h \in page : h \in first..end /\ h \in Nat /\ h \in Places /\ SeqOf(h) = h /\ rows[h].prev = h - 1
    BY <1>1, <1>2, <1>3
  <2>2. j \in page /\ j < i BY <1>6, <2>1
  <2>3. i - 1 \in page BY <1>3, <1>4, <2>1, <2>2
  <2>4. i - 1 \in before BY <1>6, <2>1, <2>3
  <2>5. i - 1 <= j BY <1>6, <2>1, <2>2, <2>3, <2>4 DEF Highest
  <2>6. j = i - 1 BY <2>1, <2>2, <2>5
  <2> QED BY <2>1, <2>2, <2>6 DEF Follows
<1>7. Linked(page, last) BY <1>5, <1>6 DEF Linked
<1> QED BY <1>3, <1>7

LEMMA ReadPageWalks ==
  ASSUME Typed, Chain, Walks, NEW c \in Calls, ReadPage(c)
  PROVE  Walks'
<1>1. PICK g : g = call[c] OBVIOUS
<1>2. g \in Call /\ g.pc = "page" /\ g.seq \in Nat /\ g.stop \in Nat /\ Walk(g)
  BY <1>1 DEF Typed, TypeOK, Walks, ReadPage, At, Call
<1>3. UNCHANGED store /\ (UNCHANGED alarms => "undisturbed" \notin alarms') BY DEF ReadPage, Walks
<1>4. ~g.disturbed => OnTrack(g) BY <1>2 DEF Walk, Verifying
<1>5. PICK end : end = IF g.stop < g.seq + Page THEN g.stop ELSE g.seq + Page - 1 OBVIOUS
<1>6. PICK page : page = {i \in table : SeqOf(i) \in g.seq..end} OBVIOUS
<1>7. \/ Alarm(c) /\ ~Linked(page, g.last)
      \/ Return(c) /\ UNCHANGED alarms
      \/ /\ UNCHANGED alarms /\ end # g.stop
         /\ \E last \in page \cup {g.last} :
              /\ page # {} => Highest(last, page)
              /\ call' = [call EXCEPT ![c].seq = end + 1, ![c].last = last]
  BY <1>1, <1>5, <1>6 DEF ReadPage
<1>8. ASSUME ~g.disturbed
      PROVE  /\ page = g.seq..end /\ Linked(page, g.last)
             /\ g.seq <= end /\ end <= g.stop /\ end \in Nat
             /\ end # g.stop => end + 1 \in table /\ end + 1 <= g.stop
  <2>1. OnTrack(g) BY <1>4, <1>8
  <2>2. g.seq \in table /\ g.stop \in table /\ g.seq <= g.stop /\ g.last \in {0, g.seq - 1}
    BY <1>2, <2>1 DEF OnTrack
  <2>3. Page \in Nat /\ Page > 0 BY CodeAssumption
  <2>4. end \in Nat /\ g.seq <= end /\ end <= g.stop BY <1>2, <1>5, <2>2, <2>3
  <2>5. page = g.seq..end /\ Linked(page, g.last)
    <3>1. PICK first \in table, last \in {0, g.seq - 1}, stop \in table : first = g.seq /\ last = g.last /\ stop = g.stop
      BY <2>2
    <3>2. last \in {0, first - 1} /\ first <= end /\ end <= stop /\ end \in Nat BY <2>2, <2>4, <3>1
    <3>3. page \in SUBSET table /\ \A i \in table : i \in page <=> SeqOf(i) \in first..end BY <1>6, <3>1
    <3>4. last \in {0, first - 1} BY <3>1
    <3>5. page = first..end /\ Linked(page, last) BY <3>2, <3>3, <3>4, PageLinked
    <3> QED BY <3>1, <3>5
  <2>6. ASSUME end # g.stop
        PROVE  end + 1 \in table /\ end + 1 <= g.stop
    <3>1. end + 1 <= g.stop BY <1>2, <2>4, <2>6
    <3>2. g.stop \in 1..Len(rows) /\ Len(rows) \in Nat BY <2>2, ChainNumbers DEF Places
    <3>3. end + 1 \in Places BY <2>4, <3>1, <3>2 DEF Places
    <3>4. g.seq < end + 1 BY <1>2, <2>4
    <3> QED BY <2>2, <3>1, <3>3, <3>4 DEF Chain, Upward
  <2> QED BY <2>4, <2>5, <2>6
<1>9. CASE Alarm(c) /\ ~Linked(page, g.last)
  <2>1. g.disturbed BY <1>8, <1>9
  <2> QED BY <1>1, <1>3, <1>9, <2>1, AlarmWalks
<1>10. CASE Return(c) /\ UNCHANGED alarms BY <1>3, <1>10, ReturnWalks
<1>11. ASSUME UNCHANGED alarms, end # g.stop, NEW last, page # {} => Highest(last, page),
              call' = [call EXCEPT ![c].seq = end + 1, ![c].last = last]
       PROVE  Walks'
  <2>1. PICK k : k = [g EXCEPT !.seq = end + 1, !.last = last] OBVIOUS
  <2>2. /\ k.pc = "page" /\ k.last = last /\ k.seq = end + 1 /\ k.stop = g.stop
        /\ k.disturbed = g.disturbed
    BY <1>2, <2>1 DEF Call
  <2>3. call' = [call EXCEPT ![c] = k] BY <1>1, <1>11, <2>1
  <2>4. ASSUME ~g.disturbed
        PROVE  OnTrack(k)
    <3>1. end \in page /\ end \in Nat BY <1>2, <1>8, <2>4
    <3>2. last \in page /\ SeqOf(end) <= SeqOf(last) BY <1>11, <3>1 DEF Highest
    <3>3. SeqOf(end) = end /\ SeqOf(last) = last BY <1>6, <3>1, <3>2, ChainNumbers
    <3>4. last = end BY <1>2, <1>8, <2>4, <3>1, <3>2, <3>3
    <3>5. end + 1 \in table /\ end + 1 <= g.stop BY <1>8, <1>11, <2>4
    <3>6. g.stop \in table BY <1>2, <1>4, <2>4 DEF OnTrack
    <3> QED BY <2>2, <3>1, <3>4, <3>5, <3>6 DEF OnTrack
  <2>5. Walk(k) BY <2>2, <2>4 DEF Walk
  <2> QED BY <1>3, <1>11, <2>3, <2>5, WalkMoves
<1> QED BY <1>7, <1>9, <1>10, <1>11

\* A step of a writer or a cleanup that does not delete.
LEMMA OthersWalk ==
  ASSUME Typed, Chain, Walks, ~late', NEW c \in Calls,
         \/ ReadHead(c) \/ AppendRow(c) \/ AppendRefused(c) \/ GiveUp(c) \/ RecordEvent(c)
         \/ ListExpired(c) \/ StatementFails(c) \/ Throws(c)
         \/ \E p \in Processes : Record(c, p) \/ \E cutoff \in 1..clock : Cleanup(c, p, cutoff)
  PROVE  Walks'
<1>1. UNCHANGED alarms /\ \A d \in Calls : call'[d] = call[d] \/ ~(call'[d].pc \in Verifying)
  BY WritersWalk
<1>2. CASE Inserted(c) BY <1>1, <1>2, InsertedWalks
<1>3. CASE UNCHANGED store
  <2>1. \A h : ~(h.pc \in Verifying) => Walk(h) BY DEF Walk
  <2>2. \A d \in Calls : call'[d] = call[d] \/ \A h : h = call'[d] => Walk(h) BY <1>1, <2>1
  <2>3. "undisturbed" \notin alarms' BY <1>1 DEF Walks
  <2> QED BY <1>3, <2>2, <2>3, WalksKept
<1>4. Inserted(c) \/ UNCHANGED store
  BY DEF ReadHead, AppendRow, AppendRefused, GiveUp, RecordEvent, ListExpired, StatementFails,
         Throws, Record, Cleanup
<1> QED BY <1>2, <1>3, <1>4

LEMMA CrashWalks ==
  ASSUME Typed, Walks, Tick \/ \E p \in Processes : RecordFails(p) \/ Crash(p)
  PROVE  Walks'
<1>1. UNCHANGED store /\ UNCHANGED alarms /\ \A d \in Calls : call'[d] = call[d] \/ call'[d] = Idle
  BY DEF Tick, RecordFails, Crash, history
<1>2. \A d \in Calls : call'[d] = call[d] \/ \A h : h = call'[d] => Walk(h) BY <1>1, IdleWalks
<1>3. "undisturbed" \notin alarms' BY <1>1 DEF Walks
<1> QED BY <1>1, <1>2, <1>3, WalksKept

LEMMA WalksInvariant == Spec => [](IInv /\ (~late => Walks))
<1>1. Init => Walks
  <2> SUFFICES ASSUME Init PROVE Walks
    OBVIOUS
  <2>1. Len(rows) = 0 /\ alarms = {} /\ \A c \in Calls : call[c] = Idle BY DEF Init
  <2>2. Uptos BY <2>1 DEF Uptos, Places
  <2>3. \A c \in Calls : Walk(call[c]) BY <2>1, IdleWalks
  <2> QED BY <2>1, <2>2, <2>3 DEF Walks
<1>2. IInv /\ (~late => Walks) /\ [Next]_vars => (~late => Walks)'
  <2> SUFFICES ASSUME Typed, ~late => Chain, ~late => Walks, [Next]_vars, ~late'
               PROVE  Walks'
    BY DEF IInv
  <2>1. CASE UNCHANGED vars
    <3>1. Walks /\ UNCHANGED store /\ UNCHANGED alarms /\ call' = call BY <2>1 DEF vars, history
    <3>2. "undisturbed" \notin alarms' BY <3>1 DEF Walks
    <3> QED BY <3>1, <3>2, WalksKept
  <2>2. CASE Next
    <3>1. Chain /\ Walks BY SMTT(60), <2>2, NextAdds
    <3>2. CASE Tick \/ \E p \in Processes : RecordFails(p) \/ Crash(p)
      BY <3>1, <3>2, CrashWalks
    <3>3. ASSUME NEW c \in Calls, NEW p \in Processes, NewCall(c, p)
          PROVE  Walks'
      BY <3>1, <3>3, VerifyWalks, OthersWalk DEF NewCall
    <3>4. ASSUME NEW c \in Calls, Continue(c) \/ StatementFails(c) \/ Throws(c)
          PROVE  Walks'
      BY <3>1, <3>4, OthersWalk, DeleteWalks, ReadStopWalks, ReadPredWalks, ReadFirstWalks, ReadAnchorsWalks,
         ReadPageWalks DEF Continue
    <3> QED BY <2>2, <3>2, <3>3, <3>4 DEF Next
  <2> QED BY <2>1, <2>2
<1> QED BY <1>1, <1>2, ChainInvariant, PTL DEF Spec

\* The verifier reports no break in a chain that this code wrote, while others
\* write, fail, retry and crash, unless rows are deleted during the walk: what
\* it reads statement by statement still fits together.
THEOREM AlarmsAreReal == Spec => []NoFalseAlarm
<1>1. (~late => Walks) => NoFalseAlarm BY DEF Walks, NoFalseAlarm
<1> QED BY <1>1, WalksInvariant, PTL

(***************************************************************************)
(* Failures are told of.  What the calls of a process are on their way to  *)
(* tell is a sum over its calls.  It is also the number of pairs of a call *)
(* and a failure it tells of, a set, so that what a step does to the sum   *)
(* follows from the theorems about finite sets.                            *)
(***************************************************************************)
\* f[c] elements for each c in T.
Pairs(T, f) == {x \in T \X Nat : 0 < x[2] /\ x[2] <= f[x[1]]}

\* What is in it.
LEMMA InPairs ==
  ASSUME NEW T, NEW f
  PROVE  /\ \A x \in Pairs(T, f) : \E c \in T : \E i \in Nat : x = <<c, i>> /\ 0 < i /\ i <= f[c]
         /\ \A c \in T : \A i \in Nat : 0 < i /\ i <= f[c] => <<c, i>> \in Pairs(T, f)
<1>1. ASSUME NEW x \in Pairs(T, f)
      PROVE  \E c \in T : \E i \in Nat : x = <<c, i>> /\ 0 < i /\ i <= f[c]
  <2>1. x \in T \X Nat /\ 0 < x[2] /\ x[2] <= f[x[1]] BY DEF Pairs
  <2>2. PICK c \in T, i \in Nat : x = <<c, i>> BY <2>1
  <2>3. x[1] = c /\ x[2] = i BY <2>2
  <2> QED BY <2>1, <2>2, <2>3
<1>2. ASSUME NEW c \in T, NEW i \in Nat, 0 < i, i <= f[c]
      PROVE  <<c, i>> \in Pairs(T, f)
  <2>1. PICK x : x = <<c, i>> OBVIOUS
  <2>2. x \in T \X Nat /\ x[1] = c /\ x[2] = i BY <2>1
  <2> QED BY <1>2, <2>1, <2>2 DEF Pairs
<1> QED BY <1>1, <1>2

\* By a smallest set without finitely many.
LEMMA PairsFinite ==
  ASSUME NEW S, IsFiniteSet(S), NEW f, \A c \in S : f[c] \in Nat
  PROVE  IsFiniteSet(Pairs(S, f))
<1> DEFINE Bad == {T \in FiniteSubsetsOf(S) : ~IsFiniteSet(Pairs(T, f))}
<1>1. Bad = {}
  <2> SUFFICES ASSUME Bad # {} PROVE FALSE OBVIOUS
  <2>1. PICK T \in Bad : \A U \in Bad : ~(<<U, T>> \in StrictSubsetOrdering(S))
    BY FS_StrictSubsetOrderingWellFounded, WFMin
  <2>2. T \subseteq S /\ IsFiniteSet(T) /\ ~IsFiniteSet(Pairs(T, f)) BY DEF FiniteSubsetsOf
  <2>3. T # {}
    <3>1. Pairs({}, f) = {} BY DEF Pairs
    <3> QED BY <3>1, <2>2, FS_EmptySet
  <2>4. PICK c : c \in T BY <2>3
  <2>5. PICK U : U = T \ {c} OBVIOUS
  <2>6. U \subseteq T /\ U # T /\ U \subseteq S BY <2>2, <2>4, <2>5
  <2>7. IsFiniteSet(U) BY <2>2, <2>6, FS_Subset
  <2>8. <<U, T>> \in StrictSubsetOrdering(S) BY <2>2, <2>6 DEF StrictSubsetOrdering
  <2>9. IsFiniteSet(Pairs(U, f)) BY <2>1, <2>6, <2>7, <2>8 DEF FiniteSubsetsOf
  <2>10. IsFiniteSet({c} \X (1..f[c]))
    <3>1. IsFiniteSet({c}) BY FS_Singleton
    <3>2. IsFiniteSet(1..f[c]) BY <2>2, <2>4, FS_Interval
    <3> QED BY <3>1, <3>2, FS_Product
  <2>11. Pairs(T, f) \subseteq Pairs(U, f) \cup ({c} \X (1..f[c]))
    <3> SUFFICES ASSUME NEW x \in Pairs(T, f) PROVE x \in Pairs(U, f) \cup ({c} \X (1..f[c]))
      OBVIOUS
    <3>1. PICK d \in T, i \in Nat : x = <<d, i>> /\ 0 < i /\ i <= f[d] BY InPairs
    <3>2. CASE d = c
      <4>1. i \in 1..f[c] BY <2>2, <2>4, <3>1, <3>2
      <4> QED BY <3>1, <3>2, <4>1
    <3>3. CASE d # c
      <4>1. d \in U BY <2>5, <3>3
      <4> QED BY <3>1, <4>1, InPairs
    <3> QED BY <3>2, <3>3
  <2>12. IsFiniteSet(Pairs(U, f) \cup ({c} \X (1..f[c]))) BY <2>9, <2>10, FS_Union
  <2> QED BY <2>2, <2>11, <2>12, FS_Subset
<1> QED BY <1>1 DEF FiniteSubsetsOf

\* Each element of the set counts for itself.
LEMMA PairsAdd ==
  ASSUME NEW S, IsFiniteSet(S), NEW f, \A c \in S : f[c] \in Nat, NEW c \in S
  PROVE  /\ Cardinality(Pairs(S \ {c}, f)) \in Nat
         /\ Cardinality(Pairs(S, f)) = f[c] + Cardinality(Pairs(S \ {c}, f))
<1>1. PICK U, A, B : U = S \ {c} /\ A = Pairs(U, f) /\ B = {c} \X (1..f[c]) OBVIOUS
<1>2. IsFiniteSet(U) /\ \A d \in U : f[d] \in Nat BY <1>1, FS_Subset
<1>3. IsFiniteSet(A) /\ Cardinality(A) \in Nat BY <1>1, <1>2, PairsFinite, FS_CardinalityType
<1>4. IsFiniteSet(B) /\ Cardinality(B) = f[c]
  <2>1. IsFiniteSet({c}) /\ Cardinality({c}) = 1 BY FS_Singleton
  <2>2. IsFiniteSet(1..f[c]) /\ Cardinality(1..f[c]) = f[c]
    <3>1. f[c] \in Nat /\ 1 \in Int /\ f[c] \in Int OBVIOUS
    <3>2. PICK m : m = f[c] OBVIOUS
    <3>3. IsFiniteSet(1..m) /\ Cardinality(1..m) = IF 1 > m THEN 0 ELSE m - 1 + 1
      BY <3>1, <3>2, FS_Interval
    <3> QED BY <3>1, <3>2, <3>3
  <2>3. IsFiniteSet(B) /\ Cardinality(B) = Cardinality({c}) * Cardinality(1..f[c])
    BY <1>1, <2>1, <2>2, FS_Product
  <2>4. Cardinality(B) = 1 * f[c] BY <2>1, <2>2, <2>3
  <2> QED BY <2>3, <2>4
<1>5. \A x \in B : \E i \in 1..f[c] : x = <<c, i>> BY <1>1
<1>6. A \cap B = {}
  <2> SUFFICES ASSUME NEW x \in A, x \in B PROVE FALSE OBVIOUS
  <2>1. PICK i : x = <<c, i>> BY <1>5
  <2>2. PICK d \in U, j \in Nat : x = <<d, j>> BY <1>1, InPairs
  <2> QED BY <1>1, <2>1, <2>2
<1>7. Pairs(S, f) = A \cup B
  <2>1. ASSUME NEW x \in Pairs(S, f) PROVE x \in A \cup B
    <3>1. PICK d \in S, i \in Nat : x = <<d, i>> /\ 0 < i /\ i <= f[d] BY InPairs
    <3>2. CASE d = c
      <4>1. i \in 1..f[c] BY <3>1, <3>2
      <4> QED BY <1>1, <3>1, <3>2, <4>1
    <3>3. CASE d # c
      <4>1. d \in U BY <1>1, <3>3
      <4> QED BY <1>1, <3>1, <4>1, InPairs
    <3> QED BY <3>2, <3>3
  <2>2. ASSUME NEW x \in A PROVE x \in Pairs(S, f)
    <3>1. PICK d \in U, i \in Nat : x = <<d, i>> /\ 0 < i /\ i <= f[d] BY <1>1, <2>2, InPairs
    <3>2. d \in S BY <1>1
    <3> QED BY <3>1, <3>2, InPairs
  <2>3. ASSUME NEW x \in B PROVE x \in Pairs(S, f)
    <3>1. PICK i \in 1..f[c] : x = <<c, i>> BY <1>5, <2>3
    <3>2. f[c] \in Nat OBVIOUS
    <3>3. i \in Nat /\ 0 < i /\ i <= f[c] BY <3>1, <3>2
    <3> QED BY <3>1, <3>3, InPairs
  <2> QED BY <2>1, <2>2, <2>3
<1>8. Cardinality(A \cup B) = Cardinality(A) + Cardinality(B) - Cardinality({}) /\ Cardinality({}) = 0
  <2>1. Cardinality(A \cup B) = Cardinality(A) + Cardinality(B) - Cardinality(A \cap B)
    BY <1>3, <1>4, FS_Union
  <2> QED BY <1>6, <2>1, FS_EmptySet
<1>9. f[c] \in Nat OBVIOUS
<1>10. Cardinality(A \cup B) = Cardinality(A) + f[c]
  <2>1. PICK n, m, x : n = Cardinality(A) /\ m = Cardinality(B) /\ x = Cardinality(A \cup B) OBVIOUS
  <2>2. n \in Nat /\ m \in Nat /\ m = f[c] /\ x = n + m - 0 BY <1>3, <1>4, <1>8, <1>9, <2>1
  <2> QED BY <2>1, <2>2
<1>11. Cardinality(Pairs(S, f)) = Cardinality(A \cup B) BY <1>7
<1>12. Cardinality(Pairs(S \ {c}, f)) = Cardinality(A) BY <1>1
<1> QED BY <1>3, <1>9, <1>10, <1>11, <1>12

\* Told summed over S: the fold's recursion has the number of pairs as a
\* solution, and a smallest subset with another shows that it is the only one.
LEMMA SumIs ==
  ASSUME NEW S, IsFiniteSet(S), NEW f, \A c \in S : f[c] \in Nat /\ Told(c) = f[c]
  PROVE  MapThenSumSet(Told, S) = Cardinality(Pairs(S, f))
<1> DEFINE Step(g) == [s \in SUBSET S |-> IF s = {} THEN 0
                         ELSE Told(CHOOSE c \in s : TRUE) + g[s \ {CHOOSE c \in s : TRUE}]]
           size == [s \in SUBSET S |-> Cardinality(Pairs(s, f))]
           iter == CHOOSE g : g = Step(g)
<1>1. size = Step(size)
  <2> SUFFICES ASSUME NEW s \in SUBSET S PROVE size[s] = Step(size)[s] OBVIOUS
  <2>1. CASE s = {}
    <3>1. Pairs({}, f) = {} BY DEF Pairs
    <3> QED BY <2>1, <3>1, FS_EmptySet
  <2>2. CASE s # {}
    <3>1. PICK c : c = CHOOSE d \in s : TRUE OBVIOUS
    <3>2. c \in s BY <2>2, <3>1
    <3>3. IsFiniteSet(s) /\ \A d \in s : f[d] \in Nat BY FS_Subset
    <3>4. Cardinality(Pairs(s, f)) = f[c] + Cardinality(Pairs(s \ {c}, f)) BY <3>2, <3>3, PairsAdd
    <3>5. s \ {c} \in SUBSET S OBVIOUS
    <3>6. Told(c) = f[c] BY <3>2
    <3> QED BY <2>2, <3>1, <3>4, <3>5, <3>6
  <2> QED BY <2>1, <2>2
<1>2. iter = Step(iter)
  <2> HIDE DEF Step, size
  <2>1. \E g : g = Step(g) BY <1>1
  <2> QED BY <2>1
<1>3. MapThenSumSet(Told, S) = iter[S] BY DEF MapThenSumSet, MapThenFoldSet
<1> HIDE DEF iter
<1> DEFINE Bad == {T \in FiniteSubsetsOf(S) : iter[T] # size[T]}
<1>4. Bad = {}
  <2> SUFFICES ASSUME Bad # {} PROVE FALSE OBVIOUS
  <2>1. PICK T \in Bad : \A U \in Bad : ~(<<U, T>> \in StrictSubsetOrdering(S))
    BY FS_StrictSubsetOrderingWellFounded, WFMin
  <2>2. T \subseteq S /\ IsFiniteSet(T) /\ iter[T] # size[T] BY DEF FiniteSubsetsOf
  <2>3. iter[T] = Step(iter)[T] /\ size[T] = Step(size)[T] BY <1>1, <1>2
  <2>4. T # {} BY <2>2, <2>3
  <2>5. PICK c : c = CHOOSE d \in T : TRUE OBVIOUS
  <2>6. c \in T BY <2>4, <2>5
  <2>7. PICK U : U = T \ {c} OBVIOUS
  <2>8. U \subseteq T /\ U # T /\ U \subseteq S BY <2>2, <2>6, <2>7
  <2>9. IsFiniteSet(U) BY <2>2, <2>8, FS_Subset
  <2>10. <<U, T>> \in StrictSubsetOrdering(S) BY <2>2, <2>8 DEF StrictSubsetOrdering
  <2>11. iter[U] = size[U] BY <2>1, <2>8, <2>9, <2>10 DEF FiniteSubsetsOf
  <2>12. iter[T] = Told(c) + iter[U] /\ size[T] = Told(c) + size[U]
    <3> HIDE DEF size
    <3> QED BY <2>2, <2>3, <2>4, <2>5, <2>7
  <2> QED BY <2>2, <2>11, <2>12
<1> QED BY <1>3, <1>4 DEF FiniteSubsetsOf


\* What a call with locals k has to tell for process p.
Tells(k, p) == IF k.in = p /\ k.pc \in Writing THEN k.row.missed ELSE 0
Share(p) == [c \in Calls |-> Tells(call[c], p)]
Total(f) == Cardinality(Pairs(Calls, f))

\* A failed write is counted or on its way, and only gap rows tell of failures.
Kept == \A p \in Processes : owed[p] <= pending[p] + Total(Share(p))
Blank(k) == k.pc \in Writing /\ k.row.kind # "gap" => k.row.missed = 0
Remembers == Kept /\ \A c \in Calls : Blank(call[c])

LEMMA TotalTyped ==
  ASSUME NEW f \in [Calls -> Nat]
  PROVE  Total(f) \in Nat
<1>1. \A c \in Calls : f[c] \in Nat OBVIOUS
<1>2. IsFiniteSet(Pairs(Calls, f)) BY <1>1, FiniteAssumption, PairsFinite
<1> QED BY <1>2, FS_CardinalityType DEF Total

\* One call changes what it has to tell.
LEMMA TotalChanges ==
  ASSUME NEW f \in [Calls -> Nat], NEW g \in [Calls -> Nat], NEW c \in Calls,
         \A d \in Calls : d # c => g[d] = f[d]
  PROVE  Total(g) + f[c] = Total(f) + g[c]
<1>1. PICK S : S = Calls \ {c} OBVIOUS
<1>2. Pairs(S, f) = Pairs(S, g)
  <2>1. ASSUME NEW x \in Pairs(S, f) PROVE x \in Pairs(S, g)
    <3>1. PICK d \in S, i \in Nat : x = <<d, i>> /\ 0 < i /\ i <= f[d] BY <2>1, InPairs
    <3>2. g[d] = f[d] BY <1>1
    <3> QED BY <3>1, <3>2, InPairs
  <2>2. ASSUME NEW x \in Pairs(S, g) PROVE x \in Pairs(S, f)
    <3>1. PICK d \in S, i \in Nat : x = <<d, i>> /\ 0 < i /\ i <= g[d] BY <2>2, InPairs
    <3>2. g[d] = f[d] BY <1>1
    <3> QED BY <3>1, <3>2, InPairs
  <2> QED BY <2>1, <2>2
<1>3. PICK n : n = Cardinality(Pairs(S, f)) OBVIOUS
<1>4. n \in Nat /\ Total(f) = f[c] + n
  <2>1. \A d \in Calls : f[d] \in Nat OBVIOUS
  <2> QED BY <1>1, <1>3, <2>1, FiniteAssumption, PairsAdd DEF Total
<1>5. Total(g) = g[c] + n
  <2>1. \A d \in Calls : g[d] \in Nat OBVIOUS
  <2> QED BY <1>1, <1>2, <1>3, <2>1, FiniteAssumption, PairsAdd DEF Total
<1>6. f[c] \in Nat /\ g[c] \in Nat OBVIOUS
<1> QED BY <1>4, <1>5, <1>6

LEMMA TellsTyped ==
  ASSUME NEW k \in Call, NEW p
  PROVE  Tells(k, p) \in Nat
<1>1. k.row \in Row BY DEF Call
<1>2. k.row.missed \in Nat BY <1>1 DEF Row
<1> QED BY <1>2 DEF Tells

LEMMA ShareTyped ==
  ASSUME Typed, NEW p
  PROVE  Share(p) \in [Calls -> Nat] /\ Total(Share(p)) \in Nat
<1>1. \A c \in Calls : Tells(call[c], p) \in Nat BY TellsTyped DEF Typed, TypeOK
<1>2. Share(p) \in [Calls -> Nat] BY <1>1 DEF Share
<1> QED BY <1>2, TotalTyped

\* The sum that the property speaks of.
LEMMA ShareIsSum ==
  ASSUME Typed, NEW p \in Processes
  PROVE  MapThenSumSet(Told, {c \in Calls : call[c].in = p}) = Total(Share(p))
<1>1. PICK f, S : f = Share(p) /\ S = {c \in Calls : call[c].in = p} OBVIOUS
<1>2. \A c \in Calls : f[c] = Tells(call[c], p) /\ f[c] \in Nat BY <1>1, ShareTyped DEF Share
<1>3. IsFiniteSet(S) BY <1>1, FiniteAssumption, FS_Subset
<1>4. \A c \in S : f[c] \in Nat /\ Told(c) = f[c] BY <1>1, <1>2 DEF Told, Tells
<1>5. MapThenSumSet(Told, S) = Cardinality(Pairs(S, f)) BY <1>3, <1>4, SumIs
<1>6. Pairs(S, f) = Pairs(Calls, f)
  <2>1. ASSUME NEW x \in Pairs(S, f) PROVE x \in Pairs(Calls, f)
    <3>1. PICK d \in S, i \in Nat : x = <<d, i>> /\ 0 < i /\ i <= f[d] BY <2>1, InPairs
    <3>2. d \in Calls BY <1>1
    <3> QED BY <3>1, <3>2, InPairs
  <2>2. ASSUME NEW x \in Pairs(Calls, f) PROVE x \in Pairs(S, f)
    <3>1. PICK d \in Calls, i \in Nat : x = <<d, i>> /\ 0 < i /\ i <= f[d] BY <2>2, InPairs
    <3>2. f[d] # 0 BY <3>1
    <3>3. d \in S BY <1>1, <1>2, <3>2 DEF Tells
    <3> QED BY <3>1, <3>3, InPairs
  <2> QED BY <2>1, <2>2
<1> QED BY <1>1, <1>5, <1>6 DEF Total

\* A step of one call: what becomes owed is counted or told of by that call.
LEMMA KeptMoves ==
  ASSUME Typed, Typed', Kept, NEW c \in Calls, \A d \in Calls : d # c => call'[d] = call[d],
         NEW g, g = call[c], NEW h, h = call'[c],
         \A p \in Processes :
           \/ owed'[p] = 0
           \/ owed'[p] + pending[p] + Tells(g, p) <= owed[p] + pending'[p] + Tells(h, p)
  PROVE  Kept'
<1> SUFFICES ASSUME NEW p \in Processes PROVE owed'[p] <= pending'[p] + Total(Share(p))'
  BY DEF Kept
<1>1. PICK f, e : f = Share(p) /\ e = Share(p)' OBVIOUS
<1>2. f \in [Calls -> Nat] /\ Total(f) \in Nat BY <1>1, ShareTyped
<1>3. e \in [Calls -> Nat]
  <2>1. \A d \in Calls : Tells(call'[d], p) \in Nat BY TellsTyped DEF Typed, TypeOK
  <2> QED BY <1>1, <2>1 DEF Share
<1>4. Total(e) \in Nat BY <1>3, TotalTyped
<1>5. f[c] = Tells(g, p) /\ e[c] = Tells(h, p) /\ \A d \in Calls : d # c => e[d] = f[d] BY <1>1 DEF Share
<1>6. Total(e) + f[c] = Total(f) + e[c] BY <1>2, <1>3, <1>5, TotalChanges
<1>7. /\ owed[p] \in Nat /\ owed'[p] \in Nat /\ pending[p] \in Nat /\ pending'[p] \in Nat
      /\ f[c] \in Nat /\ e[c] \in Nat
  BY <1>2, <1>3 DEF Typed, TypeOK
<1>8. owed[p] <= pending[p] + Total(f) BY <1>1 DEF Kept
<1>9. owed'[p] <= pending'[p] + Total(e)
  <2>1. CASE owed'[p] = 0 BY <1>4, <1>7, <2>1
  <2>2. CASE owed'[p] + pending[p] + f[c] <= owed[p] + pending'[p] + e[c]
    BY <1>2, <1>4, <1>6, <1>7, <1>8, <2>2
  <2> QED BY <1>5, <2>1, <2>2
<1>10. Total(Share(p))' = Total(e) BY <1>1 DEF Total, Pairs
<1> QED BY <1>9, <1>10

\* A step that moves no failure.
LEMMA KeptStays ==
  ASSUME Typed, Kept, UNCHANGED <<owed, pending>>,
         \A d \in Calls : \A p \in Processes : Tells(call'[d], p) = Tells(call[d], p)
  PROVE  Kept'
<1> SUFFICES ASSUME NEW p \in Processes PROVE owed'[p] <= pending'[p] + Total(Share(p))'
  BY DEF Kept
<1>1. Share(p)' = Share(p) BY DEF Share
<1>2. Total(Share(p))' = Total(Share(p)) BY <1>1 DEF Total, Pairs
<1> QED BY <1>2 DEF Kept


\* A step of one call that was not writing and counts nothing.
LEMMA QuietRemembers ==
  ASSUME Typed, Typed', Remembers, UNCHANGED <<owed, pending>>, NEW c \in Calls, call[c].pc \notin Writing,
         \A d \in Calls : d # c => call'[d] = call[d],
         NEW h, h = call'[c], Blank(h)
  PROVE  Remembers'
<1>1. PICK g : g = call[c] OBVIOUS
<1>2. \A p \in Processes : owed'[p] + pending[p] + Tells(g, p) <= owed[p] + pending'[p] + Tells(h, p)
  <2> SUFFICES ASSUME NEW p \in Processes
               PROVE  owed'[p] + pending[p] + Tells(g, p) <= owed[p] + pending'[p] + Tells(h, p)
    OBVIOUS
  <2>1. Tells(g, p) = 0 BY <1>1 DEF Tells
  <2>2. Tells(h, p) \in Nat BY TellsTyped DEF Typed, TypeOK
  <2>3. owed[p] \in Nat /\ pending[p] \in Nat BY DEF Typed, TypeOK
  <2> QED BY <2>1, <2>2, <2>3
<1>3. Kept' BY <1>1, <1>2, KeptMoves DEF Remembers
<1>4. \A d \in Calls : Blank(call'[d]) BY DEF Remembers
<1> QED BY <1>3, <1>4 DEF Remembers, Blank

LEMMA VerifyingRemembers ==
  ASSUME Typed, Typed', Remembers, NEW c \in Calls,
         \/ ReadStop(c) \/ ReadPred(c) \/ ReadFirst(c) \/ ReadAnchors(c) \/ ReadPage(c)
         \/ Throws(c) \/ \E p \in Processes : NewCall(c, p) /\ ~Record(c, p)
  PROVE  Remembers'
<1>1. PICK h : h = call'[c] OBVIOUS
<1>2. h.pc \in {"idle", "list"} \cup Verifying /\ \A d \in Calls : d # c => call'[d] = call[d]
  BY <1>1, VerifyingLocals
<1>3. Blank(h) BY <1>2 DEF Blank, Writing, Verifying
<1>4. UNCHANGED <<owed, pending>>
  BY DEF ReadStop, ReadPred, ReadFirst, ReadAnchors, ReadPage, Throws, NewCall, Verify, Cleanup, memory, history
<1>5. call[c].pc \notin Writing
  <2>1. call[c] = Idle \/ call[c].pc \in {"list", "delete"} \cup Verifying
    <3>1. CASE ReadStop(c) \/ ReadPred(c) \/ ReadFirst(c) \/ ReadAnchors(c) \/ ReadPage(c) \/ Throws(c)
      BY <3>1 DEF ReadStop, ReadPred, ReadFirst, ReadAnchors, ReadPage, Throws, At, Verifying
    <3>2. ASSUME NEW p \in Processes, NewCall(c, p), ~Record(c, p)
          PROVE  call[c] = Idle
      BY <3>2 DEF NewCall, Verify, Cleanup
    <3> QED BY <3>1, <3>2
  <2> QED BY <2>1 DEF Idle, Writing, Verifying
<1> QED BY <1>1, <1>2, <1>3, <1>4, <1>5, QuietRemembers

\* A new row, but for a gap row, tells of no failure.
LEMMA RowsRemember ==
  ASSUME Typed, Typed', Remembers, NEW c \in Calls, RecordEvent(c) \/ ListExpired(c)
  PROVE  Remembers'
<1>1. PICK g, h : g = call[c] /\ h = call'[c] OBVIOUS
<1>2. g \in Call /\ call \in [Calls -> Call] BY <1>1 DEF Typed, TypeOK
<1>3. UNCHANGED <<owed, pending>> /\ g.pc \notin Writing
  BY <1>1 DEF RecordEvent, ListExpired, At, Writing, memory, history
<1>4. \A d \in Calls : d # c => call'[d] = call[d] BY <1>2 DEF RecordEvent, ListExpired, Return
<1>5. \A kind : Stamped(kind).missed = 0 BY DEF Stamped, NoRow
<1>6. Blank(h)
  <2>1. CASE RecordEvent(c)
    <3>1. h = [g EXCEPT !.pc = "head", !.row = Stamped("event"), !.attempts = 0]
      BY <1>1, <1>2, <2>1 DEF RecordEvent
    <3>2. h.row = Stamped("event") BY <1>2, <3>1 DEF Call
    <3> QED BY <1>5, <3>2 DEF Blank
  <2>2. CASE Return(c)
    <3>1. h = Idle BY <1>1, <1>2, <2>2 DEF Return
    <3> QED BY <3>1 DEF Idle, Blank, Writing
  <2>3. ASSUME NEW last, call' = [call EXCEPT ![c].pc = "head",
                                    ![c].row = [Stamped("checkpoint") EXCEPT !.upto = last]]
        PROVE  Blank(h)
    <3>1. PICK r : r = [Stamped("checkpoint") EXCEPT !.upto = last] OBVIOUS
    <3>2. r.missed = 0 BY <3>1 DEF Stamped, NoRow
    <3>3. h = [g EXCEPT !.pc = "head", !.row = r] BY <1>1, <1>2, <2>3, <3>1
    <3>4. h.row = r BY <1>2, <3>3 DEF Call
    <3> QED BY <3>2, <3>4 DEF Blank
  <2> QED BY <2>1, <2>2, <2>3 DEF ListExpired
<1> QED BY <1>1, <1>3, <1>4, <1>6, QuietRemembers

\* The failures counted so far are on their way.
LEMMA RecordRemembers ==
  ASSUME Typed, Typed', Remembers, NEW c \in Calls, NEW q \in Processes, Record(c, q)
  PROVE  Remembers'
<1>1. PICK g, h : g = call[c] /\ h = call'[c] OBVIOUS
<1>2. g = Idle /\ g \in Call /\ call \in [Calls -> Call] BY <1>1 DEF Record, Typed, TypeOK
<1>3. PICK r : r = IF pending[q] = 0 THEN Stamped("event") ELSE [Stamped("gap") EXCEPT !.missed = pending[q]]
  OBVIOUS
<1>4. r.missed = pending[q] /\ (r.kind # "gap" => r.missed = 0) BY <1>3 DEF Stamped, NoRow
<1>5. h = [g EXCEPT !.pc = "head", !.in = q, !.row = r] BY <1>1, <1>2, <1>3 DEF Record
<1>6. h.pc = "head" /\ h.in = q /\ h.row = r BY <1>2, <1>5 DEF Call
<1>7. \A d \in Calls : d # c => call'[d] = call[d] BY <1>2 DEF Record
<1>8. UNCHANGED owed /\ pending' = [pending EXCEPT ![q] = 0] BY DEF Record, history
<1>9. \A p \in Processes : owed'[p] + pending[p] + Tells(g, p) <= owed[p] + pending'[p] + Tells(h, p)
  <2> SUFFICES ASSUME NEW p \in Processes
               PROVE  owed'[p] + pending[p] + Tells(g, p) <= owed[p] + pending'[p] + Tells(h, p)
    OBVIOUS
  <2>1. Tells(g, p) = 0 BY <1>2 DEF Tells, Idle, Writing
  <2>2. owed[p] \in Nat /\ pending \in [Processes -> Nat] BY DEF Typed, TypeOK
  <2>3. CASE p = q
    <3>1. Tells(h, p) = pending[q] BY <1>4, <1>6, <2>3 DEF Tells, Writing
    <3> QED BY <1>8, <2>1, <2>2, <2>3, <3>1
  <2>4. CASE p # q
    <3>1. Tells(h, p) = 0 BY <1>6, <2>4 DEF Tells
    <3> QED BY <1>8, <2>1, <2>2, <2>4, <3>1
  <2> QED BY <2>3, <2>4
<1>10. Kept' BY <1>1, <1>7, <1>9, KeptMoves DEF Remembers
<1>11. Blank(h) BY <1>4, <1>6 DEF Blank
<1>12. \A d \in Calls : Blank(call'[d]) BY <1>1, <1>7, <1>11 DEF Remembers
<1> QED BY <1>10, <1>12 DEF Remembers, Blank

\* Another attempt at the same row.
LEMMA AttemptsRemember ==
  ASSUME Typed, Typed', Remembers, NEW c \in Calls, ReadHead(c) \/ AppendRefused(c)
  PROVE  Remembers'
<1>1. PICK g, h : g = call[c] /\ h = call'[c] OBVIOUS
<1>2. g \in Call /\ g.row \in Row /\ call \in [Calls -> Call] BY <1>1 DEF Typed, TypeOK, Call
<1>3. UNCHANGED <<owed, pending>> BY DEF ReadHead, AppendRefused, memory, history
<1>4. \A d \in Calls : d # c => call'[d] = call[d] BY <1>2 DEF ReadHead, AppendRefused
<1>5. g.pc \in Writing BY <1>1 DEF ReadHead, AppendRefused, At, Writing
<1>6. h.pc \in Writing /\ h.in = g.in /\ h.row.missed = g.row.missed /\ h.row.kind = g.row.kind
  <2>1. CASE ReadHead(c)
    <3>1. PICK s, i : call' = [call EXCEPT ![c].pc = "append", ![c].row.seq = s, ![c].row.prev = i]
      BY <2>1 DEF ReadHead
    <3>2. h = [g EXCEPT !.pc = "append", !.row.seq = s, !.row.prev = i] BY <1>1, <1>2, <3>1
    <3>3. h.pc = "append" /\ h.in = g.in BY <1>2, <3>2 DEF Call
    <3>4. h.row.missed = g.row.missed /\ h.row.kind = g.row.kind BY <1>2, <3>2 DEF Call, Row
    <3> QED BY <3>3, <3>4 DEF Writing
  <2>2. CASE AppendRefused(c)
    <3>1. h = [g EXCEPT !.pc = "head", !.attempts = g.attempts + 1] BY <1>1, <1>2, <2>2 DEF AppendRefused
    <3>2. h.pc = "head" /\ h.in = g.in /\ h.row = g.row BY <1>2, <3>1 DEF Call
    <3> QED BY <3>2 DEF Writing
  <2> QED BY <2>1, <2>2
<1>7. \A d \in Calls : \A p \in Processes : Tells(call'[d], p) = Tells(call[d], p)
  BY <1>1, <1>4, <1>5, <1>6 DEF Tells
<1>8. Kept' BY <1>3, <1>7, KeptStays DEF Remembers
<1>9. Blank(g) BY <1>1 DEF Remembers
<1>10. Blank(h) BY <1>5, <1>6, <1>9 DEF Blank
<1>11. \A d \in Calls : Blank(call'[d]) BY <1>1, <1>4, <1>10 DEF Remembers
<1> QED BY <1>8, <1>11 DEF Remembers, Blank


\* What an insert settles, the row that is written tells of.
LEMMA InsertedRemembers ==
  ASSUME Typed, Typed', Remembers, NEW c \in Calls, call[c].pc \in Writing,
         NEW h, h = call'[c], h.pc \notin Writing, \A d \in Calls : d # c => call'[d] = call[d],
         NEW g, g = call[c],
         \A p \in Processes : p # g.in => owed'[p] = owed[p] /\ pending'[p] = pending[p],
         LET q == g.in IN
           \/ owed'[q] = 0
           \/ owed'[q] + pending[q] + g.row.missed <= owed[q] + pending'[q]
  PROVE  Remembers'
<1>1. \A p \in Processes :
        \/ owed'[p] = 0
        \/ owed'[p] + pending[p] + Tells(g, p) <= owed[p] + pending'[p] + Tells(h, p)
  <2> SUFFICES ASSUME NEW p \in Processes, owed'[p] # 0
               PROVE  owed'[p] + pending[p] + Tells(g, p) <= owed[p] + pending'[p] + Tells(h, p)
    OBVIOUS
  <2>1. Tells(h, p) = 0 BY DEF Tells
  <2>2. owed[p] \in Nat /\ owed'[p] \in Nat /\ pending[p] \in Nat /\ pending'[p] \in Nat BY DEF Typed, TypeOK
  <2>3. CASE p = g.in
    <3>1. Tells(g, p) = g.row.missed BY <2>3 DEF Tells
    <3> QED BY <2>1, <2>2, <2>3, <3>1
  <2>4. CASE p # g.in
    <3>1. Tells(g, p) = 0 BY <2>4 DEF Tells
    <3> QED BY <2>1, <2>2, <2>4, <3>1
  <2> QED BY <2>3, <2>4
<1>2. Kept' BY <1>1, KeptMoves DEF Remembers
<1>3. Blank(h) BY DEF Blank
<1>4. \A d \in Calls : Blank(call'[d]) BY <1>3 DEF Remembers
<1> QED BY <1>2, <1>4 DEF Remembers, Blank

LEMMA AppendRemembers ==
  ASSUME Typed, Typed', Remembers, NEW c \in Calls, AppendRow(c)
  PROVE  Remembers'
<1>1. PICK g, h, q : g = call[c] /\ h = call'[c] /\ q = g.in OBVIOUS
<1>2. g \in Call /\ g.row \in Row /\ call \in [Calls -> Call] BY <1>1 DEF Typed, TypeOK, Call
<1>3. Inserted(c) /\ UNCHANGED pending /\ g.pc = "append" /\ q \in Processes
  BY <1>1 DEF AppendRow, Inserted, At, Typed, CallsPlaced
<1>4. Return(c) \/ Go(c, "event") \/ Go(c, "delete")
  <2>1. g.row.kind \in Kinds BY <1>2 DEF Row
  <2> QED BY <1>1, <2>1 DEF AppendRow, AfterAppend, Kinds
<1>5. h.pc \notin Writing
  <2>1. CASE Return(c)
    <3>1. h = Idle BY <1>1, <1>2, <2>1 DEF Return
    <3> QED BY <3>1 DEF Idle, Writing
  <2>2. ASSUME NEW pc \in {"event", "delete"}, Go(c, pc)
        PROVE  h.pc \notin Writing
    <3>1. h = [g EXCEPT !.pc = pc] BY <1>1, <1>2, <2>2 DEF Go
    <3>2. h.pc = pc BY <1>2, <3>1 DEF Call
    <3> QED BY <3>2 DEF Writing
  <2> QED BY <1>4, <2>1, <2>2
<1>6. \A d \in Calls : d # c => call'[d] = call[d] BY <1>2, <1>4 DEF Return, Go
<1>7. owed' = [owed EXCEPT ![q] = IF owed[q] > g.row.missed THEN owed[q] - g.row.missed ELSE 0]
  BY <1>1, <1>3 DEF Inserted
<1>8. owed \in [Processes -> Nat] /\ pending \in [Processes -> Nat] /\ g.row.missed \in Nat
  BY <1>2 DEF Typed, TypeOK, Row
<1>9. owed'[q] = 0 \/ owed'[q] + pending[q] + g.row.missed <= owed[q] + pending'[q]
  BY <1>3, <1>7, <1>8
<1>10. \A p \in Processes : p # q => owed'[p] = owed[p] /\ pending'[p] = pending[p]
  BY <1>3, <1>7, <1>8
<1>11. call[c].pc \in Writing BY <1>1, <1>3 DEF Writing
<1> QED BY <1>1, <1>5, <1>6, <1>9, <1>10, <1>11, InsertedRemembers

\* What a write that fails leaves to tell, its process counts again.
LEMMA WriteFailsRemembers ==
  ASSUME Typed, Typed', Remembers, NEW c \in Calls, GiveUp(c) \/ StatementFails(c)
  PROVE  Remembers'
<1>1. PICK g, h, q : g = call[c] /\ h = call'[c] /\ q = g.in OBVIOUS
<1>2. g \in Call /\ g.row \in Row /\ call \in [Calls -> Call] BY <1>1 DEF Typed, TypeOK, Call
<1>3. WriteFails(c) /\ (Owe(c) \/ Inserted(c)) BY DEF GiveUp, StatementFails
<1>4. g.pc \in Writing BY <1>1 DEF GiveUp, StatementFails, Inserted, At, Writing
<1>5. q \in Processes BY <1>1, <1>4 DEF Typed, CallsPlaced, Writing
<1>6. Return(c) \/ Go(c, "event") BY <1>3 DEF WriteFails
<1>7. h.pc \notin Writing
  <2>1. CASE Return(c)
    <3>1. h = Idle BY <1>1, <1>2, <2>1 DEF Return
    <3> QED BY <3>1 DEF Idle, Writing
  <2>2. CASE Go(c, "event")
    <3>1. h = [g EXCEPT !.pc = "event"] BY <1>1, <1>2, <2>2 DEF Go
    <3>2. h.pc = "event" BY <1>2, <3>1 DEF Call
    <3> QED BY <3>2 DEF Writing
  <2> QED BY <1>6, <2>1, <2>2
<1>8. \A d \in Calls : d # c => call'[d] = call[d] BY <1>2, <1>6 DEF Return, Go
<1>9. PICK m, n : m = g.row.missed /\ n = pending[q] OBVIOUS
<1>10. owed \in [Processes -> Nat] /\ pending \in [Processes -> Nat] /\ m \in Nat /\ n \in Nat /\ owed[q] \in Nat
  BY <1>2, <1>5, <1>9 DEF Typed, TypeOK, Row
<1>11. g.row.kind # "gap" => m = 0 BY <1>1, <1>4, <1>9 DEF Remembers, Blank
<1>12. /\ \A p \in Processes : p # q => pending'[p] = pending[p]
       /\ \/ g.row.kind = "gap" /\ pending'[q] = n + m
          \/ g.row.kind = "event" /\ pending'[q] = n + 1
          \/ g.row.kind = "checkpoint" /\ pending'[q] = n
  <2>1. \/ g.row.kind = "gap" /\ pending' = [pending EXCEPT ![q] = n + m]
        \/ g.row.kind = "event" /\ pending' = [pending EXCEPT ![q] = n + 1]
        \/ g.row.kind = "checkpoint" /\ pending' = pending
    BY <1>1, <1>3, <1>9 DEF WriteFails, Restored
  <2> QED BY <1>5, <1>9, <1>10, <2>1
<1>13. /\ \A p \in Processes : p # q => owed'[p] = owed[p]
       /\ owed'[q] = 0 \/ owed'[q] + n + m <= owed[q] + pending'[q]
  <2>1. CASE Owe(c)
    <3>1. owed' = [owed EXCEPT ![q] = owed[q] + (IF g.row.kind = "event" THEN 1 ELSE 0)]
      BY <1>1, <2>1 DEF Owe
    <3>2. \A p \in Processes : p # q => owed'[p] = owed[p] BY <1>10, <3>1
    <3>3. owed'[q] = IF g.row.kind = "event" THEN owed[q] + 1 ELSE owed[q] BY <1>5, <1>10, <3>1
    <3>4. owed'[q] + n + m <= owed[q] + pending'[q] BY <1>10, <1>11, <1>12, <3>3
    <3> QED BY <3>2, <3>4
  <2>2. CASE Inserted(c)
    <3>1. owed' = [owed EXCEPT ![q] = IF owed[q] > m THEN owed[q] - m ELSE 0]
      BY <1>1, <1>9, <2>2 DEF Inserted
    <3>2. \A p \in Processes : p # q => owed'[p] = owed[p] BY <1>10, <3>1
    <3>3. owed'[q] = IF owed[q] > m THEN owed[q] - m ELSE 0 BY <1>5, <1>10, <3>1
    <3>4. pending'[q] >= n /\ pending'[q] \in Nat BY <1>10, <1>12
    <3>5. owed'[q] = 0 \/ owed'[q] + n + m <= owed[q] + pending'[q] BY <1>10, <3>3, <3>4
    <3> QED BY <3>2, <3>5
  <2> QED BY <1>3, <2>1, <2>2
<1>14. call[c].pc \in Writing BY <1>1, <1>4
<1> QED BY <1>1, <1>7, <1>8, <1>9, <1>12, <1>13, <1>14, InsertedRemembers

\* A deletion, which at most disturbs a verification, and the clock.
LEMMA DeleteRemembers ==
  ASSUME Typed, Remembers, Tick \/ \E c \in Calls : Delete(c)
  PROVE  Remembers'
<1>1. ASSUME NEW c \in Calls, Delete(c), NEW d \in Calls
      PROVE  /\ \A p : Tells(call'[d], p) = Tells(call[d], p)
             /\ Blank(call'[d])
  <2>1. PICK g, h : g = call[d] /\ h = call'[d] OBVIOUS
  <2>2. g \in Call /\ Blank(g) BY <2>1 DEF Typed, TypeOK, Remembers
  <2>3. CASE d = c
    <3>1. h = Idle /\ g.pc = "delete" BY <1>1, <2>1, <2>3 DEF Delete, At
    <3>2. h.pc \notin Writing /\ g.pc \notin Writing BY <3>1 DEF Idle, Writing
    <3> QED BY <2>1, <3>2 DEF Tells, Blank
  <2>4. CASE d # c
    <3>1. h = [g EXCEPT !.disturbed = g.pc \in Verifying /\ (g.disturbed \/ table' # table)]
      BY <1>1, <2>1, <2>4 DEF Delete
    <3>2. h.pc = g.pc /\ h.in = g.in /\ h.row = g.row BY <2>2, <3>1 DEF Call
    <3> QED BY <2>1, <2>2, <3>2 DEF Tells, Blank
  <2> QED BY <2>3, <2>4
<1>2. CASE Tick
  <2>1. UNCHANGED <<owed, pending, call>> BY <1>2 DEF Tick, memory, history
  <2>2. Kept' BY <2>1, KeptStays DEF Remembers
  <2> QED BY <2>1, <2>2 DEF Remembers
<1>3. ASSUME NEW c \in Calls, Delete(c)
      PROVE  Remembers'
  <2>1. UNCHANGED <<owed, pending>> BY <1>3 DEF Delete, memory, history
  <2>2. Kept' BY <1>1, <1>3, <2>1, KeptStays DEF Remembers
  <2>3. \A d \in Calls : Blank(call'[d]) BY <1>1, <1>3
  <2> QED BY <2>2, <2>3 DEF Remembers, Blank
<1> QED BY <1>2, <1>3

\* A process that dies owes nothing any more, and the others what they owed.
LEMMA CrashRemembers ==
  ASSUME Typed, Remembers, NEW q \in Processes, RecordFails(q) \/ Crash(q)
  PROVE  Remembers'
<1>1. CASE RecordFails(q)
  <2>1. /\ call' = call /\ pending' = [pending EXCEPT ![q] = pending[q] + 1]
        /\ owed' = [owed EXCEPT ![q] = owed[q] + 1]
    BY <1>1 DEF RecordFails
  <2>2. ASSUME NEW p \in Processes
        PROVE  owed'[p] <= pending'[p] + Total(Share(p))'
    <3>1. Total(Share(p))' = Total(Share(p)) BY <2>1 DEF Share, Total, Pairs
    <3>2. owed \in [Processes -> Nat] /\ pending \in [Processes -> Nat] /\ Total(Share(p)) \in Nat
      BY ShareTyped DEF Typed, TypeOK
    <3>3. owed[p] <= pending[p] + Total(Share(p)) BY DEF Remembers, Kept
    <3> QED BY <2>1, <3>1, <3>2, <3>3
  <2>3. Kept' BY <2>2 DEF Kept
  <2> QED BY <2>1, <2>3 DEF Remembers
<1>2. CASE Crash(q)
  <2>1. /\ pending' = [pending EXCEPT ![q] = 0] /\ owed' = [owed EXCEPT ![q] = 0]
        /\ \A d \in Calls : call'[d] = IF call[d].in = q THEN Idle ELSE call[d]
    BY <1>2 DEF Crash
  <2>2. owed \in [Processes -> Nat] /\ pending \in [Processes -> Nat] BY DEF Typed, TypeOK
  <2>3. \A p : Tells(Idle, p) = 0 BY DEF Tells, Idle, Writing
  <2>4. ASSUME NEW p \in Processes
        PROVE  owed'[p] <= pending'[p] + Total(Share(p))'
    <3>1. CASE p = q
      <4>1. owed'[p] = 0 /\ pending'[p] = 0 BY <2>1, <2>2, <3>1
      <4>2. \A d \in Calls : Tells(call'[d], p) = 0 BY <2>1, <2>3, <3>1 DEF Tells
      <4>3. PICK f : f = Share(p)' OBVIOUS
      <4>4. f \in [Calls -> Nat] BY <4>2, <4>3 DEF Share
      <4>5. Total(f) \in Nat BY <4>4, TotalTyped
      <4>6. Total(Share(p))' = Total(f) BY <4>3 DEF Total, Pairs
      <4> QED BY <4>1, <4>5, <4>6
    <3>2. CASE p # q
      <4>1. \A d \in Calls : Tells(call'[d], p) = Tells(call[d], p) BY <2>1, <2>3, <3>2 DEF Tells
      <4>2. Share(p)' = Share(p) BY <4>1 DEF Share
      <4>3. Total(Share(p))' = Total(Share(p)) BY <4>2 DEF Total, Pairs
      <4>4. owed'[p] = owed[p] /\ pending'[p] = pending[p] BY <2>1, <2>2, <3>2
      <4> QED BY <4>3, <4>4 DEF Remembers, Kept
    <3> QED BY <3>1, <3>2
  <2>5. Kept' BY <2>4 DEF Kept
  <2>6. Blank(Idle) BY DEF Blank, Idle, Writing
  <2>7. \A d \in Calls : Blank(call'[d]) BY <2>1, <2>6 DEF Remembers
  <2> QED BY <2>5, <2>7 DEF Remembers, Blank
<1> QED BY <1>1, <1>2

LEMMA RemembersInvariant == Spec => [](Typed /\ Remembers)
<1>1. Init => Remembers
  <2> SUFFICES ASSUME Init PROVE Remembers
    OBVIOUS
  <2>1. Typed BY InitTyped
  <2>2. Kept
    <3>1. \A p \in Processes : owed[p] = 0 /\ pending[p] = 0 BY DEF Init
    <3>2. \A p \in Processes : Total(Share(p)) \in Nat BY <2>1, ShareTyped
    <3> QED BY <3>1, <3>2 DEF Kept
  <2>3. \A d \in Calls : call[d] = Idle BY DEF Init
  <2> QED BY <2>2, <2>3 DEF Remembers, Blank, Idle, Writing
<1>2. Typed /\ Remembers /\ [Next]_vars => Remembers'
  <2> SUFFICES ASSUME Typed, Remembers, [Next]_vars
               PROVE  Remembers'
    OBVIOUS
  <2>1. Typed' BY NextTyped
  <2>2. CASE UNCHANGED vars
    <3>1. UNCHANGED <<owed, pending, call>> BY <2>2 DEF vars, memory, history
    <3>2. Kept' BY <3>1, KeptStays DEF Remembers
    <3> QED BY <3>1, <3>2 DEF Remembers
  <2>3. ASSUME NEW p \in Processes, RecordFails(p) \/ Crash(p)
        PROVE  Remembers'
    BY <2>3, CrashRemembers
  <2>4. CASE Tick BY <2>4, DeleteRemembers
  <2>5. ASSUME NEW c \in Calls, NEW p \in Processes, NewCall(c, p)
        PROVE  Remembers'
    BY <2>1, <2>5, RecordRemembers, VerifyingRemembers
  <2>6. ASSUME NEW c \in Calls, Continue(c) \/ StatementFails(c) \/ Throws(c)
        PROVE  Remembers'
    BY <2>1, <2>6, AttemptsRemember, AppendRemembers, WriteFailsRemembers, RowsRemember, DeleteRemembers,
       VerifyingRemembers DEF Continue
  <2> QED BY <2>2, <2>3, <2>4, <2>5, <2>6 DEF Next
<1> QED BY <1>1, <1>2, TypedInvariant, PTL DEF Spec

\* A process forgets no failed write while it lives: whatever races, refused
\* appends and gap rows that fail themselves, each is still counted or on its
\* way in a gap row until a written row has told of it.
THEOREM FailuresStayTold == Spec => []FailuresAreTold
<1>1. Typed /\ Remembers => FailuresAreTold
  <2> SUFFICES ASSUME Typed, Remembers, NEW p \in Processes
               PROVE  owed[p] <= pending[p] + MapThenSumSet(Told, {c \in Calls : call[c].in = p})
    BY DEF FailuresAreTold
  <2> QED BY ShareIsSum DEF Remembers, Kept
<1> QED BY <1>1, RemembersInvariant, PTL
================================================================================

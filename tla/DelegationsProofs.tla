--------------------------- MODULE DelegationsProofs ---------------------------
(***************************************************************************)
(* Proofs about Delegations.                                               *)
(*                                                                         *)
(* First, a link is never marked revoked without its audit row, however    *)
(* calls interleave and wherever they are cut short.  The status is        *)
(* flipped several statements after it was read, so the property alone is  *)
(* not inductive.  What carries it is that a link due to be flipped is     *)
(* either audited or was not active any more, and that no link becomes     *)
(* active after that: only a fresh link is inserted, and a revocation      *)
(* works on links that have been inserted already (IInv).                  *)
(*                                                                         *)
(* Then, types, the number of audit rows, and that revocations racing      *)
(* delegations strand no link (Rests, which stands on IInv).               *)
(*                                                                         *)
(* Last, what the recursive walk of liveness computes: the agents that a   *)
(* chain of usable links connects to authority.  Both recursions are shown *)
(* to have a solution (WalkEnds, RootedIs); the rest is by induction on    *)
(* the agents a walk has not seen (AllTrails) and on the rounds in which   *)
(* the chains grow.                                                        *)
(***************************************************************************)
EXTENDS Delegations, SequenceTheorems, FiniteSetTheorems, TLAPS

Inserting == {"authority", "insert"}
Revoking == {"read", "lookup", "write", "flip", "children"}
\* The links that have been inserted, whatever became of them since.
Inserted == {l \in Links : status[l] # "none"}
Audited(l) == revokeRows[l] > 0 \/ l \in lost
\* l may be flipped: it is audited, or somebody has ended it before.
Settled(l) == Audited(l) \/ status[l] \in {"revoked", "gone"}

Fields(k) ==
  /\ k = [pc |-> k.pc, link |-> k.link, agent |-> k.agent, inbound |-> k.inbound,
          expiresAt |-> k.expiresAt, depth |-> k.depth, maxDepth |-> k.maxDepth,
          rows |-> k.rows, todo |-> k.todo]
  /\ k.todo \in Seq(SUBSET Links)

\* What a call is about to insert is fresh; what it is revoking, or has still to
\* revoke, has been inserted; and what it is about to flip is settled.
CallOK(k) ==
  /\ Fields(k)
  /\ k.pc \in Inserting => k.link \in Links \ Inserted
  /\ k.pc \in Revoking \cup {"recheck", "rollback"} => k.link \in Inserted
  /\ k.rows \subseteq Inserted
  /\ \A i \in 1..Len(k.todo) : k.todo[i] \subseteq Inserted
  /\ k.pc = "flip" => Settled(k.link)

Typed ==
  /\ status \in [Links -> {"none", "active", "revoked", "gone"}]
  /\ revokeRows \in [Links -> Nat]
  /\ DOMAIN call = Calls

CallsOK == \A c \in Calls : CallOK(call[c])

\* No two calls are inserting the same link.
InsertedOnce ==
  \A c, d \in Calls :
    call[c].pc \in Inserting /\ call[d].pc \in Inserting /\ call[c].link = call[d].link => c = d

IInv == Typed /\ CallsOK /\ InsertedOnce /\ RevokedIsAudited

--------------------------------------------------------------------------------
\* Dropping the last set of a non-empty sequence of sets, or replacing it by a
\* part of it, leaves a sequence of sets of the same links.
LEMMA TodoShrinks ==
  ASSUME NEW S, NEW s \in Seq(SUBSET Links), s # <<>>,
         \A i \in 1..Len(s) : s[i] \subseteq S,
         NEW r, r \subseteq Last(s)
  PROVE  /\ Last(s) \subseteq S
         /\ Front(s) \in Seq(SUBSET Links)
         /\ Append(Front(s), r) \in Seq(SUBSET Links)
         /\ \A i \in 1..Len(Front(s)) : Front(s)[i] \subseteq S
         /\ \A i \in 1..Len(Append(Front(s), r)) : Append(Front(s), r)[i] \subseteq S
<1> DEFINE f == SubSeq(s, 1, Len(s) - 1)
<1>1. Len(s) \in Nat \ {0}  BY EmptySeq, LenProperties
<1>2. Front(s) = f  BY DEF Front
<1>3. Last(s) = s[Len(s)] /\ Last(s) \in SUBSET Links /\ Last(s) \subseteq S
  BY <1>1, ElementOfSeq DEF Last
<1>4. /\ f \in Seq(SUBSET Links) /\ Len(f) = Len(s) - 1
      /\ \A i \in 1..Len(f) : f[i] = s[i]
  <2> DEFINE n == Len(s) - 1
  <2>1. n \in Nat /\ Len(s) = n + 1
    BY <1>1
  <2>2. \A i \in 1..n : s[i] \in SUBSET Links
    BY <2>1, ElementOfSeq
  <2> HIDE DEF n
  <2>3. /\ SubSeq(s, 1, n) \in Seq(SUBSET Links)
        /\ Len(SubSeq(s, 1, n)) = IF 1 <= n THEN n - 1 + 1 ELSE 0
        /\ \A i \in 1..(n - 1 + 1) : SubSeq(s, 1, n)[i] = s[1 + i - 1]
    BY <2>1, <2>2, SubSeqProperties
  <2>4. Len(SubSeq(s, 1, n)) = n /\ \A i \in 1..n : SubSeq(s, 1, n)[i] = s[i]
    BY <2>1, <2>3
  <2> QED
    BY <2>3, <2>4 DEF n
<1>5. \A i \in 1..Len(f) : f[i] \subseteq S  BY <1>1, <1>4
<1>6. /\ Append(f, r) \in Seq(SUBSET Links) /\ Len(Append(f, r)) = Len(s)
      /\ \A i \in 1..Len(f) : Append(f, r)[i] = f[i]
      /\ Append(f, r)[Len(s)] = r
  <2> HIDE DEF f
  <2>1. r \in SUBSET Links  BY <1>3
  <2>2. Len(f) + 1 = Len(s)  BY <1>1, <1>4
  <2> QED BY <1>4, <2>1, <2>2, AppendProperties
<1>7. \A i \in 1..Len(Append(f, r)) : Append(f, r)[i] \subseteq S
  <2> HIDE DEF f
  <2> TAKE i \in 1..Len(Append(f, r))
  <2>1. i = Len(s) \/ i \in 1..Len(f)  BY <1>1, <1>4, <1>6
  <2> QED BY <2>1, <1>3, <1>5, <1>6
<1> QED BY <1>2, <1>3, <1>4, <1>5, <1>6, <1>7

\* A call that does not move keeps what it relies on.
LEMMA OthersKeep ==
  ASSUME NEW k, CallOK(k),
         \A l \in Inserted : l \in Inserted' /\ (Settled(l) => Settled(l)'),
         k.pc \in Inserting => k.link \notin Inserted'
  PROVE  CallOK(k)'
<1>1. Inserted \subseteq Inserted'
  OBVIOUS
<1>2. k.pc = "flip" => k.link \in Inserted
  BY DEF CallOK, Revoking
<1> QED
  BY <1>1, <1>2 DEF CallOK, Fields

\* A step of call c that leaves it with locals k it may rely on.
LEMMA StepKeeps ==
  ASSUME IInv, NEW c \in Calls, NEW k, CallOK(k)', call' = [call EXCEPT ![c] = k],
         \A l \in Inserted : l \in Inserted' /\ (Settled(l) => Settled(l)'),
         \A l \in Inserted' \ Inserted : call[c].pc = "insert" /\ l = call[c].link,
         k.pc \in Inserting =>
           \A d \in Calls \ {c} : call[d].pc \in Inserting => call[d].link # k.link
  PROVE  DOMAIN call' = Calls /\ CallsOK' /\ InsertedOnce'
<1>1. \A d \in Calls : call'[d] = IF d = c THEN k ELSE call[d]
  BY DEF IInv, Typed
<1>2. ASSUME NEW d \in Calls \ {c}
      PROVE  CallOK(call[d]) /\ (call[d].pc \in Inserting => call[d].link \notin Inserted')
  <2>1. CallOK(call[d])
    BY DEF IInv, CallsOK
  <2>2. call[d].pc \in Inserting => call[d].link \notin Inserted
    BY <2>1 DEF CallOK
  <2>3. call[d].pc \in Inserting /\ call[c].pc = "insert" => call[d].link # call[c].link
    BY DEF IInv, InsertedOnce, Inserting
  <2> QED
    BY <2>1, <2>2, <2>3
<1>3. \A d \in Calls : \A h : h = call'[d] => CallOK(h)'
  BY <1>1, <1>2, OthersKeep
<1>4. CallsOK'
  BY <1>3 DEF CallsOK, CallOK, Fields
<1>5. InsertedOnce'
  BY <1>1 DEF IInv, InsertedOnce
<1> QED
  BY <1>1, <1>4, <1>5 DEF IInv, Typed

\* A step that writes no row the invariant speaks of and moves call c only.
LEMMA LocalStep ==
  ASSUME IInv, NEW c \in Calls, NEW k, CallOK(k), call' = [call EXCEPT ![c] = k],
         UNCHANGED <<status, revokeRows, lost>>,
         k.pc \in Inserting =>
           \A d \in Calls \ {c} : call[d].pc \in Inserting => call[d].link # k.link
  PROVE  IInv'
<1>1. Inserted' = Inserted /\ \A l : Settled(l)' = Settled(l)
  BY DEF Inserted, Settled, Audited
<1>2. CallOK(k)'
  BY <1>1 DEF CallOK, Fields
<1>3. DOMAIN call' = Calls /\ CallsOK' /\ InsertedOnce'
  BY <1>1, <1>2, StepKeeps
<1> QED
  BY <1>3 DEF IInv, Typed, RevokedIsAudited

LEMMA IdleOK == CallOK(Idle) /\ Idle.pc = "idle" /\ Idle.rows = {} /\ Idle.todo = <<>>
BY DEF CallOK, Fields, Idle, Inserting, Revoking

\* A call that only moves on to another statement.
LEMMA GoStep ==
  ASSUME IInv, NEW c \in Calls, NEW pc, Go(c, pc), UNCHANGED <<status, revokeRows, lost>>,
         pc \notin Inserting,
         pc \in Revoking \cup {"recheck", "rollback"} => call[c].link \in Inserted,
         pc = "flip" => Settled(call[c].link)
  PROVE  IInv'
<1> DEFINE k == [call[c] EXCEPT !.pc = pc]
<1>1. CallOK(call[c])
  BY DEF IInv, CallsOK
<1>2. /\ Fields(k) /\ k.pc = pc /\ k.link = call[c].link
      /\ k.rows = call[c].rows /\ k.todo = call[c].todo
  BY <1>1 DEF CallOK, Fields
<1>3. call' = [call EXCEPT ![c] = k]
  BY DEF Go
<1> HIDE DEF k
<1>4. CallOK(k)
  BY <1>1, <1>2 DEF CallOK
<1> QED
  BY <1>2, <1>3, <1>4, LocalStep

LEMMA ReturnStep ==
  ASSUME IInv, NEW c \in Calls, Return(c), UNCHANGED <<status, revokeRows, lost>>
  PROVE  IInv'
BY IdleOK, LocalStep DEF Return, Inserting

\* The next round of a cascade, over links that have been inserted.
LEMMA ProceedStep ==
  ASSUME IInv, NEW c \in Calls, NEW rows, rows \subseteq Inserted,
         NEW todo \in Seq(SUBSET Links), \A i \in 1..Len(todo) : todo[i] \subseteq Inserted,
         Proceed(c, rows, todo), UNCHANGED <<status, revokeRows, lost>>
  PROVE  IInv'
<1>1. CASE rows = {} /\ todo = <<>>
  BY <1>1, ReturnStep DEF Proceed
<1>2. CASE ~(rows = {} /\ todo = <<>>)
  <2>1. PICK h, k : h = call[c] /\ k = [h EXCEPT !.pc = "next", !.rows = rows, !.todo = todo]
    OBVIOUS
  <2>2. CallOK(h)
    BY <2>1 DEF IInv, CallsOK
  <2>3. Fields(k) /\ k.pc = "next" /\ k.rows = rows /\ k.todo = todo
    BY <2>1, <2>2 DEF CallOK, Fields
  <2>4. call' = [call EXCEPT ![c] = k]
    BY <1>2, <2>1 DEF Proceed, IInv, Typed
  <2>5. CallOK(k) /\ k.pc \notin Inserting
    BY <2>3 DEF CallOK, Inserting, Revoking
  <2> QED
    BY <2>4, <2>5, LocalStep
<1> QED
  BY <1>1, <1>2

--------------------------------------------------------------------------------
LEMMA NewCallStep ==
  ASSUME IInv, NEW c \in Calls, NewCall(c)
  PROVE  IInv'
<1>1. ASSUME NEW l \in Links, Delegate(c, l)
      PROVE  IInv'
  <2>1. PICK i, k : i = Idle /\ k = [i EXCEPT !.pc = "authority", !.link = l]
    OBVIOUS
  <2>2. Fields(i) /\ i.rows = {} /\ i.todo = <<>>
    BY <2>1, IdleOK DEF CallOK
  <2>3. Fields(k) /\ k.pc = "authority" /\ k.link = l /\ k.rows = {} /\ k.todo = <<>>
    BY <2>1, <2>2 DEF Fields
  <2>4. call' = [call EXCEPT ![c] = k] /\ UNCHANGED <<status, revokeRows, lost>>
    BY <1>1, <2>1 DEF Delegate, row, history
  <2>5. l \notin Inserted /\ \A d \in Calls : call[d].link # l
    BY <1>1 DEF Delegate, Inserted
  <2>6. CallOK(k)
    BY <2>3, <2>5 DEF CallOK, Inserting, Revoking
  <2> QED
    BY <2>3, <2>4, <2>5, <2>6, LocalStep DEF Inserting
<1>2. ASSUME NEW l \in Links, RevokeDelegation(c, l)
      PROVE  IInv'
  <2>1. PICK i, k : i = Idle /\ k = [i EXCEPT !.pc = "read", !.link = l]
    OBVIOUS
  <2>2. Fields(i) /\ i.rows = {} /\ i.todo = <<>>
    BY <2>1, IdleOK DEF CallOK
  <2>3. Fields(k) /\ k.pc = "read" /\ k.link = l /\ k.rows = {} /\ k.todo = <<>>
    BY <2>1, <2>2 DEF Fields
  <2>4. call' = [call EXCEPT ![c] = k] /\ UNCHANGED <<status, revokeRows, lost>>
    BY <1>2, <2>1 DEF RevokeDelegation, row, history
  <2>5. l \in Inserted
    BY <1>2 DEF RevokeDelegation, Inserted
  <2>6. CallOK(k)
    BY <2>3, <2>5 DEF CallOK, Inserting, Revoking
  <2> QED
    BY <2>3, <2>4, <2>5, <2>6, LocalStep DEF Inserting
<1>3. ASSUME NEW a \in Agents, RevokeAgent(c, a)
      PROVE  IInv'
  <2>1. PICK i, k : i = Idle /\ k = [i EXCEPT !.pc = "rows", !.agent = a]
    OBVIOUS
  <2>2. Fields(i) /\ i.rows = {} /\ i.todo = <<>>
    BY <2>1, IdleOK DEF CallOK
  <2>3. Fields(k) /\ k.pc = "rows" /\ k.rows = {} /\ k.todo = <<>>
    BY <2>1, <2>2 DEF Fields
  <2>4. call' = [call EXCEPT ![c] = k] /\ UNCHANGED <<status, revokeRows, lost>>
    BY <1>3, <2>1 DEF RevokeAgent, row, history
  <2>5. CallOK(k)
    BY <2>3 DEF CallOK, Inserting, Revoking
  <2> QED
    BY <2>3, <2>4, <2>5, LocalStep DEF Inserting
<1> QED
  BY <1>1, <1>2, <1>3 DEF NewCall

--------------------------------------------------------------------------------
LEMMA ReadAuthorityStep ==
  ASSUME IInv, NEW c \in Calls, ReadAuthority(c)
  PROVE  IInv'
<1>1. CASE Return(c)
  BY <1>1, ReturnStep DEF ReadAuthority, row, history
<1>2. CASE ~Return(c)
  <2>1. PICK inbound, hops, limit, deadline :
          call' = [call EXCEPT ![c] = [call[c] EXCEPT
            !.pc = "insert", !.inbound = inbound, !.depth = hops,
            !.maxDepth = limit, !.expiresAt = deadline]]
    BY <1>2 DEF ReadAuthority
  <2>2. PICK h, k : h = call[c] /\ k = [h EXCEPT !.pc = "insert", !.inbound = inbound,
                             !.depth = hops, !.maxDepth = limit, !.expiresAt = deadline]
    OBVIOUS
  <2>3. CallOK(h) /\ h.pc = "authority"
    BY <2>2 DEF IInv, CallsOK, ReadAuthority, At
  <2>4. Fields(k) /\ k.pc = "insert" /\ k.link = h.link /\ k.rows = h.rows /\ k.todo = h.todo
    BY <2>2, <2>3 DEF CallOK, Fields
  <2>5. CallOK(k)
    BY <2>3, <2>4 DEF CallOK, Inserting, Revoking
  <2>6. \A d \in Calls \ {c} : call[d].pc \in Inserting => call[d].link # k.link
    BY <2>2, <2>3, <2>4 DEF IInv, InsertedOnce, Inserting
  <2>7. call' = [call EXCEPT ![c] = k]
    BY <2>1, <2>2
  <2> QED
    BY <2>5, <2>6, <2>7, LocalStep DEF ReadAuthority, row, history
<1> QED
  BY <1>1, <1>2

\* Whatever the insert is followed by, the call has left the fresh links.
LEMMA InsertStep ==
  ASSUME IInv, NEW c \in Calls, InsertLink(c)
  PROVE  IInv'
<1> DEFINE m == call[c].link
<1>1. CallOK(call[c]) /\ call[c].pc = "insert"
  BY DEF IInv, CallsOK, InsertLink, At
<1>2. m \in Links \ Inserted
  BY <1>1 DEF CallOK, Inserting
<1>3. /\ status' = [status EXCEPT ![m] = "active"]
      /\ UNCHANGED <<revokeRows, lost>>
  BY DEF InsertLink, history
<1>4. Inserted' = Inserted \cup {m} /\ \A l \in Inserted : Settled(l)' = Settled(l)
  BY <1>2, <1>3 DEF IInv, Typed, Inserted, Settled, Audited
<1>5. PICK k : /\ call' = [call EXCEPT ![c] = k] /\ Fields(k)
               /\ k = Idle \/ (/\ k.pc = "recheck" /\ k.link = m
                               /\ k.rows = call[c].rows /\ k.todo = call[c].todo)
  <2>1. CASE Return(c)
    BY <2>1, IdleOK DEF Return, CallOK
  <2>2. CASE Go(c, "recheck")
    <3> DEFINE k == [call[c] EXCEPT !.pc = "recheck"]
    <3>1. /\ Fields(k) /\ k.pc = "recheck" /\ k.link = m
          /\ k.rows = call[c].rows /\ k.todo = call[c].todo
      BY <1>1 DEF CallOK, Fields
    <3>2. call' = [call EXCEPT ![c] = k]
      BY <2>2 DEF Go
    <3> QED
      BY <3>1, <3>2
  <2> QED
    BY <2>1, <2>2 DEF InsertLink
<1>6. CallOK(k)' /\ k.pc \notin Inserting
  <2>1. CASE k = Idle
    BY <2>1, IdleOK DEF CallOK, Fields, Inserting, Revoking, Idle
  <2>2. CASE k # Idle
    <3>1. k.rows \subseteq Inserted' /\ \A i \in 1..Len(k.todo) : k.todo[i] \subseteq Inserted'
      BY <1>1, <1>4, <1>5, <2>2 DEF CallOK
    <3> QED
      BY <1>4, <1>5, <2>2, <3>1 DEF CallOK, Fields, Inserting, Revoking
  <2> QED
    BY <2>1, <2>2
<1>7. DOMAIN call' = Calls /\ CallsOK' /\ InsertedOnce'
  BY <1>1, <1>4, <1>5, <1>6, StepKeeps
<1> QED
  BY <1>2, <1>3, <1>7 DEF IInv, Typed, RevokedIsAudited

LEMMA RollbackStep ==
  ASSUME IInv, NEW c \in Calls, Rollback(c)
  PROVE  IInv'
<1> DEFINE m == call[c].link
<1>1. m \in Inserted
  BY DEF IInv, CallsOK, CallOK, Rollback, At
<1>2. status' = [status EXCEPT ![m] = "gone"] /\ UNCHANGED <<revokeRows, lost>> /\ Return(c)
  BY DEF Rollback
<1>3. Inserted' = Inserted /\ \A l \in Inserted : Settled(l) => Settled(l)'
  BY <1>1, <1>2 DEF IInv, Typed, Inserted, Settled, Audited
<1>4. CallOK(Idle)' /\ Idle.pc \notin Inserting
  BY IdleOK DEF CallOK, Fields, Inserting, Revoking, Idle
<1>5. DOMAIN call' = Calls /\ CallsOK' /\ InsertedOnce'
  BY <1>2, <1>3, <1>4, StepKeeps DEF Return
<1> QED
  BY <1>1, <1>2, <1>5 DEF IInv, Typed, RevokedIsAudited

--------------------------------------------------------------------------------
LEMMA ListRowsStep ==
  ASSUME IInv, NEW c \in Calls, ListRows(c)
  PROVE  IInv'
<1> DEFINE ls == {l \in Links : /\ status[l] \in {"active", "revoked"}
                               /\ call[c].agent \in {From(l), To(l)}}
<1>1. ls \subseteq Inserted
  BY DEF Inserted
<1>2. Proceed(c, ls, <<>>)
  BY DEF ListRows
<1>3. <<>> \in Seq(SUBSET Links) /\ \A i \in 1..Len(<<>>) : <<>>[i] \subseteq Inserted
  OBVIOUS
<1> HIDE DEF ls
<1> QED
  BY <1>1, <1>2, <1>3, ProceedStep DEF ListRows, row, history

LEMMA NextLinkStep ==
  ASSUME IInv, NEW c \in Calls, NextLink(c)
  PROVE  IInv'
<1> DEFINE h == call[c]
<1>1. CallOK(h)
  BY DEF IInv, CallsOK
<1>2. ASSUME NEW l \in Inserted, NEW rows, rows \subseteq Inserted,
             NEW todo \in Seq(SUBSET Links), \A i \in 1..Len(todo) : todo[i] \subseteq Inserted,
             call' = [call EXCEPT ![c] =
                        [h EXCEPT !.pc = "read", !.link = l, !.rows = rows, !.todo = todo]]
      PROVE  IInv'
  <2>1. PICK g, k : /\ g = h
                    /\ k = [g EXCEPT !.pc = "read", !.link = l, !.rows = rows, !.todo = todo]
    OBVIOUS
  <2>2. CallOK(g)
    BY <1>1, <2>1
  <2>3. Fields(k) /\ k.pc = "read" /\ k.link = l /\ k.rows = rows /\ k.todo = todo
    BY <2>1, <2>2 DEF CallOK, Fields
  <2>4. call' = [call EXCEPT ![c] = k]
    BY <1>2, <2>1
  <2>5. CallOK(k) /\ k.pc \notin Inserting
    BY <1>2, <2>3 DEF CallOK, Inserting, Revoking
  <2> QED
    BY <2>4, <2>5, LocalStep DEF NextLink, row, history
<1>3. ASSUME h.todo # <<>>, NEW l \in Last(h.todo),
             call' = [call EXCEPT ![c] = [h EXCEPT !.pc = "read", !.link = l,
                        !.todo = IF Last(h.todo) \ {l} = {} THEN Front(@)
                                 ELSE Append(Front(@), Last(h.todo) \ {l})]]
      PROVE  IInv'
  <2> DEFINE todo == IF Last(h.todo) \ {l} = {} THEN Front(h.todo)
                     ELSE Append(Front(h.todo), Last(h.todo) \ {l})
  <2>1. h.todo \in Seq(SUBSET Links) /\ \A i \in 1..Len(h.todo) : h.todo[i] \subseteq Inserted
    BY <1>1 DEF CallOK, Fields
  <2>2. Last(h.todo) \ {l} \subseteq Last(h.todo)
    OBVIOUS
  <2>3. /\ l \in Inserted /\ todo \in Seq(SUBSET Links)
        /\ \A i \in 1..Len(todo) : todo[i] \subseteq Inserted
    <3> HIDE DEF h
    <3>1. /\ Last(h.todo) \subseteq Inserted
          /\ Front(h.todo) \in Seq(SUBSET Links)
          /\ Append(Front(h.todo), Last(h.todo) \ {l}) \in Seq(SUBSET Links)
          /\ \A i \in 1..Len(Front(h.todo)) : Front(h.todo)[i] \subseteq Inserted
          /\ \A i \in 1..Len(Append(Front(h.todo), Last(h.todo) \ {l})) :
               Append(Front(h.todo), Last(h.todo) \ {l})[i] \subseteq Inserted
      <4>1. PICK s, r : s = h.todo /\ r = Last(h.todo) \ {l}
        OBVIOUS
      <4>2. /\ s \in Seq(SUBSET Links) /\ s # <<>> /\ r \subseteq Last(s)
            /\ \A i \in 1..Len(s) : s[i] \subseteq Inserted
        BY <4>1, <1>3, <2>1, <2>2
      <4>3. /\ Last(s) \subseteq Inserted
            /\ Front(s) \in Seq(SUBSET Links) /\ Append(Front(s), r) \in Seq(SUBSET Links)
            /\ \A i \in 1..Len(Front(s)) : Front(s)[i] \subseteq Inserted
            /\ \A i \in 1..Len(Append(Front(s), r)) : Append(Front(s), r)[i] \subseteq Inserted
        BY <4>2, TodoShrinks
      <4> QED
        BY <4>1, <4>3
    <3>2. CASE Last(h.todo) \ {l} = {}
      BY <1>3, <3>1, <3>2
    <3>3. CASE Last(h.todo) \ {l} # {}
      BY <1>3, <3>1, <3>3
    <3> QED
      BY <3>2, <3>3
  <2>4. call' = [call EXCEPT ![c] =
                   [h EXCEPT !.pc = "read", !.link = l, !.rows = h.rows, !.todo = todo]]
    BY <1>1, <1>3 DEF CallOK, Fields
  <2>5. h.rows \subseteq Inserted
    BY <1>1 DEF CallOK
  <2> HIDE DEF todo, h
  <2> QED
    BY <1>2, <2>3, <2>4, <2>5
<1>4. ASSUME NEW l \in h.rows,
             call' = [call EXCEPT ![c] = [h EXCEPT !.pc = "read", !.link = l, !.rows = @ \ {l}]]
      PROVE  IInv'
  <2>1. /\ h.rows \subseteq Inserted /\ h.todo \in Seq(SUBSET Links)
        /\ \A i \in 1..Len(h.todo) : h.todo[i] \subseteq Inserted
    BY <1>1 DEF CallOK, Fields
  <2>2. call' = [call EXCEPT ![c] =
                   [h EXCEPT !.pc = "read", !.link = l, !.rows = h.rows \ {l}, !.todo = h.todo]]
    BY <1>1, <1>4 DEF CallOK, Fields
  <2>3. h.rows \ {l} \subseteq Inserted /\ l \in Inserted
    BY <1>4, <2>1
  <2> HIDE DEF h
  <2> QED
    BY <1>2, <2>1, <2>2, <2>3
<1> QED
  BY <1>3, <1>4 DEF NextLink

LEMMA ListChildrenStep ==
  ASSUME IInv, NEW c \in Calls, ListChildren(c)
  PROVE  IInv'
<1> DEFINE h == call[c]
           below == Children(h.link)
           todo == IF below = {} THEN h.todo ELSE Append(h.todo, below)
<1>1. CallOK(h)
  BY DEF IInv, CallsOK
<1>2. /\ h.rows \subseteq Inserted /\ h.todo \in Seq(SUBSET Links)
      /\ \A i \in 1..Len(h.todo) : h.todo[i] \subseteq Inserted
  BY <1>1 DEF CallOK, Fields
<1>3. below \in SUBSET Links /\ below \subseteq Inserted
  BY DEF Children, Inserted
<1>4. Proceed(c, h.rows, todo)
  BY DEF ListChildren
<1> HIDE DEF h, below
<1>5. todo \in Seq(SUBSET Links) /\ \A i \in 1..Len(todo) : todo[i] \subseteq Inserted
  <2>1. CASE below = {}
    BY <1>2, <2>1
  <2>2. CASE below # {}
    <3>1. /\ Append(h.todo, below) \in Seq(SUBSET Links)
          /\ Len(Append(h.todo, below)) = Len(h.todo) + 1
          /\ \A i \in 1..Len(h.todo) : Append(h.todo, below)[i] = h.todo[i]
          /\ Append(h.todo, below)[Len(h.todo) + 1] = below
      BY <1>2, <1>3, AppendProperties
    <3>2. \A i \in 1..(Len(h.todo) + 1) : i \in 1..Len(h.todo) \/ i = Len(h.todo) + 1
      BY <1>2, LenProperties
    <3>3. todo = Append(h.todo, below)
      BY <2>2
    <3> HIDE DEF todo
    <3> QED
      BY <1>2, <1>3, <3>1, <3>2, <3>3
  <2> QED
    BY <2>1, <2>2
<1> HIDE DEF todo
<1> QED
  BY <1>2, <1>4, <1>5, ProceedStep DEF ListChildren, row, history

--------------------------------------------------------------------------------
LEMMA ReadLinkStep ==
  ASSUME IInv, NEW c \in Calls, ReadLink(c)
  PROVE  IInv'
<1>1. CASE Return(c)
  BY <1>1, ReturnStep DEF ReadLink, row
<1>2. CASE Go(c, AfterRead(call[c].link))
  <2>1. call[c].link \in Inserted
    BY DEF IInv, CallsOK, CallOK, ReadLink, At, Revoking
  <2>2. AfterRead(call[c].link) \in {"lookup", "flip"}
    BY DEF AfterRead
  <2>3. AfterRead(call[c].link) = "flip" => Settled(call[c].link)
    BY <2>1 DEF AfterRead, Settled, Inserted, IInv, Typed
  <2> QED
    BY <1>2, <2>1, <2>2, <2>3, GoStep DEF ReadLink, row, Inserting
<1> QED
  BY <1>1, <1>2 DEF ReadLink

LEMMA LookupAuditStep ==
  ASSUME IInv, NEW c \in Calls, LookupAudit(c)
  PROVE  IInv'
<1> DEFINE pc == IF RevokeAuditExists(call[c].link) THEN "flip" ELSE "write"
<1>1. call[c].link \in Inserted
  BY DEF IInv, CallsOK, CallOK, LookupAudit, At, Revoking
<1>2. pc \notin Inserting /\ (pc = "flip" => Settled(call[c].link))
  BY DEF RevokeAuditExists, Settled, Audited, Inserting
<1>3. Go(c, pc)
  BY DEF LookupAudit
<1> HIDE DEF pc
<1> QED
  BY <1>1, <1>2, <1>3, GoStep DEF LookupAudit, row, history

\* Either the row is there now or the failure to write it was seen.
LEMMA WriteAuditStep ==
  ASSUME IInv, NEW c \in Calls, WriteAudit(c)
  PROVE  IInv'
<1>1. PICK h, k, m : h = call[c] /\ k = [h EXCEPT !.pc = "flip"] /\ m = h.link
  OBVIOUS
<1>2. CallOK(h) /\ h.pc = "write" /\ m \in Inserted
  BY <1>1 DEF IInv, CallsOK, CallOK, WriteAudit, At, Revoking
<1>3. /\ status' = status /\ revokeRows' \in [Links -> Nat]
      /\ \A l \in Links : Audited(l) => Audited(l)'
      /\ Audited(m)'
  <2>1. m \in Links /\ revokeRows \in [Links -> Nat]
    BY <1>2 DEF Inserted, IInv, Typed
  <2>2. CASE revokeRows' = [revokeRows EXCEPT ![m] = @ + 1] /\ UNCHANGED lost
    BY <2>1, <2>2 DEF WriteAudit, row, Audited
  <2>3. CASE lost' = lost \cup {m} /\ UNCHANGED revokeRows
    BY <2>1, <2>3 DEF WriteAudit, row, Audited
  <2> QED
    BY <1>1, <2>2, <2>3 DEF WriteAudit
<1>4. Inserted' = Inserted /\ \A l \in Inserted : Settled(l) => Settled(l)'
  BY <1>3 DEF Inserted, Settled
<1>5. Fields(k) /\ k.pc = "flip" /\ k.link = m /\ k.rows = h.rows /\ k.todo = h.todo
  BY <1>1, <1>2 DEF CallOK, Fields
<1>6. call' = [call EXCEPT ![c] = k]
  BY <1>1 DEF WriteAudit, Go
<1>7. CallOK(k)' /\ k.pc \notin Inserting
  <2>1. Settled(m)'
    BY <1>3 DEF Settled
  <2> QED
    BY <1>2, <1>4, <1>5, <2>1 DEF CallOK, Fields, Inserting
<1>8. DOMAIN call' = Calls /\ CallsOK' /\ InsertedOnce'
  BY <1>4, <1>6, <1>7, StepKeeps
<1>9. RevokedIsAudited'
  BY <1>3 DEF IInv, RevokedIsAudited, Audited
<1> QED
  BY <1>3, <1>8, <1>9 DEF IInv, Typed

\* The status read is stale by now, but what it decided still stands.
LEMMA FlipLinkStep ==
  ASSUME IInv, NEW c \in Calls, FlipLink(c)
  PROVE  IInv'
<1>1. PICK h, k, m : h = call[c] /\ k = [h EXCEPT !.pc = "children"] /\ m = h.link
  OBVIOUS
<1>2. CallOK(h) /\ m \in Inserted /\ Settled(m)
  BY <1>1 DEF IInv, CallsOK, CallOK, FlipLink, At, Revoking
<1>3. /\ status' = [status EXCEPT ![m] = IF @ = "gone" THEN "gone" ELSE "revoked"]
      /\ UNCHANGED <<revokeRows, lost>>
  BY <1>1 DEF FlipLink, history
<1>4. Inserted' = Inserted /\ \A l \in Inserted : Settled(l) => Settled(l)'
  BY <1>2, <1>3 DEF IInv, Typed, Inserted, Settled, Audited
<1>5. Fields(k) /\ k.pc = "children" /\ k.link = m /\ k.rows = h.rows /\ k.todo = h.todo
  BY <1>1, <1>2 DEF CallOK, Fields
<1>6. call' = [call EXCEPT ![c] = k]
  BY <1>1 DEF FlipLink, Go
<1>7. CallOK(k)' /\ k.pc \notin Inserting
  BY <1>2, <1>4, <1>5 DEF CallOK, Fields, Inserting
<1>8. DOMAIN call' = Calls /\ CallsOK' /\ InsertedOnce'
  BY <1>4, <1>6, <1>7, StepKeeps
<1>9. status[m] = "gone" \/ Audited(m)
  BY <1>2 DEF Settled, Inserted, IInv, RevokedIsAudited, Audited
<1>10. RevokedIsAudited'
  BY <1>3, <1>9 DEF IInv, Typed, RevokedIsAudited, Audited
<1> QED
  BY <1>3, <1>8, <1>10 DEF IInv, Typed

--------------------------------------------------------------------------------
LEMMA InitHolds == Init => IInv
<1> SUFFICES ASSUME Init PROVE IInv
  OBVIOUS
<1>1. Typed /\ RevokedIsAudited
  BY DEF Init, Typed, RevokedIsAudited
<1>2. CallsOK
  BY IdleOK DEF Init, CallsOK
<1>3. InsertedOnce
  BY IdleOK DEF Init, InsertedOnce, Inserting
<1> QED
  BY <1>1, <1>2, <1>3 DEF IInv

LEMMA NextHolds == IInv /\ [Next]_vars => IInv'
<1> SUFFICES ASSUME IInv, [Next]_vars PROVE IInv'
  OBVIOUS
<1>1. CASE UNCHANGED <<status, revokeRows, lost, call>>
  BY <1>1 DEF IInv, Typed, CallsOK, CallOK, Fields, InsertedOnce, RevokedIsAudited,
              Inserted, Settled, Audited
<1>2. CASE Tick \/ UNCHANGED vars
  BY <1>1, <1>2 DEF Tick, vars, row, history
<1>3. ASSUME NEW c \in Calls, Continue(c)
      PROVE  IInv'
  <2>1. CASE RecheckInbound(c)
    <3>1. call[c].link \in Inserted
      BY <2>1 DEF IInv, CallsOK, CallOK, RecheckInbound, At
    <3>2. CASE Return(c)
      BY <2>1, <3>2, ReturnStep DEF RecheckInbound, row, history
    <3>3. CASE Go(c, "rollback")
      BY <2>1, <3>1, <3>3, GoStep DEF RecheckInbound, row, history, Inserting
    <3> QED
      BY <2>1, <3>2, <3>3 DEF RecheckInbound
  <2> QED
    BY <1>3, <2>1, ReadAuthorityStep, InsertStep, RollbackStep, ListRowsStep, NextLinkStep,
       ReadLinkStep, LookupAuditStep, WriteAuditStep, FlipLinkStep, ListChildrenStep
       DEF Continue
<1>4. ASSUME NEW c \in Calls, Crash(c)
      PROVE  IInv'
  BY <1>4, ReturnStep DEF Crash, row
<1> QED
  BY <1>2, <1>3, <1>4, NewCallStep DEF Next

\* A revoked link has its audit row, unless the write was seen to fail: for any
\* graph of links, any number of calls revoking or delegating at once, and a
\* crash at any statement of any of them.
THEOREM RevokedIsAuditedTheorem == Spec => []RevokedIsAudited
<1>1. IInv => RevokedIsAudited
  BY DEF IInv
<1> QED
  BY <1>1, InitHolds, NextHolds, PTL DEF Spec


--------------------------------------------------------------------------------
(***************************************************************************)
(* Types, the number of audit rows, and what a link rests on.              *)
(*                                                                         *)
(* An active link that its delegator does not cover is fed by an active    *)
(* one that expires no sooner (Fed), or some call is on its way to it      *)
(* (Due): the one that inserted it and has not re-checked yet, or a        *)
(* cascade.  Whatever ends the feeding link lists its children only        *)
(* afterwards, and so finds the link.  A call writes an audit row only if  *)
(* it found none, so the calls that are about to are counted with the rows *)
(* there are (FewRows).                                                    *)
(***************************************************************************)
TypedRows ==
  /\ agent \in [Agents -> {"active", "revoked"}]
  /\ expiresAt \in [Links -> Nat] /\ \A l \in Links : expiresAt[l] <= Wanted[l].expiresAt
  /\ depth \in [Links -> Nat] /\ \A l \in Links : depth[l] <= Wanted[l].maxDepth
  /\ maxDepth \in [Links -> Nat]
  /\ clock \in 0..MaxTime /\ failures \in 0..MaxFailures
  /\ lost \subseteq Links /\ broken \in BOOLEAN

\* The limits of a link that is being inserted, and the links it rests on.
Source(k, i) ==
  /\ i \in Inserted /\ To(i) = From(k.link)
  /\ ~OwnCovers(k.link) => (IF k.pc = "insert" THEN k.expiresAt ELSE expiresAt[k.link]) <= expiresAt[i]

InsertOK(k) ==
  /\ k.pc = "insert" => k.expiresAt <= Wanted[k.link].expiresAt /\ k.depth <= Wanted[k.link].maxDepth
  /\ k.pc \in {"insert", "recheck"} =>
       /\ \A i \in k.inbound : Source(k, i)
       /\ ~OwnCovers(k.link) => k.inbound # {}

InsertsOK == \A c \in Calls : InsertOK(call[c])

Fed(l) == \E i \in Links : To(i) = From(l) /\ status[i] = "active" /\ expiresAt[l] <= expiresAt[i]

Cascading == {"next", "read", "lookup", "write", "flip", "children"}
Due(k, l) ==
  \/ k.pc \in {"recheck", "rollback", "read", "lookup", "write", "flip"} /\ k.link = l
  \/ k.pc \in Cascading /\ (l \in k.rows \/ \E i \in 1..Len(k.todo) : l \in k.todo[i])
  \/ k.pc = "children" /\ To(k.link) = From(l)

Kept ==
  ~broken => \A l \in Links :
    status[l] = "active" /\ ~OwnCovers(l) => Fed(l) \/ \E c \in Calls : Due(call[c], l)

Writers(l) == {c \in Calls : call[c].pc = "write" /\ call[c].link = l}
FewRows == \A l \in Links : revokeRows[l] + Cardinality(Writers(l)) <= Cardinality(Calls)

Rests == TypedRows /\ call \in [Calls -> Call] /\ InsertsOK /\ Kept /\ FewRows


--------------------------------------------------------------------------------
\* The least and the greatest of some numbers.
LEMMA MinIs ==
  ASSUME NEW S, S \subseteq Nat, S # {}
  PROVE  Min(S) \in S /\ \A y \in S : Min(S) <= y
<1>1. PICK x \in S : \A y \in S : ~(<<y, x>> \in OpToRel(<, Nat))
  BY NatLessThanWellFounded, WFMin
<1>2. \A y \in S : x <= y
  <2> TAKE y \in S
  <2>1. x \in Nat /\ y \in Nat OBVIOUS
  <2>2. ~(y < x) BY <1>1, <2>1 DEF OpToRel
  <2> QED BY <2>1, <2>2
<1> QED BY <1>2 DEF Min

\* By a smallest set without a greatest number.
LEMMA MaxIs ==
  ASSUME NEW S, S \subseteq Nat, IsFiniteSet(S), S # {}
  PROVE  Max(S) \in S /\ \A y \in S : y <= Max(S)
<1> DEFINE Tops(T) == {x \in T : \A y \in T : y <= x}
           Bad == {T \in FiniteSubsetsOf(Nat) : T # {} /\ Tops(T) = {}}
<1>1. Bad = {}
  <2> SUFFICES ASSUME Bad # {} PROVE FALSE OBVIOUS
  <2>1. PICK T \in Bad : \A U \in Bad : ~(<<U, T>> \in StrictSubsetOrdering(Nat))
    BY FS_StrictSubsetOrderingWellFounded, WFMin
  <2>2. T \subseteq Nat /\ IsFiniteSet(T) /\ T # {} /\ Tops(T) = {} BY DEF FiniteSubsetsOf
  <2>3. PICK x : x \in T BY <2>2
  <2>4. PICK U : U = T \ {x} OBVIOUS
  <2>5. U \subseteq T /\ U # T /\ U \subseteq Nat BY <2>2, <2>3, <2>4
  <2>6. IsFiniteSet(U) BY <2>2, <2>5, FS_Subset
  <2>7. <<U, T>> \in StrictSubsetOrdering(Nat) BY <2>2, <2>5 DEF StrictSubsetOrdering
  <2>8. U \notin Bad BY <2>1, <2>7
  <2>9. CASE U = {}
    <3>1. T = {x} /\ x \in Nat BY <2>2, <2>3, <2>4, <2>9
    <3>2. x \in Tops(T) BY <3>1
    <3> QED BY <2>2, <3>2
  <2>10. CASE U # {}
    <3>1. Tops(U) # {} BY <2>5, <2>6, <2>8, <2>10 DEF FiniteSubsetsOf
    <3>2. PICK z : z \in U /\ \A y \in U : y <= z BY <3>1
    <3>3. x \in Nat /\ z \in Nat /\ \A y \in T : y \in Nat /\ (y = x \/ y <= z) BY <2>2, <2>3, <2>4, <2>5, <3>2
    <3>4. CASE x <= z
      <4>1. z \in Tops(T) BY <2>5, <3>2, <3>3, <3>4
      <4> QED BY <2>2, <4>1
    <3>5. CASE z <= x
      <4>1. x \in Tops(T) BY <2>3, <3>3, <3>5
      <4> QED BY <2>2, <4>1
    <3> QED BY <3>3, <3>4, <3>5
  <2> QED BY <2>9, <2>10
<1>2. Tops(S) # {} BY <1>1 DEF FiniteSubsetsOf
<1>3. PICK x \in S : \A y \in S : y <= x BY <1>2
<1>4. \A y \in S : x >= y BY <1>3
<1>5. Max(S) \in S /\ \A y \in S : Max(S) >= y BY <1>4 DEF Max
<1> QED BY <1>5


--------------------------------------------------------------------------------
\* What a call relies on stays as it is when another one takes a step.
LEMMA SourcesStay ==
  ASSUME NEW k, CallOK(k), InsertOK(k), \A l \in Inserted : l \in Inserted' /\ expiresAt'[l] = expiresAt[l]
  PROVE  InsertOK(k)'
<1>1. ASSUME NEW i, Source(k, i), k.pc \in {"insert", "recheck"}
      PROVE  Source(k, i)'
  <2>1. k.pc = "recheck" => k.link \in Inserted BY DEF CallOK
  <2> QED BY <1>1, <2>1 DEF Source
<1> QED BY <1>1 DEF InsertOK

\* What is left alone stays counted.
LEMMA RowsStayFew ==
  ASSUME IInv, Rests, NEW c \in Calls, NEW k \in Call, call' = [call EXCEPT ![c] = k],
         k.pc = "write" => revokeRows'[k.link] = 0,
         \A l \in Links : \/ revokeRows'[l] = revokeRows[l]
                          \/ /\ call[c].pc = "write" /\ call[c].link = l /\ k.pc # "write"
                             /\ revokeRows'[l] = revokeRows[l] + 1
  PROVE  FewRows'
<1> SUFFICES ASSUME NEW l \in Links
             PROVE  revokeRows'[l] + Cardinality(Writers(l)') <= Cardinality(Calls)
  BY DEF FewRows
<1>1. \A d \in Calls : call'[d] = IF d = c THEN k ELSE call[d] BY DEF IInv, Typed
<1>2. PICK v, w : v = Writers(l) /\ w = Writers(l)' OBVIOUS
<1>3. v \subseteq Calls /\ w \subseteq Calls BY <1>2 DEF Writers
<1>4. IsFiniteSet(v) /\ IsFiniteSet(w) /\ Cardinality(w) <= Cardinality(Calls)
  BY <1>3, FiniteAssumption, FS_Subset
<1>5. Cardinality(v) \in Nat /\ Cardinality(w) \in Nat /\ Cardinality(Calls) \in Nat
  BY <1>4, FiniteAssumption, FS_CardinalityType
<1>6. revokeRows[l] \in Nat /\ revokeRows[l] + Cardinality(v) <= Cardinality(Calls)
  BY <1>2 DEF IInv, Typed, Rests, FewRows
<1>7. CASE k.pc = "write" /\ k.link = l BY <1>2, <1>4, <1>5, <1>7
<1>8. CASE ~(k.pc = "write" /\ k.link = l)
  <2>1. w = v \ {c} BY <1>1, <1>2, <1>8 DEF Writers
  <2>2. Cardinality(w) <= Cardinality(v) BY <1>4, <2>1, FS_Subset
  <2>3. CASE revokeRows'[l] = revokeRows[l] BY <1>2, <1>5, <1>6, <2>2, <2>3
  <2>4. CASE call[c].pc = "write" /\ call[c].link = l /\ revokeRows'[l] = revokeRows[l] + 1
    <3>1. c \in v BY <1>2, <2>4 DEF Writers
    <3>2. Cardinality(w) = Cardinality(v) - 1 BY <1>4, <2>1, <3>1, FS_RemoveElement
    <3> QED BY <1>2, <1>5, <1>6, <2>4, <3>2
  <2> QED BY <2>3, <2>4
<1> QED BY <1>7, <1>8

\* A step of call c that hands on what is due.
LEMMA RestStep ==
  ASSUME IInv, Rests, NEW c \in Calls, NEW k \in Call, call' = [call EXCEPT ![c] = k],
         TypedRows', InsertOK(k)', FewRows',
         \A l \in Inserted : l \in Inserted' /\ expiresAt'[l] = expiresAt[l],
         ~broken' => ~broken /\ \A l \in Links :
           (/\ status'[l] = "active" /\ ~OwnCovers(l)
            /\ status[l] = "active" => Fed(l) \/ Due(call[c], l))
           => Fed(l)' \/ Due(k, l)
  PROVE  Rests'
<1>1. call' = [d \in Calls |-> IF d = c THEN k ELSE call[d]] /\ call' \in [Calls -> Call]
  BY DEF Rests
<1>2. \A d \in Calls : \A h : h = call'[d] => InsertOK(h)'
  <2> TAKE d \in Calls
  <2>1. CASE d = c BY <1>1, <2>1
  <2>2. CASE d # c BY <1>1, <2>2, SourcesStay DEF IInv, CallsOK, Rests, InsertsOK
  <2> QED BY <2>1, <2>2
<1>3. InsertsOK' BY <1>2 DEF InsertsOK, InsertOK, Source
<1>4. Kept'
  <2> SUFFICES ASSUME ~broken', NEW l \in Links, status'[l] = "active", ~OwnCovers(l)
               PROVE  Fed(l)' \/ \E d \in Calls : Due(call'[d], l)
    BY DEF Kept, Due
  <2>1. ASSUME NEW d \in Calls \ {c}, Due(call[d], l)
        PROVE  \E e \in Calls : Due(call'[e], l)
    <3>1. call'[d] = call[d] BY <1>1, <2>1
    <3> QED BY <2>1, <3>1 DEF Due
  <2>2. Due(k, l) => \E e \in Calls : Due(call'[e], l)
    <3>1. call'[c] = k BY <1>1
    <3> QED BY <3>1 DEF Due
  <2>3. status[l] = "active" => Fed(l) \/ \E d \in Calls : Due(call[d], l) BY DEF Rests, Kept
  <2> QED BY <2>1, <2>2, <2>3
<1> QED BY <1>1, <1>3, <1>4 DEF Rests


\* A step that writes no link and no audit row.
LEMMA LocalRest ==
  ASSUME IInv, Rests, NEW c \in Calls, NEW h, h = call[c], NEW k \in Call, call' = [call EXCEPT ![c] = k],
         UNCHANGED <<row, revokeRows, clock, lost>>, failures' \in 0..MaxFailures,
         agent' \in [Agents -> {"active", "revoked"}], broken' \in BOOLEAN, broken => broken',
         InsertOK(k), k.pc = "write" => revokeRows[k.link] = 0,
         ~broken' => \A l \in Links :
           status[l] = "active" /\ ~OwnCovers(l) /\ Due(h, l) => Fed(l) \/ Due(k, l)
  PROVE  Rests'
<1>1. UNCHANGED <<status, expiresAt, depth, maxDepth>> BY DEF row
<1>2. TypedRows' BY <1>1 DEF Rests, TypedRows
<1>3. Inserted' = Inserted /\ \A l : Fed(l)' <=> Fed(l) BY <1>1 DEF Inserted, Fed
<1>4. InsertOK(k)' BY <1>1, <1>3 DEF InsertOK, Source
<1>5. FewRows' BY RowsStayFew
<1> QED BY <1>1, <1>2, <1>3, <1>4, <1>5, RestStep

LEMMA CallTyped ==
  ASSUME Rests, NEW c \in Calls
  PROVE  call[c] \in Call
BY DEF Rests

LEMMA IdleRests == Idle \in Call /\ InsertOK(Idle) /\ Idle.pc = "idle" /\ \A l : ~Due(Idle, l)
<1>1. <<>> \in Seq(SUBSET Links) OBVIOUS
<1> QED BY <1>1 DEF Idle, Call, Steps, InsertOK, Due, Cascading

\* A call that ends with nothing due.
LEMMA ReturnRest ==
  ASSUME IInv, Rests, NEW c \in Calls, Return(c),
         UNCHANGED <<row, revokeRows, clock, lost, agent>>, failures' \in 0..MaxFailures,
         broken' \in BOOLEAN, broken => broken',
         ~broken' => \A l \in Links :
           status[l] = "active" /\ ~OwnCovers(l) /\ Due(call[c], l) => Fed(l)
  PROVE  Rests'
<1>1. PICK h, k : h = call[c] /\ k = Idle OBVIOUS
<1>2. k \in Call /\ InsertOK(k) /\ k.pc = "idle" /\ call' = [call EXCEPT ![c] = k]
  BY <1>1, IdleRests DEF Return
<1>3. agent' \in [Agents -> {"active", "revoked"}] BY DEF Rests, TypedRows
<1> QED BY <1>1, <1>2, <1>3, LocalRest

\* A call that moves on and takes what is due with it.
LEMMA GoRest ==
  ASSUME IInv, Rests, NEW c \in Calls, NEW pc \in Steps \ {"insert", "recheck"}, Go(c, pc),
         UNCHANGED <<row, revokeRows, clock, lost, agent, failures, broken>>,
         pc = "write" => revokeRows[call[c].link] = 0,
         call[c].pc \in Cascading => pc \in Cascading \ {"next", "children"} /\ call[c].pc # "children",
         call[c].pc \in {"recheck", "rollback"} => pc = "rollback"
  PROVE  Rests'
<1>1. PICK h, k : h = call[c] /\ k = [h EXCEPT !.pc = pc] OBVIOUS
<1>2. h \in Call BY <1>1, CallTyped
<1>3. /\ k \in Call /\ k.pc = pc /\ k.link = h.link /\ k.rows = h.rows /\ k.todo = h.todo
      /\ k.inbound = h.inbound
  BY <1>1, <1>2 DEF Call
<1>4. call' = [call EXCEPT ![c] = k] BY <1>1 DEF Go
<1>5. InsertOK(k) BY <1>3 DEF InsertOK
<1>6. \A l \in Links : Due(h, l) => Due(k, l) BY <1>1, <1>3 DEF Due, Cascading
<1>7. /\ failures' \in 0..MaxFailures /\ broken' \in BOOLEAN /\ (broken => broken')
      /\ agent' \in [Agents -> {"active", "revoked"}]
  BY DEF Rests, TypedRows
<1> QED BY <1>1, <1>3, <1>4, <1>5, <1>6, <1>7, LocalRest

--------------------------------------------------------------------------------
LEMMA NewCallRest ==
  ASSUME IInv, Rests, NEW c \in Calls, NewCall(c)
  PROVE  Rests'
<1>1. PICK i : i = Idle OBVIOUS
<1>2. i \in Call /\ \A l : ~Due(i, l) BY <1>1, IdleRests
<1>3. call[c] = i /\ UNCHANGED <<row, revokeRows, clock, lost, failures, broken>>
  BY <1>1 DEF NewCall, Delegate, RevokeDelegation, RevokeAgent, history
<1>4. /\ failures' \in 0..MaxFailures /\ broken' \in BOOLEAN /\ (broken => broken')
      /\ agent \in [Agents -> {"active", "revoked"}]
  BY <1>3 DEF Rests, TypedRows
<1>5. ASSUME NEW k \in Call, call' = [call EXCEPT ![c] = k], k.pc \in {"authority", "read", "rows"},
             agent' \in [Agents -> {"active", "revoked"}]
      PROVE  Rests'
  <2>1. InsertOK(k) /\ k.pc # "write" BY <1>5 DEF InsertOK
  <2> QED BY <1>2, <1>3, <1>4, <1>5, <2>1, LocalRest
<1>6. ASSUME NEW l \in Links, Delegate(c, l)
      PROVE  Rests'
  <2>1. PICK k : k = [i EXCEPT !.pc = "authority", !.link = l] OBVIOUS
  <2>2. k \in Call /\ k.pc = "authority" BY <1>2, <2>1 DEF Call, Steps
  <2> QED BY <1>1, <1>4, <1>5, <1>6, <2>1, <2>2 DEF Delegate
<1>7. ASSUME NEW l \in Links, RevokeDelegation(c, l)
      PROVE  Rests'
  <2>1. PICK k : k = [i EXCEPT !.pc = "read", !.link = l] OBVIOUS
  <2>2. k \in Call /\ k.pc = "read" BY <1>2, <2>1 DEF Call, Steps
  <2> QED BY <1>1, <1>4, <1>5, <1>7, <2>1, <2>2 DEF RevokeDelegation
<1>8. ASSUME NEW a \in Agents, RevokeAgent(c, a)
      PROVE  Rests'
  <2>1. PICK k : k = [i EXCEPT !.pc = "rows", !.agent = a] OBVIOUS
  <2>2. k \in Call /\ k.pc = "rows" BY <1>2, <2>1 DEF Call, Steps
  <2>3. agent' = [agent EXCEPT ![a] = "revoked"] BY <1>8 DEF RevokeAgent
  <2> QED BY <1>1, <1>4, <1>5, <1>8, <2>1, <2>2, <2>3 DEF RevokeAgent
<1> QED BY <1>6, <1>7, <1>8 DEF NewCall


\* What the authority read gives the insert: links that feed the new one, and a
\* deadline and a depth within the limits that were asked for.
LEMMA AuthorityLimits ==
  ASSUME IInv, Rests, NEW l \in Links, NEW inbound, inbound = LiveInbound(From(l)),
         NEW limits, limits = {Wanted[l].maxDepth} \cup {maxDepth[i] : i \in inbound},
         NEW hops, hops = 1 + Max({0} \cup {depth[i] : i \in inbound})
  PROVE  /\ inbound \subseteq {i \in Links : status[i] = "active" /\ To(i) = From(l)}
         /\ hops \in Nat /\ Min(limits) \in Nat /\ Min(limits) <= Wanted[l].maxDepth
         /\ Deadline(l, inbound) \in Nat /\ Deadline(l, inbound) <= Wanted[l].expiresAt
         /\ ~OwnCovers(l) => \A i \in inbound : Deadline(l, inbound) <= expiresAt[i]
         /\ ~OwnCovers(l) => \/ inbound # {}
                             \/ ~(Lent(l) \subseteq Own[From(l)] \cup UNION {Lent(i) : i \in inbound})
<1>1. inbound \subseteq {i \in Links : status[i] = "active" /\ To(i) = From(l)}
  BY DEF LiveInbound, Inbound
<1>2. Wanted[l].maxDepth \in Nat /\ Wanted[l].expiresAt \in Nat BY WantedAssumption
<1>3. /\ expiresAt \in [Links -> Nat] /\ depth \in [Links -> Nat] /\ maxDepth \in [Links -> Nat]
  BY DEF Rests, TypedRows
<1>4. hops \in Nat
  <2>1. PICK D : D = {depth[i] : i \in inbound} OBVIOUS
  <2>2. IsFiniteSet(inbound) BY <1>1, FiniteAssumption, FS_Subset
  <2>3. IsFiniteSet(D)
    <3> DEFINE f == [i \in inbound |-> depth[i]]
    <3>1. f \in Surjection(inbound, D) BY <2>1 DEF Surjection
    <3> QED BY <2>2, <3>1, FS_Surjection
  <2>4. PICK T : T = {0} \cup D OBVIOUS
  <2>5. T \subseteq Nat /\ T # {} BY <1>1, <1>3, <2>1, <2>4
  <2>6. IsFiniteSet(T)
    <3>1. T = D \cup {0} BY <2>4
    <3> QED BY <2>3, <3>1, FS_AddElement
  <2>7. Max(T) \in Nat BY <2>5, <2>6, MaxIs
  <2> QED BY <2>1, <2>4, <2>7
<1>5. Min(limits) \in Nat /\ Min(limits) <= Wanted[l].maxDepth
  <2>1. limits \subseteq Nat /\ Wanted[l].maxDepth \in limits BY <1>1, <1>2, <1>3
  <2> QED BY <2>1, MinIs
<1>6. /\ Deadline(l, inbound) \in Nat /\ Deadline(l, inbound) <= Wanted[l].expiresAt
      /\ ~OwnCovers(l) => \A i \in inbound : Deadline(l, inbound) <= expiresAt[i]
  <2>1. PICK T : T = {Wanted[l].expiresAt}
                       \cup (IF OwnCovers(l) THEN {} ELSE {expiresAt[i] : i \in inbound})
    OBVIOUS
  <2>2. T \subseteq Nat /\ Wanted[l].expiresAt \in T BY <1>1, <1>2, <1>3, <2>1
  <2>3. ~OwnCovers(l) => \A i \in inbound : expiresAt[i] \in T BY <2>1
  <2>4. Deadline(l, inbound) = Min(T) BY <2>1 DEF Deadline
  <2>5. Min(T) \in T /\ \A y \in T : Min(T) <= y BY <2>2, MinIs
  <2> QED BY <2>2, <2>3, <2>4, <2>5
<1>7. inbound = {} => UNION {Lent(i) : i \in inbound} = {} OBVIOUS
<1> QED BY <1>1, <1>4, <1>5, <1>6, <1>7 DEF OwnCovers

LEMMA ReadAuthorityRest ==
  ASSUME IInv, Rests, NEW c \in Calls, ReadAuthority(c)
  PROVE  Rests'
<1>1. PICK h, l, inbound, limits, hops :
        /\ h = call[c] /\ l = h.link /\ inbound = LiveInbound(From(l))
        /\ limits = {Wanted[l].maxDepth} \cup {maxDepth[i] : i \in inbound}
        /\ hops = 1 + Max({0} \cup {depth[i] : i \in inbound})
  OBVIOUS
<1>2. h.pc = "authority" /\ l \in Links \ Inserted /\ h \in Call
  BY <1>1, CallTyped DEF ReadAuthority, At, IInv, CallsOK, CallOK, Inserting
<1>3. UNCHANGED <<row, revokeRows, clock, lost, agent, failures, broken>>
  BY DEF ReadAuthority, history
<1>4. /\ failures' \in 0..MaxFailures /\ broken' \in BOOLEAN /\ (broken => broken')
      /\ agent' \in [Agents -> {"active", "revoked"}]
  BY <1>3 DEF Rests, TypedRows
<1>5. \A m : ~Due(h, m) BY <1>2 DEF Due, Cascading
<1>6. CASE Return(c) BY <1>1, <1>3, <1>4, <1>5, <1>6, ReturnRest
<1>7. CASE ~Return(c)
  <2>1. PICK k : k = [h EXCEPT !.pc = "insert", !.inbound = inbound, !.depth = hops,
                        !.maxDepth = Min(limits), !.expiresAt = Deadline(l, inbound)]
    OBVIOUS
  <2>2. /\ Lent(l) \subseteq Own[From(l)] \cup UNION {Lent(i) : i \in inbound}
        /\ hops <= Min(limits) /\ call' = [call EXCEPT ![c] = k]
    BY <1>1, <1>7, <2>1 DEF ReadAuthority
  <2>3. /\ inbound \subseteq {i \in Links : status[i] = "active" /\ To(i) = From(l)}
        /\ hops \in Nat /\ Min(limits) \in Nat /\ Min(limits) <= Wanted[l].maxDepth
        /\ Deadline(l, inbound) \in Nat /\ Deadline(l, inbound) <= Wanted[l].expiresAt
        /\ ~OwnCovers(l) => \A i \in inbound : Deadline(l, inbound) <= expiresAt[i]
        /\ ~OwnCovers(l) => inbound # {}
    BY <1>1, <1>2, <2>2, AuthorityLimits
  <2>4. /\ k \in Call /\ k.pc = "insert" /\ k.link = l /\ k.inbound = inbound /\ k.depth = hops
        /\ k.expiresAt = Deadline(l, inbound)
    <3>1. PICK least, due : least = Min(limits) /\ due = Deadline(l, inbound) OBVIOUS
    <3>2. k = [h EXCEPT !.pc = "insert", !.inbound = inbound, !.depth = hops,
                 !.maxDepth = least, !.expiresAt = due]
      BY <2>1, <3>1
    <3>3. inbound \in SUBSET Links /\ hops \in Nat /\ least \in Nat /\ due \in Nat BY <2>3, <3>1
    <3>4. h \in Call /\ h.link = l BY <1>1, <1>2
    <3>5. k \in Call BY <3>2, <3>3, <3>4 DEF Call, Steps
    <3>6. /\ k.pc = "insert" /\ k.link = l /\ k.inbound = inbound /\ k.depth = hops
          /\ k.expiresAt = due
      BY <3>2, <3>4 DEF Call
    <3> QED BY <3>1, <3>5, <3>6
  <2>5. Wanted[l].maxDepth \in Nat BY <1>2, WantedAssumption
  <2>6. hops <= Wanted[l].maxDepth BY <2>2, <2>3, <2>5
  <2>7. \A i \in inbound : i \in Inserted BY <2>3 DEF Inserted
  <2>8. InsertOK(k) BY <2>3, <2>4, <2>6, <2>7 DEF InsertOK, Source
  <2> QED BY <1>1, <1>3, <1>4, <1>5, <2>2, <2>4, <2>8, LocalRest
<1> QED BY <1>6, <1>7


\* A link that its delegator does not cover is re-checked by the call that inserts it.
LEMMA InsertRest ==
  ASSUME IInv, Rests, NEW c \in Calls, InsertLink(c)
  PROVE  Rests'
<1>1. PICK h, m : h = call[c] /\ m = h.link OBVIOUS
<1>2. h.pc = "insert" /\ m \in Links \ Inserted /\ h \in Call /\ InsertOK(h)
  BY <1>1, CallTyped DEF InsertLink, At, IInv, CallsOK, CallOK, Inserting, Rests, InsertsOK
<1>3. /\ status' = [status EXCEPT ![m] = "active"]
      /\ expiresAt' = [expiresAt EXCEPT ![m] = h.expiresAt]
      /\ depth' = [depth EXCEPT ![m] = h.depth]
      /\ maxDepth' = [maxDepth EXCEPT ![m] = h.maxDepth]
      /\ UNCHANGED <<agent, revokeRows, clock, failures, lost, broken>>
  BY <1>1 DEF InsertLink, history
<1>4. /\ status \in [Links -> {"none", "active", "revoked", "gone"}]
      /\ expiresAt \in [Links -> Nat]
  BY DEF IInv, Typed, Rests, TypedRows
<1>5. status[m] = "none" /\ \A l \in Links \ {m} : status'[l] = status[l] /\ expiresAt'[l] = expiresAt[l]
  BY <1>2, <1>3, <1>4 DEF Inserted
<1>6. status'[m] = "active" /\ expiresAt'[m] = h.expiresAt BY <1>2, <1>3, <1>4
<1>7. PICK k : /\ k \in Call /\ call' = [call EXCEPT ![c] = k] /\ k.pc \in {"idle", "recheck"}
               /\ Recheck(m, h.inbound) => k.pc = "recheck"
               /\ k.pc = "recheck" => k.link = m /\ k.inbound = h.inbound
  <2>1. CASE Recheck(m, h.inbound)
    <3>1. PICK k : k = [h EXCEPT !.pc = "recheck"] OBVIOUS
    <3>2. k \in Call /\ k.pc = "recheck" /\ k.link = m /\ k.inbound = h.inbound
      BY <1>1, <1>2, <3>1 DEF Call, Steps
    <3>3. call' = [call EXCEPT ![c] = k] BY <1>1, <2>1, <3>1 DEF InsertLink, Go
    <3> QED BY <3>2, <3>3
  <2>2. CASE ~Recheck(m, h.inbound)
    <3>1. call' = [call EXCEPT ![c] = Idle] BY <1>1, <2>2 DEF InsertLink, Return
    <3> QED BY <2>2, <3>1, IdleRests
  <2> QED BY <2>1, <2>2
<1>8. TypedRows'
  <2>1. /\ h.expiresAt \in Nat /\ h.depth \in Nat /\ h.maxDepth \in Nat
        /\ h.expiresAt <= Wanted[m].expiresAt /\ h.depth <= Wanted[m].maxDepth
    BY <1>1, <1>2 DEF Call, InsertOK
  <2> QED BY <1>2, <1>3, <2>1 DEF Rests, TypedRows
<1>9. InsertOK(k)'
  <2> SUFFICES ASSUME k.pc = "recheck"
               PROVE  (\A i \in k.inbound : Source(k, i)') /\ (~OwnCovers(k.link) => k.inbound # {})
    BY <1>7 DEF InsertOK
  <2>1. /\ k.link = m /\ k.inbound = h.inbound
        /\ \A i \in h.inbound : Source(h, i)
        /\ ~OwnCovers(m) => h.inbound # {}
    BY <1>1, <1>2, <1>7 DEF InsertOK
  <2>2. ASSUME NEW i \in k.inbound
        PROVE  Source(k, i)'
    <3>1. /\ i \in Inserted /\ i # m /\ To(i) = From(m)
          /\ ~OwnCovers(m) => h.expiresAt <= expiresAt[i]
      BY <1>1, <1>2, <2>1, <2>2 DEF Source
    <3>2. i \in Links /\ i \in Inserted' BY <1>5, <3>1 DEF Inserted
    <3> QED BY <1>5, <1>6, <2>1, <3>1, <3>2 DEF Source
  <2> QED BY <2>1, <2>2
<1>10. FewRows' BY <1>3, <1>7, RowsStayFew
<1>11. \A l \in Inserted : l \in Inserted' /\ expiresAt'[l] = expiresAt[l]
  BY <1>2, <1>5 DEF Inserted
<1>12. ASSUME NEW l \in Links, status'[l] = "active", ~OwnCovers(l),
              status[l] = "active" => Fed(l) \/ Due(h, l)
       PROVE  Fed(l)' \/ Due(k, l)
  <2>1. CASE l = m
    <3>1. k.pc = "recheck" /\ k.link = m
      BY <1>1, <1>2, <1>7, <1>12, <2>1 DEF InsertOK, Recheck
    <3> QED BY <2>1, <3>1 DEF Due
  <2>2. CASE l # m
    <3>1. ~Due(h, l) BY <1>2 DEF Due, Cascading
    <3>2. PICK i \in Links : To(i) = From(l) /\ status[i] = "active" /\ expiresAt[l] <= expiresAt[i]
      BY <1>5, <1>12, <2>2, <3>1 DEF Fed
    <3>3. i # m BY <1>5, <3>2
    <3> QED BY <1>5, <2>2, <3>2, <3>3 DEF Fed
  <2> QED BY <2>1, <2>2
<1> QED BY <1>1, <1>3, <1>7, <1>8, <1>9, <1>10, <1>11, <1>12, RestStep

\* A source that is still active feeds the link; without one, the link is deleted.
LEMMA RecheckInboundRest ==
  ASSUME IInv, Rests, NEW c \in Calls, RecheckInbound(c)
  PROVE  Rests'
<1>1. PICK h : h = call[c] OBVIOUS
<1>2. h.pc = "recheck" /\ h.link \in Inserted /\ InsertOK(h)
  BY <1>1 DEF RecheckInbound, At, IInv, CallsOK, CallOK, Rests, InsertsOK
<1>3. UNCHANGED <<row, revokeRows, clock, lost, agent, failures, broken>>
  BY DEF RecheckInbound, history
<1>4. CASE Go(c, "rollback")
  BY <1>1, <1>2, <1>3, <1>4, GoRest DEF Steps, Cascading
<1>5. CASE ~Go(c, "rollback")
  <2>1. PICK i \in h.inbound : status[i] = "active" BY <1>1, <1>5 DEF RecheckInbound
  <2>2. Return(c) BY <1>1, <1>5 DEF RecheckInbound
  <2>3. Source(h, i) BY <1>2 DEF InsertOK
  <2>4. i \in Links BY <2>3 DEF Source, Inserted
  <2>5. ~OwnCovers(h.link) => Fed(h.link) BY <1>2, <2>1, <2>3, <2>4 DEF Source, Fed
  <2> QED BY <1>1, <1>2, <1>3, <2>2, <2>5, ReturnRest DEF Rests, TypedRows, Due, Cascading
<1> QED BY <1>4, <1>5


LEMMA RollbackRest ==
  ASSUME IInv, Rests, NEW c \in Calls, Rollback(c)
  PROVE  Rests'
<1>1. PICK h, k, m : h = call[c] /\ k = Idle /\ m = h.link OBVIOUS
<1>2. m \in Inserted BY <1>1 DEF Rollback, At, IInv, CallsOK, CallOK
<1>3. /\ status' = [status EXCEPT ![m] = "gone"] /\ broken' = TRUE
      /\ UNCHANGED <<agent, expiresAt, depth, maxDepth, revokeRows, clock, failures, lost>>
  BY <1>1 DEF Rollback
<1>4. k \in Call /\ InsertOK(k) /\ k.pc = "idle" /\ call' = [call EXCEPT ![c] = k]
  BY <1>1, IdleRests DEF Rollback, Return
<1>5. TypedRows' BY <1>3 DEF Rests, TypedRows
<1>6. InsertOK(k)' BY <1>4 DEF InsertOK
<1>7. FewRows' BY <1>3, <1>4, RowsStayFew
<1>8. \A l \in Inserted : l \in Inserted' /\ expiresAt'[l] = expiresAt[l]
  BY <1>2, <1>3 DEF IInv, Typed, Inserted
<1> QED BY <1>3, <1>4, <1>5, <1>6, <1>7, <1>8, RestStep

--------------------------------------------------------------------------------
\* What is due of the loops still to run.
Ahead(rows, todo, l) == l \in rows \/ \E i \in 1..Len(todo) : l \in todo[i]

\* The next round of a cascade, and what it still has to revoke.
LEMMA ProceedRest ==
  ASSUME IInv, Rests, NEW c \in Calls, NEW rows \in SUBSET Links, NEW todo \in Seq(SUBSET Links),
         Proceed(c, rows, todo), UNCHANGED <<row, revokeRows, clock, lost, agent, failures, broken>>,
         \A l \in Links : status[l] = "active" /\ Due(call[c], l) => Ahead(rows, todo, l)
  PROVE  Rests'
<1>1. /\ failures' \in 0..MaxFailures /\ broken' \in BOOLEAN /\ (broken => broken')
      /\ agent' \in [Agents -> {"active", "revoked"}]
  BY DEF Rests, TypedRows
<1>2. CASE rows = {} /\ todo = <<>>
  <2>1. \A l : ~Ahead(rows, todo, l) BY <1>2 DEF Ahead
  <2> QED BY <1>1, <1>2, <2>1, ReturnRest DEF Proceed
<1>3. CASE ~(rows = {} /\ todo = <<>>)
  <2>1. PICK h, k : h = call[c] /\ k = [h EXCEPT !.pc = "next", !.rows = rows, !.todo = todo]
    OBVIOUS
  <2>2. h \in Call BY <2>1, CallTyped
  <2>3. k \in Call /\ k.pc = "next" /\ k.rows = rows /\ k.todo = todo BY <2>1, <2>2 DEF Call, Steps
  <2>4. call' = [call EXCEPT ![c] = k] BY <1>3, <2>1 DEF Proceed, Rests
  <2>5. InsertOK(k) BY <2>3 DEF InsertOK
  <2>6. \A l : Ahead(rows, todo, l) => Due(k, l) BY <2>3 DEF Ahead, Due, Cascading
  <2> QED BY <1>1, <2>1, <2>3, <2>4, <2>5, <2>6, LocalRest
<1> QED BY <1>2, <1>3

LEMMA ListRowsRest ==
  ASSUME IInv, Rests, NEW c \in Calls, ListRows(c)
  PROVE  Rests'
<1>1. PICK h, ls, s : /\ h = call[c] /\ s = <<>>
                      /\ ls = {l \in Links : /\ status[l] \in {"active", "revoked"}
                                            /\ call[c].agent \in {From(l), To(l)}}
  OBVIOUS
<1>2. h.pc = "rows" /\ Proceed(c, ls, s) BY <1>1 DEF ListRows, At
<1>3. ls \in SUBSET Links /\ s \in Seq(SUBSET Links) BY <1>1
<1>4. \A l : ~Due(h, l) BY <1>2 DEF Due, Cascading
<1>5. UNCHANGED <<row, revokeRows, clock, lost, agent, failures, broken>> BY DEF ListRows, history
<1> QED BY <1>1, <1>2, <1>3, <1>4, <1>5, ProceedRest

\* The children of the link that was flipped are due to be revoked, and were.
LEMMA ListChildrenRest ==
  ASSUME IInv, Rests, NEW c \in Calls, ListChildren(c)
  PROVE  Rests'
<1>1. PICK h, below, todo : /\ h = call[c] /\ below = Children(h.link)
                            /\ todo = IF below = {} THEN h.todo ELSE Append(h.todo, below)
  OBVIOUS
<1>2. h \in Call /\ h.pc = "children" BY <1>1, CallTyped DEF ListChildren, At
<1>3. h.rows \in SUBSET Links /\ h.todo \in Seq(SUBSET Links) BY <1>2 DEF Call
<1>4. below = {l \in Links : From(l) = To(h.link) /\ status[l] = "active"} BY <1>1 DEF Children
<1>5. below \in SUBSET Links BY <1>4
<1>6. /\ Append(h.todo, below) \in Seq(SUBSET Links)
      /\ Len(Append(h.todo, below)) = Len(h.todo) + 1 /\ Len(h.todo) \in Nat
      /\ \A i \in 1..Len(h.todo) : Append(h.todo, below)[i] = h.todo[i]
      /\ Append(h.todo, below)[Len(h.todo) + 1] = below
  BY <1>3, <1>5, AppendProperties, LenProperties
<1>7. /\ todo \in Seq(SUBSET Links)
      /\ \A l : (l \in below \/ \E i \in 1..Len(h.todo) : l \in h.todo[i])
                => \E i \in 1..Len(todo) : l \in todo[i]
  <2>1. CASE below = {} BY <1>1, <1>3, <2>1
  <2>2. CASE below # {}
    <3>1. PICK n : n = Len(h.todo) /\ n \in Nat BY <1>6
    <3>2. /\ todo \in Seq(SUBSET Links) /\ Len(todo) = n + 1 /\ todo[n + 1] = below
          /\ \A i \in 1..n : todo[i] = h.todo[i]
      BY <1>1, <1>6, <2>2, <3>1
    <3>3. n + 1 \in 1..Len(todo) /\ \A i \in 1..n : i \in 1..Len(todo) BY <3>1, <3>2
    <3> QED BY <3>1, <3>2, <3>3
  <2> QED BY <2>1, <2>2
<1>8. \A l \in Links : status[l] = "active" /\ Due(h, l) => Ahead(h.rows, todo, l)
  <2>1. \A l \in Links : Due(h, l) =>
          \/ l \in h.rows \/ \E i \in 1..Len(h.todo) : l \in h.todo[i]
          \/ To(h.link) = From(l)
    BY <1>2 DEF Due
  <2> QED BY <1>4, <1>7, <2>1 DEF Ahead
<1>9. Proceed(c, h.rows, todo) BY <1>1 DEF ListChildren
<1>10. UNCHANGED <<row, revokeRows, clock, lost, agent, failures, broken>>
  BY DEF ListChildren, history
<1> QED BY <1>1, <1>3, <1>7, <1>8, <1>9, <1>10, ProceedRest


\* A link in some loop is in the innermost one or in those around it, which stay.
LEMMA TodoCovers ==
  ASSUME NEW s \in Seq(SUBSET Links), s # <<>>, NEW r \in SUBSET Links, NEW l,
         \E i \in 1..Len(s) : l \in s[i]
  PROVE  \/ l \in Last(s)
         \/ /\ \E i \in 1..Len(Front(s)) : l \in Front(s)[i]
            /\ \E i \in 1..Len(Append(Front(s), r)) : l \in Append(Front(s), r)[i]
<1>1. PICK n \in Nat : Len(s) = n + 1
  <2>1. Len(s) \in Nat \ {0} BY EmptySeq, LenProperties
  <2> QED BY <2>1
<1>2. PICK f : f = SubSeq(s, 1, n) OBVIOUS
<1>3. Front(s) = f BY <1>1, <1>2 DEF Front
<1>4. Last(s) = s[n + 1] BY <1>1 DEF Last
<1>5. f \in Seq(SUBSET Links) /\ Len(f) = n /\ \A i \in 1..n : f[i] = s[i]
  <2>1. \A i \in 1..n : s[i] \in SUBSET Links BY <1>1, ElementOfSeq
  <2>2. /\ SubSeq(s, 1, n) \in Seq(SUBSET Links)
        /\ Len(SubSeq(s, 1, n)) = IF 1 <= n THEN n - 1 + 1 ELSE 0
        /\ \A i \in 1..(n - 1 + 1) : SubSeq(s, 1, n)[i] = s[1 + i - 1]
    BY <1>1, <2>1, SubSeqProperties
  <2>3. Len(SubSeq(s, 1, n)) = n /\ \A i \in 1..n : SubSeq(s, 1, n)[i] = s[i]
    BY <1>1, <2>2
  <2> QED BY <1>2, <2>2, <2>3
<1>6. /\ Len(Append(f, r)) = n + 1
      /\ \A i \in 1..n : Append(f, r)[i] = f[i]
  BY <1>5, AppendProperties
<1>7. PICK i \in 1..(n + 1) : l \in s[i] BY <1>1
<1>8. CASE i = n + 1 BY <1>4, <1>7, <1>8
<1>9. CASE i \in 1..n
  <2>1. l \in f[i] /\ i \in 1..Len(f) BY <1>5, <1>7, <1>9
  <2>2. l \in Append(f, r)[i] /\ i \in 1..Len(Append(f, r)) BY <1>6, <1>9, <2>1
  <2> QED BY <1>3, <2>1, <2>2
<1> QED BY <1>7, <1>8, <1>9

LEMMA NextLinkRest ==
  ASSUME IInv, Rests, NEW c \in Calls, NextLink(c)
  PROVE  Rests'
<1>1. PICK h : h = call[c] OBVIOUS
<1>2. h \in Call /\ h.pc = "next" BY <1>1, CallTyped DEF NextLink, At
<1>3. UNCHANGED <<row, revokeRows, clock, lost, agent, failures, broken>> BY DEF NextLink, history
<1>4. /\ failures' \in 0..MaxFailures /\ broken' \in BOOLEAN /\ (broken => broken')
      /\ agent' \in [Agents -> {"active", "revoked"}]
  BY <1>3 DEF Rests, TypedRows
<1>5. h.rows \in SUBSET Links /\ h.todo \in Seq(SUBSET Links) BY <1>2 DEF Call
<1>6. ASSUME NEW l \in Links, NEW rows \in SUBSET Links, NEW todo \in Seq(SUBSET Links), NEW k,
             k = [h EXCEPT !.pc = "read", !.link = l, !.rows = rows, !.todo = todo],
             call' = [call EXCEPT ![c] = k],
             \A m \in Links : Ahead(h.rows, h.todo, m) => m = l \/ Ahead(rows, todo, m)
      PROVE  Rests'
  <2>1. /\ k \in Call /\ k.pc = "read" /\ k.link = l /\ k.rows = rows /\ k.todo = todo
    BY <1>2, <1>6 DEF Call, Steps
  <2>2. InsertOK(k) BY <2>1 DEF InsertOK
  <2>3. \A m \in Links : Due(h, m) => Ahead(h.rows, h.todo, m) BY <1>2 DEF Due, Ahead
  <2>4. \A m \in Links : m = l \/ Ahead(rows, todo, m) => Due(k, m)
    BY <2>1 DEF Due, Ahead, Cascading
  <2> QED BY <1>1, <1>3, <1>4, <1>6, <2>1, <2>2, <2>3, <2>4, LocalRest
<1>7. ASSUME h.todo # <<>>, NEW l \in Last(h.todo),
             call' = [call EXCEPT ![c] = [h EXCEPT !.pc = "read", !.link = l,
                        !.todo = IF Last(h.todo) \ {l} = {} THEN Front(@)
                                 ELSE Append(Front(@), Last(h.todo) \ {l})]]
      PROVE  Rests'
  <2>1. PICK s, r : s = h.todo /\ r = Last(s) \ {l} OBVIOUS
  <2>2. s \in Seq(SUBSET Links) /\ s # <<>> /\ \A i \in 1..Len(s) : s[i] \subseteq Links
    <3>1. s \in Seq(SUBSET Links) /\ s # <<>> BY <1>5, <1>7, <2>1
    <3> QED BY <3>1, ElementOfSeq
  <2>3. r \subseteq Last(s) BY <2>1
  <2>4. /\ Last(s) \subseteq Links /\ Front(s) \in Seq(SUBSET Links)
        /\ Append(Front(s), r) \in Seq(SUBSET Links)
    BY <2>2, <2>3, TodoShrinks
  <2>5. l \in Links /\ r \in SUBSET Links BY <1>7, <2>1, <2>4
  <2>6. PICK todo : todo = IF r = {} THEN Front(s) ELSE Append(Front(s), r) OBVIOUS
  <2>7. todo \in Seq(SUBSET Links) BY <2>4, <2>6
  <2>8. PICK k : k = [h EXCEPT !.pc = "read", !.link = l, !.rows = h.rows, !.todo = todo] OBVIOUS
  <2>9. call' = [call EXCEPT ![c] = k] BY <1>2, <1>7, <2>1, <2>6, <2>8 DEF Call
  <2>10. ASSUME NEW m \in Links, Ahead(h.rows, h.todo, m)
         PROVE  m = l \/ Ahead(h.rows, todo, m)
    <3>1. CASE m \in h.rows BY <3>1 DEF Ahead
    <3>2. CASE \E i \in 1..Len(s) : m \in s[i]
      <4>1. \/ m \in Last(s)
            \/ /\ \E i \in 1..Len(Front(s)) : m \in Front(s)[i]
               /\ \E i \in 1..Len(Append(Front(s), r)) : m \in Append(Front(s), r)[i]
        BY <2>2, <2>5, <3>2, TodoCovers
      <4>2. CASE m \in Last(s) /\ m # l
        <5>1. m \in r /\ todo = Append(Front(s), r) BY <2>1, <2>6, <4>2
        <5>2. PICK n : n = Len(Front(s)) /\ n \in Nat BY <2>4, LenProperties
        <5>3. Len(todo) = n + 1 /\ todo[n + 1] = r
          BY <2>4, <2>5, <5>1, <5>2, AppendProperties
        <5>4. n + 1 \in 1..Len(todo) BY <5>2, <5>3
        <5> QED BY <5>1, <5>3, <5>4 DEF Ahead
      <4>3. CASE m \notin Last(s)
        <5>1. CASE r = {} BY <2>6, <4>1, <4>3, <5>1 DEF Ahead
        <5>2. CASE r # {} BY <2>6, <4>1, <4>3, <5>2 DEF Ahead
        <5> QED BY <5>1, <5>2
      <4> QED BY <4>2, <4>3
    <3> QED BY <2>1, <2>10, <3>1, <3>2 DEF Ahead
  <2> QED BY <1>5, <1>6, <2>5, <2>7, <2>8, <2>9, <2>10
<1>8. ASSUME NEW l \in h.rows,
             call' = [call EXCEPT ![c] = [h EXCEPT !.pc = "read", !.link = l, !.rows = @ \ {l}]]
      PROVE  Rests'
  <2>1. PICK k, rows, todo : /\ rows = h.rows \ {l} /\ todo = h.todo
                             /\ k = [h EXCEPT !.pc = "read", !.link = l, !.rows = rows, !.todo = todo]
    OBVIOUS
  <2>2. call' = [call EXCEPT ![c] = k] BY <1>2, <1>8, <2>1 DEF Call
  <2>3. l \in Links /\ rows \in SUBSET Links /\ todo \in Seq(SUBSET Links) BY <1>5, <1>8, <2>1
  <2>4. \A m \in Links : Ahead(h.rows, h.todo, m) => m = l \/ Ahead(rows, todo, m)
    BY <2>1 DEF Ahead
  <2> QED BY <1>6, <2>1, <2>2, <2>3, <2>4
<1>9. \/ /\ h.todo # <<>>
         /\ \E l \in Last(h.todo) :
              call' = [call EXCEPT ![c] = [h EXCEPT !.pc = "read", !.link = l,
                        !.todo = IF Last(h.todo) \ {l} = {} THEN Front(@)
                                 ELSE Append(Front(@), Last(h.todo) \ {l})]]
      \/ \E l \in h.rows :
           call' = [call EXCEPT ![c] = [h EXCEPT !.pc = "read", !.link = l, !.rows = @ \ {l}]]
  BY <1>1 DEF NextLink
<1> QED BY <1>7, <1>8, <1>9


--------------------------------------------------------------------------------
LEMMA ReadLinkRest ==
  ASSUME IInv, Rests, NEW c \in Calls, ReadLink(c)
  PROVE  Rests'
<1>1. UNCHANGED <<row, revokeRows, clock, lost, agent, failures>> BY DEF ReadLink
<1>2. call[c].pc = "read" /\ failures' \in 0..MaxFailures
  BY <1>1 DEF ReadLink, At, Rests, TypedRows
<1>3. CASE broken' = TRUE /\ Return(c) BY <1>1, <1>2, <1>3, ReturnRest
<1>4. CASE UNCHANGED broken /\ Go(c, AfterRead(call[c].link))
  <2>1. PICK pc : pc = AfterRead(call[c].link) OBVIOUS
  <2>2. pc \in {"lookup", "flip"} BY <2>1 DEF AfterRead
  <2> QED BY <1>1, <1>2, <1>4, <2>1, <2>2, GoRest DEF Steps, Cascading
<1> QED BY <1>3, <1>4 DEF ReadLink

LEMMA LookupAuditRest ==
  ASSUME IInv, Rests, NEW c \in Calls, LookupAudit(c)
  PROVE  Rests'
<1>1. UNCHANGED <<row, revokeRows, clock, lost, agent, failures, broken>>
  BY DEF LookupAudit, history
<1>2. PICK m : m = call[c].link OBVIOUS
<1>3. call[c].pc = "lookup" /\ m \in Links
  BY <1>2 DEF LookupAudit, At, IInv, CallsOK, CallOK, Revoking, Inserted
<1>4. revokeRows[m] \in Nat BY <1>3 DEF IInv, Typed
<1>5. PICK pc : /\ Go(c, pc) /\ pc \in {"flip", "write"}
                /\ pc = "write" => ~RevokeAuditExists(m)
  BY <1>2 DEF LookupAudit
<1>6. pc = "write" => revokeRows[call[c].link] = 0 BY <1>2, <1>4, <1>5 DEF RevokeAuditExists
<1> QED BY <1>1, <1>3, <1>5, <1>6, GoRest DEF Steps, Cascading

LEMMA WriteAuditRest ==
  ASSUME IInv, Rests, NEW c \in Calls, WriteAudit(c)
  PROVE  Rests'
<1>1. PICK h, k, m : h = call[c] /\ k = [h EXCEPT !.pc = "flip"] /\ m = h.link OBVIOUS
<1>2. h \in Call /\ h.pc = "write" /\ m \in Links
  BY <1>1, CallTyped DEF WriteAudit, At, IInv, CallsOK, CallOK, Revoking, Inserted
<1>3. k \in Call /\ k.pc = "flip" /\ k.link = m /\ k.rows = h.rows /\ k.todo = h.todo
  BY <1>1, <1>2 DEF Call, Steps
<1>4. UNCHANGED <<status, expiresAt, depth, maxDepth, agent, clock, broken>> BY DEF WriteAudit, row
<1>5. call' = [call EXCEPT ![c] = k] BY <1>1 DEF WriteAudit, Go
<1>6. /\ \A l \in Links : \/ revokeRows'[l] = revokeRows[l]
                          \/ l = m /\ revokeRows'[l] = revokeRows[l] + 1
      /\ failures' \in 0..MaxFailures /\ lost' \subseteq Links
  <2>1. CASE revokeRows' = [revokeRows EXCEPT ![m] = @ + 1] /\ UNCHANGED <<failures, lost>>
    BY <1>2, <2>1 DEF IInv, Typed, Rests, TypedRows
  <2>2. CASE /\ failures < MaxFailures /\ failures' = failures + 1 /\ lost' = lost \cup {m}
             /\ UNCHANGED revokeRows
    BY <1>2, <2>2, BoundAssumption DEF Rests, TypedRows
  <2> QED BY <1>1, <2>1, <2>2 DEF WriteAudit
<1>7. TypedRows' BY <1>4, <1>6 DEF Rests, TypedRows
<1>8. InsertOK(k)' BY <1>3 DEF InsertOK
<1>9. FewRows' BY <1>1, <1>2, <1>3, <1>5, <1>6, RowsStayFew
<1>10. \A l \in Links : Due(h, l) => Due(k, l) BY <1>1, <1>2, <1>3 DEF Due, Cascading
<1>11. \A l \in Links : Fed(l)' <=> Fed(l) BY <1>4 DEF Fed
<1>12. \A l \in Inserted : l \in Inserted' /\ expiresAt'[l] = expiresAt[l] BY <1>4 DEF Inserted
<1> QED BY <1>1, <1>3, <1>4, <1>5, <1>7, <1>8, <1>9, <1>10, <1>11, <1>12, RestStep

\* What the link fed is looked for from now on.
LEMMA FlipLinkRest ==
  ASSUME IInv, Rests, NEW c \in Calls, FlipLink(c)
  PROVE  Rests'
<1>1. PICK h, k, m : h = call[c] /\ k = [h EXCEPT !.pc = "children"] /\ m = h.link OBVIOUS
<1>2. h \in Call /\ h.pc = "flip" /\ m \in Inserted
  BY <1>1, CallTyped DEF FlipLink, At, IInv, CallsOK, CallOK, Revoking
<1>3. k \in Call /\ k.pc = "children" /\ k.link = m /\ k.rows = h.rows /\ k.todo = h.todo
  BY <1>1, <1>2 DEF Call, Steps
<1>4. /\ status' = [status EXCEPT ![m] = IF @ = "gone" THEN "gone" ELSE "revoked"]
      /\ UNCHANGED <<expiresAt, depth, maxDepth, revokeRows, agent, clock, failures, lost, broken>>
  BY <1>1 DEF FlipLink, history
<1>5. call' = [call EXCEPT ![c] = k] BY <1>1 DEF FlipLink, Go
<1>6. /\ status'[m] # "active" /\ status'[m] # "none"
      /\ \A l \in Links \ {m} : status'[l] = status[l]
  BY <1>2, <1>4 DEF IInv, Typed, Inserted
<1>7. TypedRows' BY <1>4 DEF Rests, TypedRows
<1>8. InsertOK(k)' BY <1>3 DEF InsertOK
<1>9. FewRows' BY <1>3, <1>4, <1>5, RowsStayFew
<1>10. \A l \in Inserted : l \in Inserted' /\ expiresAt'[l] = expiresAt[l]
  BY <1>4, <1>6 DEF Inserted
<1>11. ASSUME NEW l \in Links, status'[l] = "active", status[l] = "active" => Fed(l) \/ Due(h, l)
       PROVE  Fed(l)' \/ Due(k, l)
  <2>1. l # m /\ status[l] = "active" BY <1>6, <1>11
  <2>2. CASE Due(h, l) BY <1>1, <1>2, <1>3, <2>1, <2>2 DEF Due, Cascading
  <2>3. CASE Fed(l)
    <3>1. PICK i \in Links : To(i) = From(l) /\ status[i] = "active" /\ expiresAt[l] <= expiresAt[i]
      BY <2>3 DEF Fed
    <3>2. CASE i = m BY <1>3, <3>1, <3>2 DEF Due
    <3>3. CASE i # m BY <1>4, <1>6, <3>1, <3>3 DEF Fed
    <3> QED BY <3>2, <3>3
  <2> QED BY <1>11, <2>1, <2>2, <2>3
<1> QED BY <1>1, <1>3, <1>4, <1>5, <1>7, <1>8, <1>9, <1>10, <1>11, RestStep

LEMMA CrashRest ==
  ASSUME IInv, Rests, NEW c \in Calls, Crash(c)
  PROVE  Rests'
<1>1. failures' \in 0..MaxFailures BY BoundAssumption DEF Crash, Rests, TypedRows
<1> QED BY <1>1, ReturnRest DEF Crash

--------------------------------------------------------------------------------
LEMMA InitRests == Init => Rests
<1> SUFFICES ASSUME Init PROVE Rests
  OBVIOUS
<1>1. TypedRows
  <2>1. \A l \in Links : 0 <= Wanted[l].expiresAt /\ 0 <= Wanted[l].maxDepth BY WantedAssumption
  <2>2. /\ expiresAt \in [Links -> Nat] /\ depth \in [Links -> Nat] /\ maxDepth \in [Links -> Nat]
        /\ \A l \in Links : expiresAt[l] = 0 /\ depth[l] = 0
    BY DEF Init
  <2>3. clock \in 0..MaxTime /\ failures \in 0..MaxFailures BY BoundAssumption DEF Init
  <2>4. agent \in [Agents -> {"active", "revoked"}] /\ lost \subseteq Links /\ broken \in BOOLEAN
    BY DEF Init
  <2> QED BY <2>1, <2>2, <2>3, <2>4 DEF TypedRows
<1>2. call \in [Calls -> Call] /\ InsertsOK BY IdleRests DEF Init, InsertsOK
<1>3. Kept BY DEF Init, Kept
<1>4. FewRows
  <2> SUFFICES ASSUME NEW l \in Links
               PROVE  revokeRows[l] + Cardinality(Writers(l)) <= Cardinality(Calls)
    BY DEF FewRows
  <2>1. Writers(l) = {} BY IdleRests DEF Init, Writers
  <2>2. Cardinality(Calls) \in Nat BY FiniteAssumption, FS_CardinalityType
  <2>3. revokeRows[l] = 0 BY DEF Init
  <2> QED BY <2>1, <2>2, <2>3, FS_EmptySet
<1> QED BY <1>1, <1>2, <1>3, <1>4 DEF Rests

LEMMA NextRests == IInv /\ Rests /\ [Next]_vars => Rests'
<1> SUFFICES ASSUME IInv, Rests, [Next]_vars PROVE Rests'
  OBVIOUS
<1>1. CASE /\ UNCHANGED <<agent, row, revokeRows, call, failures, history>>
           /\ clock' \in 0..MaxTime
  BY <1>1 DEF Rests, TypedRows, InsertsOK, InsertOK, Source, Inserted, Kept, Fed, Due, FewRows,
              Writers, row, history
<1>2. CASE Tick
  <2>1. clock' \in 0..MaxTime BY <1>2, BoundAssumption DEF Tick, Rests, TypedRows
  <2> QED BY <1>1, <1>2, <2>1 DEF Tick
<1>3. CASE UNCHANGED vars
  <2>1. clock' \in 0..MaxTime BY <1>3 DEF vars, Rests, TypedRows
  <2> QED BY <1>1, <1>3, <2>1 DEF vars
<1>4. ASSUME NEW c \in Calls, Continue(c)
      PROVE  Rests'
  BY <1>4, ReadAuthorityRest, InsertRest, RecheckInboundRest, RollbackRest, ListRowsRest,
     NextLinkRest, ReadLinkRest, LookupAuditRest, WriteAuditRest, FlipLinkRest,
     ListChildrenRest DEF Continue
<1> QED BY <1>2, <1>3, <1>4, NewCallRest, CrashRest DEF Next

\* The inductive invariant, for any graph of links and any number of calls: what
\* a link rests on, and what the calls under way will do about it.
THEOREM DelegationsRest == Spec => [](IInv /\ Rests)
<1>1. Init => IInv /\ Rests BY InitHolds, InitRests
<1>2. IInv /\ Rests /\ [Next]_vars => (IInv /\ Rests)' BY NextHolds, NextRests
<1> QED BY <1>1, <1>2, PTL DEF Spec

\* Every row and every local variable has the type its column or declaration
\* gives it, and no link outlives, or is deeper than, what was asked for.
THEOREM DelegationsTyped == Spec => []TypeOK
<1>1. IInv /\ Rests => TypeOK
  <2> SUFFICES ASSUME IInv, Rests PROVE TypeOK
    OBVIOUS
  <2>1. depth \in [Links -> 0..Max({Wanted[l].maxDepth : l \in Links})]
    <3> SUFFICES ASSUME NEW l \in Links
                 PROVE  depth[l] \in 0..Max({Wanted[m].maxDepth : m \in Links})
      BY DEF Rests, TypedRows
    <3>1. PICK S : S = {Wanted[m].maxDepth : m \in Links} OBVIOUS
    <3>2. S \subseteq Nat /\ Wanted[l].maxDepth \in S BY <3>1, WantedAssumption
    <3>3. IsFiniteSet(S)
      <4> DEFINE f == [m \in Links |-> Wanted[m].maxDepth]
      <4>1. f \in Surjection(Links, S) BY <3>1 DEF Surjection
      <4> QED BY <4>1, FiniteAssumption, FS_Surjection
    <3>4. Max(S) \in Nat /\ Wanted[l].maxDepth <= Max(S) BY <3>2, <3>3, MaxIs
    <3>5. depth[l] \in Nat /\ depth[l] <= Wanted[l].maxDepth BY DEF Rests, TypedRows
    <3> QED BY <3>1, <3>2, <3>4, <3>5
  <2> QED BY <2>1 DEF TypeOK, IInv, Typed, Rests, TypedRows
<1> QED BY <1>1, DelegationsRest, PTL

\* A retry writes no second audit row: no link has more of them than there are
\* calls, each of which may have looked before any of the others wrote.
THEOREM RetriesWriteNoRow == Spec => []RetryWritesNoRow
<1>1. IInv /\ Rests => RetryWritesNoRow
  <2> SUFFICES ASSUME IInv, Rests, NEW l \in Links
               PROVE  revokeRows[l] <= Cardinality(Calls)
    BY DEF RetryWritesNoRow
  <2>1. PICK w : w = Writers(l) OBVIOUS
  <2>2. w \subseteq Calls BY <2>1 DEF Writers
  <2>3. Cardinality(w) \in Nat /\ Cardinality(Calls) \in Nat
    BY <2>2, FiniteAssumption, FS_Subset, FS_CardinalityType
  <2>4. revokeRows[l] \in Nat /\ revokeRows[l] + Cardinality(w) <= Cardinality(Calls)
    BY <2>1 DEF IInv, Typed, Rests, FewRows
  <2> QED BY <2>3, <2>4
<1> QED BY <1>1, DelegationsRest, PTL

\* When no call is under way and none has crashed or thrown half way, a usable
\* link that lends more than its delegator owns has a usable link above it: for
\* any graph of links, in whatever order delegations and revocations raced.
THEOREM NothingIsStranded == Spec => []NothingStranded
<1>1. IInv /\ Rests => NothingStranded
  <2> SUFFICES ASSUME IInv, Rests, Quiet, ~broken, NEW l \in Links, Usable(l), ~OwnCovers(l)
               PROVE  \E i \in Links : To(i) = From(l) /\ Usable(i)
    BY DEF NothingStranded, Stranded
  <2>1. \A c \in Calls : \A m : ~Due(call[c], m)
    <3> TAKE c \in Calls
    <3>1. PICK h : h = call[c] OBVIOUS
    <3>2. h = Idle BY <3>1 DEF Quiet
    <3>3. h.pc = "idle" BY <3>2, IdleRests
    <3> QED BY <3>1, <3>3 DEF Due, Cascading
  <2>2. Fed(l) BY <2>1 DEF Rests, Kept, Usable
  <2>3. PICK i \in Links : To(i) = From(l) /\ status[i] = "active" /\ expiresAt[l] <= expiresAt[i]
    BY <2>2 DEF Fed
  <2>4. expiresAt[i] \in Nat /\ expiresAt[l] \in Nat /\ clock \in Nat
    BY BoundAssumption DEF Rests, TypedRows
  <2> QED BY <2>3, <2>4 DEF Usable
<1> QED BY <1>1, DelegationsRest, PTL

--------------------------------------------------------------------------------
(* What the walk over the links says, as it is defined by recursion. *)

\* A set of numbers that holds 0, and the successor of each of its members,
\* holds them all: there is no least number outside it.
LEMMA AllNumbers ==
  ASSUME NEW S, 0 \in S, \A n \in Nat : n \in S => n + 1 \in S
  PROVE  \A n \in Nat : n \in S
<1> SUFFICES ASSUME NEW m \in Nat, m \notin S PROVE FALSE OBVIOUS
<1>1. PICK x \in Nat \ S : \A y \in Nat \ S : ~(<<y, x>> \in OpToRel(<, Nat))
  <2>1. PICK T : T = Nat \ S OBVIOUS
  <2>2. T \subseteq Nat /\ T # {} BY <2>1
  <2>3. \E x \in T : \A y \in T : ~(<<y, x>> \in OpToRel(<, Nat))
    BY <2>2, NatLessThanWellFounded, WFMin
  <2> QED BY <2>1, <2>3
<1>2. x - 1 \in Nat /\ x - 1 < x /\ x - 1 + 1 = x
  <2>1. x \in Nat /\ x # 0 BY <1>1
  <2> QED BY <2>1
<1>3. <<x - 1, x>> \in OpToRel(<, Nat) BY <1>1, <1>2 DEF OpToRel
<1>4. x - 1 \in S BY <1>1, <1>2, <1>3
<1> QED BY <1>1, <1>2, <1>4

Entitled(l) == agent[From(l)] = "active" /\ OwnCovers(l)
\* Whether a walk that has come along trail may look at a.
Open(a, trail) == a \notin trail /\ agent[a] = "active" /\ Cardinality(trail) < MaxWalk
\* Whether links lead to a from somebody in A.
Upheld(a, A) == Stands(a) \/ \E l \in Inbound(a) : From(l) \in A \/ Entitled(l)
\* What a walk says that asks f about the agents one link further up.
Walk(f) == [trail \in SUBSET Agents |->
              {a \in Agents : Open(a, trail) /\ Upheld(a, f[trail \cup {a}])}]

\* How many agents a walk has not seen.
Room(trail) == Cardinality(Agents \ trail)

\* An agent that joins the trail leaves room for one agent less.
LEMMA RoomShrinks ==
  ASSUME NEW trail, trail \subseteq Agents, NEW a \in Agents \ trail
  PROVE  /\ trail \cup {a} \subseteq Agents
         /\ Room(trail) \in Nat /\ Room(trail \cup {a}) \in Nat
         /\ Room(trail \cup {a}) + 1 = Room(trail)
<1> DEFINE rest == Agents \ trail
<1>1. IsFiniteSet(rest) BY FiniteAssumption, FS_Subset
<1>2. /\ Cardinality(rest) \in Nat /\ IsFiniteSet(rest \ {a})
      /\ Cardinality(rest \ {a}) \in Nat
      /\ Cardinality(rest \ {a}) = Cardinality(rest) - 1
  <2> HIDE DEF rest
  <2>1. a \in rest BY DEF rest
  <2>2. IsFiniteSet(rest \ {a}) BY <1>1, FS_RemoveElement
  <2>3. Cardinality(rest \ {a}) = Cardinality(rest) - 1 BY <1>1, <2>1, FS_RemoveElement
  <2> QED BY <1>1, <2>2, <2>3, FS_CardinalityType
<1>3. rest \ {a} = Agents \ (trail \cup {a}) OBVIOUS
<1> QED BY <1>2, <1>3 DEF Room

\* A trail that has missed an agent is not too long, if there are no more agents
\* than the walk may see.
LEMMA TrailShort ==
  ASSUME Cardinality(Agents) <= MaxWalk,
         NEW trail, trail \subseteq Agents, NEW a \in Agents \ trail
  PROVE  Cardinality(trail) < MaxWalk
<1>1. Cardinality(trail) \in Nat /\ Cardinality(Agents) \in Nat
  BY FiniteAssumption, FS_Subset, FS_CardinalityType
<1>2. Cardinality(trail) <= Cardinality(Agents) /\ Cardinality(trail) # Cardinality(Agents)
  BY FiniteAssumption, FS_Subset
<1> QED BY <1>1, <1>2, BoundAssumption

LEMMA InboundIs ==
  \A a \in Agents : \A l \in Inbound(a) : l \in Links /\ From(l) \in Agents /\ To(l) = a
BY WantedAssumption DEF Inbound, From, To

\* The recursion of the walk has a solution: asking again does not change what a
\* walk says of a trail that leaves less room than it has been asked.
LEMMA WalkEnds == Lends = Walk(Lends)
<1> DEFINE Says(f, n) == \A trail \in SUBSET Agents :
                           Room(trail) < n => f[trail] = Walk(f)[trail]
           S == {n \in Nat : \E f : Says(f, n)}
<1>1. ASSUME NEW f, NEW n \in Nat, Says(f, n),
             NEW trail \in SUBSET Agents, Room(trail) < n + 1
      PROVE  Walk(f)[trail] = Walk(Walk(f))[trail]
  <2>1. PICK g : g = Walk(f) OBVIOUS
  <2>2. ASSUME NEW a \in Agents, a \notin trail
        PROVE  f[trail \cup {a}] = g[trail \cup {a}]
    <3>1. trail \cup {a} \in SUBSET Agents /\ Room(trail \cup {a}) < n
      BY <1>1, <2>2, RoomShrinks
    <3> QED BY <1>1, <2>1, <3>1
  <2>3. \A h : Walk(h)[trail] = {a \in Agents : Open(a, trail) /\ Upheld(a, h[trail \cup {a}])}
    BY DEF Walk
  <2>4. Walk(f)[trail] = Walk(g)[trail]
    BY <2>2, <2>3 DEF Open
  <2> QED BY <2>1, <2>4
<1>2. \A trail \in SUBSET Agents :
        Room(trail) \in Nat /\ Room(trail) < Cardinality(Agents) + 1
  <2> TAKE trail \in SUBSET Agents
  <2>1. PICK rest : rest = Agents \ trail OBVIOUS
  <2>2. rest \in SUBSET Agents BY <2>1
  <2>3. /\ Cardinality(rest) \in Nat /\ Cardinality(Agents) \in Nat
        /\ Cardinality(rest) <= Cardinality(Agents)
    BY <2>2, FiniteAssumption, FS_Subset, FS_CardinalityType
  <2> QED BY <2>1, <2>3 DEF Room
<1>3. PICK n : n = Cardinality(Agents) + 1 /\ n \in Nat
  BY FiniteAssumption, FS_CardinalityType
<1>4. PICK f : Says(f, n)
  <2>1. 0 \in S
    <3>1. \A f : Says(f, 0) BY <1>2
    <3> QED BY <3>1
  <2>2. \A m \in Nat : m \in S => m + 1 \in S
    <3> SUFFICES ASSUME NEW m \in Nat, NEW f, Says(f, m) PROVE \E g : Says(g, m + 1) OBVIOUS
    <3>1. Says(Walk(f), m + 1) BY <1>1
    <3> QED BY <3>1
  <2> HIDE DEF Says
  <2>3. \A m \in Nat : m \in S
    <3>1. PICK T : T = S OBVIOUS
    <3> HIDE DEF S
    <3> QED BY <2>1, <2>2, <3>1, AllNumbers
  <2> QED BY <1>3, <2>3
<1>5. \A trail \in SUBSET Agents : Walk(f)[trail] = Walk(Walk(f))[trail]
  <2> TAKE trail \in SUBSET Agents
  <2>1. Room(trail) < n + 1 BY <1>2, <1>3
  <2> HIDE DEF Says
  <2> QED BY <1>1, <1>3, <1>4, <2>1
<1>6. PICK g : g = Walk(f) OBVIOUS
<1>7. g = Walk(g)
  <2>1. g = [trail \in SUBSET Agents |-> g[trail]] BY <1>6 DEF Walk
  <2>2. Walk(g) = [trail \in SUBSET Agents |-> Walk(g)[trail]] BY DEF Walk
  <2> HIDE DEF Walk
  <2> QED BY <1>5, <1>6, <2>1, <2>2
<1>8. Lends = CHOOSE h : h = Walk(h)
  BY DEF Lends, Walk, Open, Upheld, Entitled
<1> HIDE DEF Walk
<1> QED BY <1>7, <1>8

--------------------------------------------------------------------------------
(* What the agents are that a chain connects to authority. *)

Others(t) == {a \in Agents \ {t} : agent[a] = "active"}
\* Those that links lead to from somebody in A, or from somebody entitled.
Reached(t, A) == {a \in Others(t) : \E l \in Inbound(a) : From(l) \in A \/ Entitled(l)}
\* One round: those that stand, then those fed from what an earlier round found.
Climb(t, f) == [n \in 0..Cardinality(Agents) |->
  IF n = 0 THEN {a \in Others(t) : Stands(a)}
  ELSE f[n - 1] \cup Reached(t, f[n - 1])]
Climbed(t) == CHOOSE f : f = Climb(t, f)

\* The rounds are well defined.
LEMMA RootedIs ==
  ASSUME NEW t
  PROVE  Climbed(t) = Climb(t, Climbed(t)) /\ Rooted(t) = Climbed(t)[Cardinality(Agents)]
<1> DEFINE N == Cardinality(Agents)
           Says(f, n) == \A m \in 0..N : m < n => f[m] = Climb(t, f)[m]
           S == {n \in Nat : \E f : Says(f, n)}
<1>1. N \in Nat BY FiniteAssumption, FS_CardinalityType
<1>2. ASSUME NEW f, NEW n \in Nat, Says(f, n), NEW m \in 0..N, m < n + 1
      PROVE  Climb(t, f)[m] = Climb(t, Climb(t, f))[m]
  <2>1. PICK g : g = Climb(t, f) OBVIOUS
  <2>2. CASE m = 0
    <3>1. \A h : Climb(t, h)[m] = {a \in Others(t) : Stands(a)} BY <2>2 DEF Climb
    <3> QED BY <3>1
  <2>3. CASE m # 0
    <3>1. m - 1 \in 0..N /\ m - 1 < n BY <1>1, <1>2, <2>3
    <3>2. f[m - 1] = g[m - 1] BY <1>2, <2>1, <3>1
    <3>3. \A h : Climb(t, h)[m] = h[m - 1] \cup Reached(t, h[m - 1])
      BY <2>3 DEF Climb
    <3> QED BY <2>1, <3>2, <3>3
  <2> QED BY <2>2, <2>3
<1>3. PICK f : Says(f, N + 1)
  <2>1. 0 \in S
    <3>1. \A f : Says(f, 0) BY <1>1
    <3> QED BY <3>1
  <2>2. \A n \in Nat : n \in S => n + 1 \in S
    <3> SUFFICES ASSUME NEW n \in Nat, NEW f, Says(f, n) PROVE \E g : Says(g, n + 1) OBVIOUS
    <3>1. Says(Climb(t, f), n + 1) BY <1>2
    <3> QED BY <3>1
  <2> HIDE DEF Says
  <2>3. \A n \in Nat : n \in S
    <3>1. PICK T : T = S OBVIOUS
    <3> HIDE DEF S
    <3> QED BY <2>1, <2>2, <3>1, AllNumbers
  <2>4. N + 1 \in Nat BY <1>1
  <2> QED BY <2>3, <2>4
<1>4. \A m \in 0..N : Climb(t, f)[m] = Climb(t, Climb(t, f))[m]
  <2> TAKE m \in 0..N
  <2>1. PICK n \in Nat : n = N + 1 BY <1>1
  <2>2. m < n + 1 BY <1>1, <2>1
  <2>3. Says(f, n) BY <1>3, <2>1
  <2> HIDE DEF Says
  <2> QED BY <1>2, <2>2, <2>3
<1>5. PICK g : g = Climb(t, f) OBVIOUS
<1>6. g = Climb(t, g)
  <2>1. g = [m \in 0..N |-> g[m]] BY <1>5 DEF Climb
  <2>2. Climb(t, g) = [m \in 0..N |-> Climb(t, g)[m]] BY DEF Climb
  <2> HIDE DEF Climb
  <2> QED BY <1>4, <1>5, <2>1, <2>2
<1>7. Climbed(t) = Climb(t, Climbed(t))
  <2> HIDE DEF Climb
  <2> QED BY <1>6 DEF Climbed
<1>8. Rooted(t) = Climbed(t)[N]
  BY DEF Rooted, Climbed, Climb, Reached, Others, Stands, Entitled
<1> QED BY <1>7, <1>8

\* A round adds to what is found, and finds only other agents that are active.
LEMMA RoundsGrow ==
  ASSUME NEW t
  PROVE  /\ Climbed(t)[0] = {a \in Others(t) : Stands(a)}
         /\ \A n \in Nat : n < Cardinality(Agents) =>
              Climbed(t)[n + 1] = Climbed(t)[n] \cup Reached(t, Climbed(t)[n])
         /\ \A n \in Nat : n <= Cardinality(Agents) =>
              Climbed(t)[0] \subseteq Climbed(t)[n] /\ Climbed(t)[n] \subseteq Others(t)
<1>1. PICK W : W = Climbed(t) OBVIOUS
<1>2. PICK N \in Nat : N = Cardinality(Agents) BY FiniteAssumption, FS_CardinalityType
<1>3. /\ W[0] = {a \in Others(t) : Stands(a)}
      /\ \A n \in Nat : n < N => W[n + 1] = W[n] \cup Reached(t, W[n])
  <2>1. W = Climb(t, W) BY <1>1, RootedIs
  <2>2. \A n \in 0..N : W[n] = IF n = 0 THEN {a \in Others(t) : Stands(a)}
                            ELSE W[n - 1] \cup Reached(t, W[n - 1])
    BY <1>2, <2>1 DEF Climb
  <2>3. 0 \in 0..N /\ \A n \in Nat : n < N => n + 1 \in 0..N /\ n + 1 # 0 /\ n + 1 - 1 = n
    BY <1>2
  <2>4. W[0] = {a \in Others(t) : Stands(a)} BY <2>2, <2>3
  <2>5. ASSUME NEW n \in Nat, n < N
        PROVE  W[n + 1] = W[n] \cup Reached(t, W[n])
    <3>1. PICK m : m = n + 1 OBVIOUS
    <3>2. m \in 0..N /\ m # 0 /\ m - 1 = n BY <2>3, <2>5, <3>1
    <3>3. W[m] = W[m - 1] \cup Reached(t, W[m - 1])
      BY <2>2, <3>2
    <3>4. W[m] = W[n] \cup Reached(t, W[n])
      BY <3>2, <3>3
    <3> QED BY <3>1, <3>4
  <2> QED BY <2>4, <2>5
<1>4. PICK S : S = {n \in Nat : n <= N => W[0] \subseteq W[n] /\ W[n] \subseteq Others(t)} OBVIOUS
<1>5. \A n \in Nat : n \in S
  <2>1. 0 \in S BY <1>3, <1>4
  <2>2. ASSUME NEW n \in Nat, n \in S PROVE n + 1 \in S
    <3> SUFFICES ASSUME n + 1 <= N PROVE W[0] \subseteq W[n + 1] /\ W[n + 1] \subseteq Others(t)
      BY <1>4
    <3>1. n < N /\ n <= N BY <1>2
    <3> QED BY <1>3, <1>4, <2>2, <3>1 DEF Reached
  <2> QED BY <2>1, <2>2, AllNumbers
<1> QED BY <1>1, <1>2, <1>3, <1>4, <1>5

\* After as many rounds as there are agents, another one finds nothing: some
\* round before has found nothing, or each has found somebody, and no more than
\* the other agents can be found.
LEMMA RootedCloses ==
  ASSUME NEW t \in Agents
  PROVE  /\ Rooted(t) \subseteq Others(t)
         /\ \A a \in Others(t) : Upheld(a, Rooted(t)) => a \in Rooted(t)
<1>1. PICK W : W = Climbed(t) OBVIOUS
<1>2. PICK N \in Nat : N = Cardinality(Agents) BY FiniteAssumption, FS_CardinalityType
<1>3. /\ W[0] = {a \in Others(t) : Stands(a)}
      /\ \A n \in Nat : n < N => W[n + 1] = W[n] \cup Reached(t, W[n])
      /\ \A n \in Nat : n <= N => W[0] \subseteq W[n] /\ W[n] \subseteq Others(t)
      /\ Rooted(t) = W[N]
  BY <1>1, <1>2, RoundsGrow, RootedIs
<1>4. Others(t) \subseteq Agents /\ IsFiniteSet(Others(t)) /\ Cardinality(Others(t)) < N
  <2>1. Others(t) \subseteq Agents /\ Others(t) # Agents BY DEF Others
  <2>2. /\ IsFiniteSet(Others(t)) /\ Cardinality(Others(t)) \in Nat
        /\ Cardinality(Others(t)) <= N /\ Cardinality(Others(t)) # N
    BY <1>2, <2>1, FiniteAssumption, FS_Subset, FS_CardinalityType
  <2> QED BY <1>2, <2>1, <2>2
<1>5. \A n \in Nat : n <= N => IsFiniteSet(W[n]) /\ Cardinality(W[n]) \in Nat
  BY <1>3, <1>4, FS_Subset, FS_CardinalityType
<1>6. PICK n \in Nat : n < N /\ W[n + 1] = W[n]
  <2> SUFFICES ASSUME \A m \in Nat : m < N => W[m + 1] # W[m] PROVE FALSE OBVIOUS
  <2>1. PICK S : S = {m \in Nat : m <= N => m <= Cardinality(W[m])} OBVIOUS
  <2>2. \A m \in Nat : m \in S
    <3>1. 0 \in S BY <1>5, <2>1
    <3>2. ASSUME NEW m \in Nat, m \in S PROVE m + 1 \in S
      <4> SUFFICES ASSUME m + 1 <= N PROVE m + 1 <= Cardinality(W[m + 1]) BY <2>1
      <4>1. m < N /\ m <= N BY <1>2
      <4>2. W[m] \subseteq W[m + 1] /\ W[m + 1] # W[m] BY <1>3, <4>1
      <4>3. PICK A, B : A = W[m] /\ B = W[m + 1] OBVIOUS
      <4>4. /\ IsFiniteSet(B) /\ Cardinality(A) \in Nat /\ Cardinality(B) \in Nat
        BY <1>5, <4>1, <4>3
      <4>5. Cardinality(A) <= Cardinality(B) /\ Cardinality(A) # Cardinality(B)
        BY <4>2, <4>3, <4>4, FS_Subset
      <4>6. m <= Cardinality(A) BY <2>1, <3>2, <4>1, <4>3
      <4> QED BY <4>3, <4>4, <4>5, <4>6
    <3> QED BY <3>1, <3>2, AllNumbers
  <2>3. PICK A : A = W[N] OBVIOUS
  <2>4. N <= Cardinality(A) /\ Cardinality(A) \in Nat BY <1>2, <1>5, <2>1, <2>2, <2>3
  <2>5. A \subseteq Others(t) BY <1>2, <1>3, <2>3
  <2>6. Cardinality(A) <= Cardinality(Others(t)) /\ Cardinality(Others(t)) \in Nat
    BY <1>4, <2>5, FS_Subset, FS_CardinalityType
  <2> QED BY <1>2, <1>4, <2>4, <2>6
<1>7. Rooted(t) = W[n]
  <2>1. PICK S : S = {m \in Nat : n <= m /\ m <= N => W[m] = W[n]} OBVIOUS
  <2>2. 0 \in S
    <3>1. n <= 0 => n = 0 BY <1>6
    <3> QED BY <2>1, <3>1
  <2>3. ASSUME NEW m \in Nat, m \in S PROVE m + 1 \in S
    <3> SUFFICES ASSUME n <= m + 1, m + 1 <= N PROVE W[m + 1] = W[n] BY <2>1
    <3>1. CASE n = m + 1 BY <3>1
    <3>2. CASE n # m + 1
      <4>1. n <= m /\ m <= N /\ m < N BY <1>2, <1>6, <3>2
      <4>2. W[m] = W[n] BY <2>1, <2>3, <4>1
      <4>3. /\ W[m + 1] = W[m] \cup Reached(t, W[m])
            /\ W[n + 1] = W[n] \cup Reached(t, W[n])
        BY <1>3, <1>6, <4>1
      <4> QED BY <1>6, <4>2, <4>3
    <3> QED BY <3>1, <3>2
  <2>4. N \in S BY <2>2, <2>3, AllNumbers
  <2>5. n <= N BY <1>2, <1>6
  <2> QED BY <1>2, <1>3, <2>1, <2>4, <2>5
<1>8. Reached(t, W[n]) \subseteq W[n] BY <1>3, <1>6
<1>9. W[0] \subseteq W[n] /\ W[n] \subseteq Others(t)
  <2>1. n <= N BY <1>2, <1>6
  <2> QED BY <1>3, <2>1
<1> QED BY <1>3, <1>7, <1>8, <1>9 DEF Upheld, Reached

\* What another round adds nothing to holds all that the rounds find.
LEMMA RootedLeast ==
  ASSUME NEW t, NEW A, \A a \in Others(t) : Upheld(a, A) => a \in A
  PROVE  Rooted(t) \subseteq A
<1>1. PICK W : W = Climbed(t) OBVIOUS
<1>2. PICK N \in Nat : N = Cardinality(Agents) BY FiniteAssumption, FS_CardinalityType
<1>3. /\ W[0] = {a \in Others(t) : Stands(a)}
      /\ \A n \in Nat : n < N => W[n + 1] = W[n] \cup Reached(t, W[n])
      /\ Rooted(t) = W[N]
  BY <1>1, <1>2, RoundsGrow, RootedIs
<1>4. PICK S : S = {n \in Nat : n <= N => W[n] \subseteq A} OBVIOUS
<1>5. 0 \in S BY <1>3, <1>4 DEF Upheld
<1>6. ASSUME NEW n \in Nat, n \in S PROVE n + 1 \in S
  <2> SUFFICES ASSUME n + 1 <= N PROVE W[n + 1] \subseteq A BY <1>4
  <2>1. n < N /\ n <= N BY <1>2
  <2>2. W[n] \subseteq A BY <1>4, <1>6, <2>1
  <2> QED BY <1>3, <2>1, <2>2 DEF Upheld, Reached
<1>7. N \in S BY <1>2, <1>5, <1>6, AllNumbers
<1> QED BY <1>2, <1>3, <1>4, <1>7


--------------------------------------------------------------------------------
(* Why the walk finds these agents. *)

\* By the walk's recursion.
LEMMA LendsIs ==
  ASSUME NEW trail \in SUBSET Agents
  PROVE  /\ Lends[trail] \subseteq Agents
         /\ \A a \in Agents :
              a \in Lends[trail] <=> Open(a, trail) /\ Upheld(a, Lends[trail \cup {a}])
BY WalkEnds DEF Walk

\* What holds of a trail when it holds of all that are one agent longer, holds of
\* every trail: by induction on the room that is left.
LEMMA AllTrails ==
  ASSUME NEW S,
         \A trail \in SUBSET Agents :
           (\A a \in Agents \ trail : trail \cup {a} \in S) => trail \in S
  PROVE  \A trail \in SUBSET Agents : trail \in S
<1>1. PICK R : R = {n \in Nat : \A trail \in SUBSET Agents : Room(trail) < n => trail \in S}
  OBVIOUS
<1>2. \A trail \in SUBSET Agents : Room(trail) \in Nat
  BY FiniteAssumption, FS_Subset, FS_CardinalityType DEF Room
<1>3. 0 \in R BY <1>1, <1>2
<1>4. ASSUME NEW n \in Nat, n \in R PROVE n + 1 \in R
  <2> SUFFICES ASSUME NEW trail \in SUBSET Agents, Room(trail) < n + 1 PROVE trail \in S
    BY <1>1
  <2>1. ASSUME NEW a \in Agents \ trail PROVE trail \cup {a} \in S
    <3>1. PICK longer : longer = trail \cup {a} OBVIOUS
    <3>2. longer \in SUBSET Agents /\ Room(longer) < n BY <3>1, RoomShrinks
    <3> QED BY <1>1, <1>4, <3>1, <3>2
  <2> QED BY <2>1
<1>5. \A n \in Nat : n \in R BY <1>3, <1>4, AllNumbers
<1> QED
  <2> TAKE trail \in SUBSET Agents
  <2>1. PICK n \in Nat : n = Room(trail) + 1 BY <1>2
  <2>2. Room(trail) < n BY <1>2, <2>1
  <2> QED BY <1>1, <1>5, <2>2

\* Who lends to a walk is rooted without any agent on its trail, however long
\* the walk may get.
LEMMA LendersAreRooted ==
  ASSUME NEW t \in Agents
  PROVE  \A trail \in SUBSET Agents : t \in trail => Lends[trail] \subseteq Rooted(t)
<1>1. PICK S : S = {trail \in SUBSET Agents : t \in trail => Lends[trail] \subseteq Rooted(t)}
  OBVIOUS
<1>2. ASSUME NEW trail \in SUBSET Agents, \A a \in Agents \ trail : trail \cup {a} \in S
      PROVE  trail \in S
  <2> SUFFICES ASSUME t \in trail, NEW a \in Lends[trail] PROVE a \in Rooted(t)
    BY <1>1
  <2>1. a \in Agents /\ Open(a, trail) /\ Upheld(a, Lends[trail \cup {a}]) BY LendsIs
  <2>2. a \in Others(t) /\ a \in Agents \ trail BY <2>1 DEF Open, Others
  <2>3. Lends[trail \cup {a}] \subseteq Rooted(t) BY <1>1, <1>2, <2>2
  <2>4. Upheld(a, Rooted(t)) BY <2>1, <2>3 DEF Upheld
  <2> QED BY <2>2, <2>4, RootedCloses
<1>3. \A trail \in SUBSET Agents : trail \in S BY <1>2, AllTrails
<1> QED BY <1>1, <1>3

\* Who lends to a walk lends to one with less behind it.
LEMMA ShorterTrailsLend ==
  \A trail \in SUBSET Agents : \A part \in SUBSET trail : Lends[trail] \subseteq Lends[part]
<1>1. PICK S : S = {trail \in SUBSET Agents :
                      \A part \in SUBSET trail : Lends[trail] \subseteq Lends[part]}
  OBVIOUS
<1>2. ASSUME NEW trail \in SUBSET Agents, \A a \in Agents \ trail : trail \cup {a} \in S
      PROVE  trail \in S
  <2> SUFFICES ASSUME NEW part \in SUBSET trail, NEW a \in Lends[trail] PROVE a \in Lends[part]
    BY <1>1
  <2>1. a \in Agents /\ Open(a, trail) /\ Upheld(a, Lends[trail \cup {a}]) BY LendsIs
  <2>2. a \in Agents \ trail BY <2>1 DEF Open
  <2>3. Lends[trail \cup {a}] \subseteq Lends[part \cup {a}]
    <3>1. part \cup {a} \in SUBSET (trail \cup {a}) OBVIOUS
    <3> QED BY <1>1, <1>2, <2>2, <3>1
  <2>4. Upheld(a, Lends[part \cup {a}]) BY <2>1, <2>3 DEF Upheld
  <2>5. Open(a, part)
    <3>1. /\ Cardinality(part) \in Nat /\ Cardinality(trail) \in Nat
          /\ Cardinality(part) <= Cardinality(trail)
      BY FiniteAssumption, FS_Subset, FS_CardinalityType
    <3> QED BY <2>1, <3>1, BoundAssumption DEF Open
  <2>6. part \in SUBSET Agents OBVIOUS
  <2> QED BY <2>1, <2>4, <2>5, <2>6, LendsIs
<1>3. \A trail \in SUBSET Agents : trail \in S BY <1>2, AllTrails
<1> QED BY <1>1, <1>3

\* Somebody who does not lend is not needed: who lends to a walk lends to it after
\* a detour by such an agent as well.
LEMMA DetoursLend ==
  ASSUME Cardinality(Agents) <= MaxWalk, NEW b \in Agents
  PROVE  \A trail \in SUBSET Agents :
           b \notin trail /\ b \notin Lends[trail] => Lends[trail] \subseteq Lends[trail \cup {b}]
<1>1. PICK S : S = {trail \in SUBSET Agents :
                      b \notin trail /\ b \notin Lends[trail]
                        => Lends[trail] \subseteq Lends[trail \cup {b}]}
  OBVIOUS
<1>2. ASSUME NEW trail \in SUBSET Agents, \A a \in Agents \ trail : trail \cup {a} \in S
      PROVE  trail \in S
  <2> SUFFICES ASSUME b \notin trail, b \notin Lends[trail], NEW a \in Lends[trail]
               PROVE  a \in Lends[trail \cup {b}]
    BY <1>1
  <2>1. a \in Agents /\ Open(a, trail) /\ Upheld(a, Lends[trail \cup {a}]) BY LendsIs
  <2>2. a \in Agents \ trail /\ a # b BY <2>1 DEF Open
  <2>3. PICK longer, detour : longer = trail \cup {a} /\ detour = trail \cup {b} OBVIOUS
  <2>4. longer \in SUBSET Agents /\ trail \in SUBSET longer /\ b \notin longer
    BY <2>2, <2>3
  <2>5. b \notin Lends[longer] BY <2>4, ShorterTrailsLend
  <2>6. Lends[longer] \subseteq Lends[longer \cup {b}] BY <1>1, <1>2, <2>2, <2>3, <2>4, <2>5
  <2>7. longer \cup {b} = detour \cup {a} BY <2>3
  <2>8. Upheld(a, Lends[detour \cup {a}]) BY <2>1, <2>3, <2>6, <2>7 DEF Upheld
  <2>9. detour \in SUBSET Agents /\ a \in Agents \ detour BY <2>2, <2>3
  <2>10. Open(a, detour) BY <2>1, <2>9, TrailShort DEF Open
  <2> QED BY <2>1, <2>3, <2>8, <2>9, <2>10, LendsIs
<1>3. \A trail \in SUBSET Agents : trail \in S BY <1>2, AllTrails
<1> QED BY <1>1, <1>3

\* Who is rooted lends, if there are no more agents than a walk may see.
LEMMA TheRootedLend ==
  ASSUME Cardinality(Agents) <= MaxWalk, NEW t \in Agents
  PROVE  Rooted(t) \subseteq Lends[{t}]
<1>1. PICK trail \in SUBSET Agents : trail = {t} OBVIOUS
<1>2. ASSUME NEW a \in Others(t), Upheld(a, Lends[trail]), a \notin Lends[trail] PROVE FALSE
  <2>1. a \in Agents \ trail /\ agent[a] = "active" BY <1>1 DEF Others
  <2>2. Lends[trail] \subseteq Lends[trail \cup {a}] BY <1>2, <2>1, DetoursLend
  <2>3. Upheld(a, Lends[trail \cup {a}]) BY <1>2, <2>2 DEF Upheld
  <2>4. Open(a, trail) BY <2>1, TrailShort DEF Open
  <2> QED BY <1>2, <2>1, <2>3, <2>4, LendsIs
<1>3. Rooted(t) \subseteq Lends[trail]
  <2>1. PICK A : A = Lends[trail] OBVIOUS
  <2>2. \A a \in Others(t) : Upheld(a, A) => a \in A BY <1>2, <2>1
  <2> QED BY <2>1, <2>2, RootedLeast
<1> QED BY <1>1, <1>3

\* No usable link is taken for live that no chain of usable links connects to
\* authority: loops of links do not hold each other up, whatever revocations,
\* crashes and expiry have left, and however far the walk goes.
THEOREM OnlyTheRootedAreLive ==
  Spec => [](\A l \in Links : LinkLive(l) => From(l) \in Rooted(To(l)) \/ Entitled(l))
<1>1. \A l \in Links : LinkLive(l) => From(l) \in Rooted(To(l)) \/ Entitled(l)
  <2> TAKE l \in Links
  <2>1. To(l) \in Agents /\ {To(l)} \in SUBSET Agents BY WantedAssumption DEF To
  <2>2. Lends[{To(l)}] \subseteq Rooted(To(l)) BY <2>1, LendersAreRooted
  <2> QED BY <2>2 DEF LinkLive, Entitled
<1> QED BY <1>1, PTL

\* And as long as there are no more agents than the walk may see, it misses no
\* chain: a usable link lends exactly when one connects it to authority.
THEOREM LiveMeansRootedTheorem ==
  ASSUME Cardinality(Agents) <= MaxWalk
  PROVE  Spec => []LiveMeansRooted
<1>1. LiveMeansRooted
  <2> SUFFICES ASSUME NEW l \in Links
               PROVE  LinkLive(l) <=> From(l) \in Rooted(To(l)) \/ Entitled(l)
    BY DEF LiveMeansRooted, Entitled
  <2>1. To(l) \in Agents /\ {To(l)} \in SUBSET Agents BY WantedAssumption DEF To
  <2>2. Lends[{To(l)}] \subseteq Rooted(To(l)) BY <2>1, LendersAreRooted
  <2>3. Rooted(To(l)) \subseteq Lends[{To(l)}] BY <2>1, TheRootedLend
  <2> QED BY <2>2, <2>3 DEF LinkLive, Entitled
<1> QED BY <1>1, PTL
================================================================================

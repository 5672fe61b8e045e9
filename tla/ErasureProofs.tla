----------------------------- MODULE ErasureProofs -----------------------------
(***************************************************************************)
(* Proofs about Erasure, for any number of calls, agents, rows and         *)
(* failures, and whether the calls have the same options or not: a step    *)
(* that the marker counts as finished did run, and a user row that is gone *)
(* leaves nothing behind.                                                  *)
(*                                                                         *)
(* The argument: what a step achieves is never undone, because the user's  *)
(* old rows only ever become fewer (Shrinks).  So it is enough that every  *)
(* marker, stored or in memory, tells the truth when it is made, and that  *)
(* a call in the middle of a step keeps track of the part it has done      *)
(* (Halfway).  The agents of a marker are all of the old ones, because     *)
(* they are read before the marker: a call that saw no marker has not seen *)
(* an agent move.                                                          *)
(***************************************************************************)
EXTENDS Erasure, FiniteSetTheorems, TLAPS

Working == Steps \cup Saving

\* The agents it lists are all there were, and its finished steps are done.
MarkerOK(m) ==
  /\ m \in Marker
  /\ m.done => m.completed = 9
  /\ ~m.done => born \subseteq m.ids
  /\ \A i \in 1..9 : i <= m.completed => StepDone(i, m.option)

\* The step that a statement belongs to.
Placed(k) ==
  /\ k.pc \in {"revoke", "cascade", "note", "flip"} => k.m.completed = 0
  /\ k.pc \in {"session", "apiKey"} => k.m.completed = 1
  /\ k.pc \in {"repoint", "move"} => k.m.completed = 2
  /\ k.pc \in {"audit", "rewrite", "rest", "legacy", "record", "scrub", "sign", "drop"} => k.m.completed = 3
  /\ k.pc = "blank" => k.m.completed = 4
  /\ k.pc \in {"email", "personal", "emailed"} => k.m.completed = 5
  /\ k.pc = "orgs" => k.m.completed = 6
  /\ k.pc \in {"agents", "owners"} => k.m.completed = 7
  /\ k.pc = "user" => k.m.completed = 8
  /\ k.pc = "finish" => k.m.completed = 9
  /\ k.pc = "save" => k.m.completed \in 0..8

\* What the statements of the step so far have done.
Halfway(k) ==
  /\ k.pc \in {"cascade", "note", "flip"} => active \cap born = {}
  /\ k.pc = "cascade" => live \subseteq k.todo
  /\ k.pc \in {"note", "flip"} => live \subseteq k.todo \cup {k.agent}
  /\ k.pc = "note" => k.agent \in Linked
  /\ k.pc = "apiKey" => "session" \notin left
  /\ k.pc = "move" => link \subseteq k.todo
  /\ k.pc \in {"rewrite", "rest", "legacy", "record", "scrub"} => k.m.option.keep
  /\ k.pc \in {"sign", "drop"} => ~k.m.option.keep
  /\ k.pc \in {"legacy", "record", "scrub"} => Raw \cap Old = {}
  /\ k.pc = "personal" => k.seen \/ "emailed" \notin left
  /\ k.pc = "emailed" => "personal" \notin left
  /\ k.pc = "owners" => Owned \cap born = {}
  /\ k.pc = "save" => StepDone(k.m.completed + 1, k.m.option)

CallOK(k) ==
  /\ k \in Call
  /\ k.pc \in Working => MarkerOK(k.m) /\ ~k.m.done /\ marker # NoMarker
  /\ k.pc = "first" => MarkerOK(k.m) /\ (k.m.done \/ k.m.completed = 0)
  /\ k.pc \in {"owned", "marker", "reread"} => k.m \in Marker /\ k.m.completed = 0 /\ ~k.m.done
  /\ k.pc \in Lookup /\ ~k.m.done => k.m.option \in options
  /\ k.pc \in {"marker", "reread"} /\ marker = NoMarker => born \subseteq k.m.ids
  /\ Placed(k)
  /\ Halfway(k)

CallsOK == DOMAIN call = Calls /\ call = [c \in Calls |-> call[c]] /\ \A c \in Calls : CallOK(call[c])

Typed ==
  /\ user \in BOOLEAN
  /\ owner \in [Agents -> {"none", "user", "tombstone", "deleted"}]
  /\ active \subseteq Agents /\ link \subseteq born /\ live \subseteq born \cap Linked
  /\ rows \in [Rows -> {"none", "raw", "anonymous", "deleted"}]
  /\ records \subseteq SUBSET Rows
  /\ left \subseteq Items
  /\ orgs \in {"user", "tombstone", "deleted"}
  /\ marker \in Marker \cup {NoMarker}
  /\ failures \in 0..MaxFailures /\ acts \in 0..MaxActs
  /\ born \subseteq Born /\ options \in Offers /\ asked \subseteq options

\* An old agent is the user's as long as there is no marker, and is revoked
\* before it goes to anybody else.
Handed ==
  \A a \in born : /\ owner[a] # "none"
                  /\ owner[a] = "user" \/ (a \notin active /\ marker # NoMarker)

\* What is gone with the user row, whatever the options were.
Gone ==
  ~user => /\ active \cap born = {} /\ live = {}
           /\ "emailed" \notin left /\ "named" \notin left
           /\ \A a \in born : owner[a] \in {"tombstone", "deleted"}

IInv == Typed /\ CallsOK /\ Handed /\ (marker # NoMarker => MarkerOK(marker)) /\ Gone

\* What every step does at most to what was there before the erasure.
Shrinks ==
  /\ born' = born /\ options' = options
  /\ active' \cap born \subseteq active
  /\ live' \subseteq live
  /\ link' \subseteq link
  /\ left' \subseteq left \cup {"visit"}
  /\ Raw' \cap Old \subseteq Raw
  /\ orgs' = "user" => orgs = "user"
  /\ Owned' \cap born \subseteq Owned
  /\ user' => user
  /\ marker # NoMarker => marker' # NoMarker

--------------------------------------------------------------------------------
\* No marker is the absence of one.
LEMMA MarkerIsMarker == ASSUME NEW m \in Marker PROVE m # NoMarker
  BY OffersAssumption DEF Marker, NoMarker, Option

\* What a step has achieved stays achieved.
LEMMA DoneStays ==
  ASSUME Shrinks, NEW i \in 1..9, NEW o, StepDone(i, o)
  PROVE  StepDone(i, o)'
<1>1. CASE i = 1 BY <1>1 DEF StepDone, Shrinks
<1>2. CASE i = 2 BY <1>2 DEF StepDone, Shrinks
<1>3. CASE i = 3 BY <1>3 DEF StepDone, Shrinks
<1>4. CASE i = 4 BY <1>4 DEF StepDone, Shrinks
<1>5. CASE i = 5 BY <1>5 DEF StepDone, Shrinks
<1>6. CASE i = 6 BY <1>6 DEF StepDone, Shrinks
<1>7. CASE i = 7 BY <1>7 DEF StepDone, Shrinks
<1>8. CASE i = 8 BY <1>8 DEF StepDone, Shrinks
<1>9. CASE i = 9 BY <1>9 DEF StepDone, Shrinks
<1> QED BY <1>1, <1>2, <1>3, <1>4, <1>5, <1>6, <1>7, <1>8, <1>9

LEMMA MarkerStaysOK ==
  ASSUME Shrinks, NEW m, MarkerOK(m)
  PROVE  MarkerOK(m)'
<1>1. \A i \in 1..9 : i <= m.completed => StepDone(i, m.option)'
  BY DoneStays DEF MarkerOK
<1> QED BY <1>1 DEF MarkerOK, Shrinks

LEMMA HalfwayStays ==
  ASSUME Shrinks, NEW k, Placed(k), Halfway(k)
  PROVE  Halfway(k)'
<1>1. k.pc = "save" => StepDone(k.m.completed + 1, k.m.option)'
  <2> HAVE k.pc = "save"
  <2>1. k.m.completed + 1 \in 1..9 BY DEF Placed
  <2> QED BY <2>1, DoneStays DEF Halfway
<1> QED BY <1>1 DEF Halfway, Shrinks

\* A step of one call leaves the others all right.
LEMMA CallStaysOK ==
  ASSUME Shrinks, NEW k, CallOK(k)
  PROVE  CallOK(k)'
<1>1. Halfway(k)' BY HalfwayStays DEF CallOK
<1>2. MarkerOK(k.m) => MarkerOK(k.m)' BY MarkerStaysOK
<1> QED BY <1>1, <1>2 DEF CallOK, Placed, Shrinks

\* One call takes a step.
LEMMA CallStep ==
  ASSUME IInv, NEW c \in Calls, NEW k, Sets(c, k), CallOK(k)', Shrinks
  PROVE  CallsOK'
<1>1. call' = [d \in Calls |-> IF d = c THEN k ELSE call[d]]
  BY DEF IInv, CallsOK, Sets
<1>2. \A d \in Calls : \E h : h = call'[d] /\ CallOK(h)'
  <2> TAKE d \in Calls
  <2>1. CASE d = c BY <1>1, <2>1
  <2>2. CASE d # c
    <3>1. PICK h : h = call[d] OBVIOUS
    <3>2. CallOK(h)' BY <3>1, CallStaysOK DEF IInv, CallsOK
    <3> QED BY <1>1, <2>2, <3>1, <3>2
  <2> QED BY <2>1, <2>2
<1>3. \A d \in Calls : CallOK(call[d])'
  <2> TAKE d \in Calls
  <2>1. PICK h : h = call'[d] /\ CallOK(h)' BY <1>2
  <2> QED BY <2>1 DEF CallOK, Placed, Halfway
<1> QED BY <1>1, <1>3 DEF CallsOK

\* A user row that is gone stays gone, and what it left behind too.
LEMMA CleanStays ==
  ASSUME IInv, Shrinks, Typed', Handed', user' = user
  PROVE  Gone'
<1> SUFFICES ASSUME ~user PROVE Gone' BY DEF Gone
<1>1. \A a \in born' : a \in born /\ a \in Agents BY AgentsAssumption DEF IInv, Typed, Shrinks
<1>2. \A a \in born' : owner[a] # "user" BY <1>1 DEF Gone, IInv
<1>3. \A a \in born' : owner'[a] # "user" BY <1>1, <1>2 DEF Shrinks, Owned
<1>4. \A a \in born' : owner'[a] \in {"tombstone", "deleted"} BY <1>1, <1>3 DEF Typed, Handed
<1>5. active' \cap born' = {} /\ live' = {} BY DEF Gone, Shrinks, IInv
<1>6. "emailed" \notin left' /\ "named" \notin left' BY DEF Gone, Shrinks, IInv
<1> QED BY <1>4, <1>5, <1>6 DEF Gone

\* A step that writes neither the marker nor the user row.
LEMMA Advances ==
  ASSUME IInv, NEW c \in Calls, NEW k, Sets(c, k), CallOK(k)',
         Shrinks, Typed', Handed', user' = user, marker' = marker
  PROVE  IInv'
<1>1. (marker # NoMarker => MarkerOK(marker))'
  <2> SUFFICES ASSUME marker # NoMarker PROVE MarkerOK(marker)' BY DEF NoMarker
  <2>1. PICK m : m = marker OBVIOUS
  <2>2. MarkerOK(m)' BY <2>1, MarkerStaysOK DEF IInv
  <2> QED BY <2>1, <2>2 DEF MarkerOK
<1> QED BY <1>1, CallStep, CleanStays DEF IInv

--------------------------------------------------------------------------------
\* What a call does when it resumes with a marker.
Firsts == {"revoke", "session", "repoint", "audit", "blank", "email", "orgs", "agents", "user", "finish"}

LEMMA StepsAre ==
  /\ Steps = Firsts \cup Inner
  /\ \A i \in 0..9 : Entry[i + 1] \in Firsts
<1>1. \A i \in 0..9 : Entry[i + 1] \in Firsts BY DEF Entry, Firsts
<1>2. Firsts = {Entry[i] : i \in 1..10} BY DEF Entry, Firsts
<1> QED BY <1>1, <1>2 DEF Steps

Resumed(m) == [Idle EXCEPT !.pc = Entry[m.completed + 1], !.m = m]
Ended(m) == [Idle EXCEPT !.pc = "save", !.m = m]

LEMMA ResumedIs ==
  ASSUME NEW m \in Marker
  PROVE  /\ Resumed(m) \in Call
         /\ Resumed(m).pc \in Firsts
         /\ Resumed(m).m = m
         /\ Placed(Resumed(m))
<1>1. PICK k : k = Resumed(m) OBVIOUS
<1>2. k = [pc |-> Entry[m.completed + 1], seen |-> FALSE, m |-> m, agent |-> None, todo |-> {}, sets |-> {}]
  BY <1>1 DEF Resumed, Idle
<1>3. m.completed \in 0..9 BY DEF Marker
<1>4. Entry[m.completed + 1] \in Firsts BY <1>3, StepsAre
<1>5. k \in Call BY <1>2, <1>4, StepsAre DEF Call
<1>6. Placed(k) BY <1>2, <1>3 DEF Placed, Entry
<1> QED BY <1>1, <1>2, <1>4, <1>5, <1>6

LEMMA FirstsHalfway ==
  ASSUME NEW k, k.pc \in Firsts
  PROVE  Halfway(k) /\ Halfway(k)'
  BY DEF Firsts, Halfway

\* A call that goes on with the next step.
LEMMA ResumesOK ==
  ASSUME NEW m \in Marker, MarkerOK(m), ~m.done, marker # NoMarker
  PROVE  CallOK(Resumed(m))
<1> PICK k : k = Resumed(m) OBVIOUS
<1>1. k \in Call /\ k.pc \in Firsts /\ k.m = m /\ Placed(k) BY ResumedIs
<1>2. Halfway(k) BY <1>1, FirstsHalfway
<1> QED BY <1>1, <1>2 DEF CallOK, Lookup, Firsts

\* A call that comes to the end of a step.
LEMMA EndsOK ==
  ASSUME Shrinks, NEW h, CallOK(h), h.pc \in Working, h.m.completed \in 0..8,
         StepDone(h.m.completed + 1, h.m.option)'
  PROVE  CallOK(Ended(h.m))'
<1> PICK k : k = Ended(h.m) OBVIOUS
<1>1. k = [pc |-> "save", seen |-> FALSE, m |-> h.m, agent |-> None, todo |-> {}, sets |-> {}]
  BY DEF Ended, Idle
<1>2. h.m \in Marker /\ ~h.m.done /\ marker # NoMarker BY DEF CallOK, MarkerOK
<1>3. k \in Call BY <1>1, <1>2 DEF Call, Saving
<1>4. MarkerOK(h.m)' BY MarkerStaysOK DEF CallOK
<1>5. Placed(k) BY <1>1 DEF Placed
<1>6. Halfway(k)' BY <1>1 DEF Halfway
<1>7. marker' # NoMarker BY <1>2 DEF Shrinks
<1> QED BY <1>1, <1>2, <1>3, <1>4, <1>5, <1>6, <1>7 DEF CallOK, Lookup

\* A call that goes from one statement of a step to the next.
LEMMA GoesOK ==
  ASSUME Shrinks, NEW h, CallOK(h), h.pc \in Working,
         NEW k \in Call, k.pc \in Working, k.m = h.m, Placed(k), Halfway(k)'
  PROVE  CallOK(k)'
<1>1. MarkerOK(k.m)' BY MarkerStaysOK DEF CallOK
<1>2. ~k.m.done /\ (marker # NoMarker)' BY DEF CallOK, Shrinks, NoMarker
<1>3. k.pc \notin {"first", "owned", "marker", "reread"}
  BY StepsAre DEF Working, Saving, Firsts, Inner
<1> QED BY <1>1, <1>2, <1>3 DEF CallOK, Lookup, Placed

--------------------------------------------------------------------------------
\* A call that only reads.
LEMMA Quiet ==
  ASSUME IInv, NEW c \in Calls, NEW k, Sets(c, k), CallOK(k), DataStays
  PROVE  IInv'
<1>1. UNCHANGED <<user, owner, active, link, live, rows, records, left, orgs, marker,
                  born, options, failures, acts, asked>>
  BY DEF DataStays, MarkerStays, Stays, data
<1>2. Shrinks BY <1>1 DEF Shrinks, Raw, Owned
<1>3. Typed' /\ Handed'
  <2>1. Typed' BY <1>1 DEF IInv, Typed
  <2>2. Handed' BY <1>1 DEF IInv, Handed, NoMarker
  <2> QED BY <2>1, <2>2
<1>4. CallOK(k)' BY <1>2, CallStaysOK
<1> QED BY <1>1, <1>2, <1>3, <1>4, Advances

\* The last statement of a step.
LEMMA EndsStep ==
  ASSUME IInv, NEW c \in Calls, NEW h, h = call[c], Ends(c), h.pc \in Working, h.m.completed \in 0..8,
         Shrinks, Typed', Handed', user' = user, marker' = marker,
         StepDone(h.m.completed + 1, h.m.option)'
  PROVE  IInv'
<1>1. CallOK(h) BY DEF IInv, CallsOK
<1>2. CallOK(Ended(h.m))' BY <1>1, EndsOK
<1>3. Sets(c, Ended(h.m)) BY DEF Ends, Ended
<1> QED BY <1>2, <1>3, Advances

\* The other statements of a step.
LEMMA GoesStep ==
  ASSUME IInv, NEW c \in Calls, NEW h, h = call[c], h.pc \in Working,
         NEW k \in Call, Sets(c, k), k.pc \in Working, k.m = h.m, Placed(k), Halfway(k)',
         Shrinks, Typed', Handed', user' = user, marker' = marker
  PROVE  IInv'
<1>1. CallOK(h) BY DEF IInv, CallsOK
<1>2. CallOK(k)' BY <1>1, GoesOK
<1> QED BY <1>2, Advances

\* The statements that write something leave the old agents as they are.
LEMMA HandedStays ==
  ASSUME IInv, UNCHANGED <<owner, marker, born>>, active' \cap born \subseteq active
  PROVE  Handed'
  BY DEF IInv, Handed, NoMarker

LEMMA ReturnsOK == CallOK(Idle)
<1>1. Idle \in Call BY DEF Idle, Call
<1> QED BY <1>1 DEF CallOK, Lookup, Placed, Halfway, Idle, Working, Steps, Entry, Inner, Saving

--------------------------------------------------------------------------------
\* The reads before the first step.
LEMMA BeginOK ==
  ASSUME IInv, NEW c \in Calls, NEW o \in options, Begin(c, o)
  PROVE  IInv'
<1>1. PICK k : k = [Idle EXCEPT !.pc = "owned", !.seen = user, !.m = [NoMarker EXCEPT !.option = o]] OBVIOUS
<1>2. PICK m : m = [NoMarker EXCEPT !.option = o] OBVIOUS
<1>3. m = [completed |-> 0, done |-> FALSE, ids |-> {}, option |-> o] BY <1>2 DEF NoMarker
<1>4. m \in Marker
  <2>1. o \in Option BY OffersAssumption DEF IInv, Typed, Option
  <2> QED BY <1>3, <2>1 DEF Marker
<1>5. k = [pc |-> "owned", seen |-> user, m |-> m, agent |-> None, todo |-> {}, sets |-> {}]
  BY <1>1, <1>2 DEF Idle
<1>6. k \in Call BY <1>4, <1>5 DEF Call, Lookup, IInv, Typed
<1>7. CallOK(k)
  BY <1>3, <1>4, <1>5, <1>6, StepsAre DEF CallOK, Placed, Halfway, Working, Firsts, Inner, Saving
<1> QED BY <1>1, <1>7, Quiet DEF Begin

LEMMA ReadOwnedOK ==
  ASSUME IInv, NEW c \in Calls, ReadOwned(c)
  PROVE  IInv'
<1>1. PICK h : h = call[c] OBVIOUS
<1>2. CallOK(h) /\ h.pc = "owned" BY <1>1 DEF IInv, CallsOK, ReadOwned, At
<1>3. PICK k : k = [h EXCEPT !.pc = "marker", !.m.ids = Owned] OBVIOUS
<1>4. h.m \in Marker /\ h.m.completed = 0 /\ ~h.m.done /\ h \in Call BY <1>2 DEF CallOK
<1>5. Owned \subseteq Agents BY DEF Owned
<1>6. PICK m : m = [h.m EXCEPT !.ids = Owned] OBVIOUS
<1>7. m \in Marker /\ m.completed = 0 /\ ~m.done /\ m.ids = Owned /\ m.option = h.m.option
  BY <1>4, <1>5, <1>6 DEF Marker
<1>8. k = [h EXCEPT !.pc = "marker", !.m = m] BY <1>3, <1>4, <1>6 DEF Call
<1>9. k \in Call /\ k.pc = "marker" /\ k.m = m BY <1>4, <1>7, <1>8 DEF Call, Lookup
<1>10. marker = NoMarker => born \subseteq m.ids
  BY <1>7, AgentsAssumption DEF IInv, Handed, Typed, Owned
<1>11. CallOK(k)
  BY <1>2, <1>7, <1>9, <1>10, StepsAre
  DEF CallOK, Lookup, Placed, Halfway, Working, Firsts, Inner, Saving
<1> QED BY <1>1, <1>3, <1>11, Quiet DEF ReadOwned

LEMMA ReadMarkerOK ==
  ASSUME IInv, NEW c \in Calls, ReadMarker(c)
  PROVE  IInv'
<1>1. PICK h : h = call[c] OBVIOUS
<1>2. CallOK(h) /\ h.pc = "marker" BY <1>1 DEF IInv, CallsOK, ReadMarker, At
<1>3. CASE marker # NoMarker /\ ~marker.done /\ Resumes(c, marker)
  <2>1. marker \in Marker /\ MarkerOK(marker) BY <1>3 DEF IInv, Typed
  <2>2. CallOK(Resumed(marker)) BY <1>3, <2>1, ResumesOK
  <2>3. Sets(c, Resumed(marker)) BY <1>3 DEF Resumes, Resumed
  <2>4. PICK k : k = Resumed(marker) OBVIOUS
  <2> QED BY <2>2, <2>3, <2>4, Quiet DEF ReadMarker
<1>4. CASE Returns(c)
  BY <1>4, ReturnsOK, Quiet DEF Returns, ReadMarker
<1>5. CASE Goes(c, "reread")
  <2>1. PICK k : k = [h EXCEPT !.pc = "reread"] OBVIOUS
  <2>2. h \in Call /\ k \in Call /\ k.pc = "reread" /\ k.m = h.m BY <1>2, <2>1 DEF CallOK, Call, Lookup
  <2>3. CallOK(k)
    BY <1>2, <2>2, StepsAre DEF CallOK, Lookup, Placed, Halfway, Working, Firsts, Inner, Saving
  <2> QED BY <1>1, <1>5, <2>1, <2>3, Quiet DEF ReadMarker, Goes
<1> QED BY <1>3, <1>4, <1>5 DEF ReadMarker

LEMMA RereadOK ==
  ASSUME IInv, NEW c \in Calls, Reread(c)
  PROVE  IInv'
<1>1. PICK h : h = call[c] OBVIOUS
<1>2. CallOK(h) /\ h.pc = "reread" BY <1>1 DEF IInv, CallsOK, Reread, At
<1>3. CASE marker # NoMarker /\ ~marker.done /\ Resumes(c, marker)
  <2>1. marker \in Marker /\ MarkerOK(marker) BY <1>3 DEF IInv, Typed
  <2>2. CallOK(Resumed(marker)) BY <1>3, <2>1, ResumesOK
  <2>3. Sets(c, Resumed(marker)) BY <1>3 DEF Resumes, Resumed
  <2>4. PICK k : k = Resumed(marker) OBVIOUS
  <2> QED BY <2>2, <2>3, <2>4, Quiet DEF Reread
<1>4. CASE marker.done /\ Sets(c, [call[c] EXCEPT !.pc = "first", !.m = marker])
  <2>1. PICK k : k = [h EXCEPT !.pc = "first", !.m = marker] OBVIOUS
  <2>2. MarkerOK(marker) /\ marker \in Marker BY <1>4 DEF IInv, NoMarker, MarkerOK
  <2>3. k \in Call /\ k.pc = "first" /\ k.m = marker BY <1>2, <2>1, <2>2 DEF CallOK, Call, Lookup
  <2>4. CallOK(k)
    BY <1>4, <2>2, <2>3, StepsAre DEF CallOK, Lookup, Placed, Halfway, Working, Firsts, Inner, Saving
  <2> QED BY <1>1, <1>4, <2>1, <2>4, Quiet DEF Reread
<1>5. CASE marker = NoMarker /\ Goes(c, "first")
  <2>1. PICK k : k = [h EXCEPT !.pc = "first"] OBVIOUS
  <2>2. h \in Call /\ k \in Call /\ k.pc = "first" /\ k.m = h.m BY <1>2, <2>1 DEF CallOK, Call, Lookup
  <2>3. MarkerOK(k.m) /\ k.m.completed = 0 BY <1>2, <1>5, <2>2 DEF CallOK, MarkerOK
  <2>4. CallOK(k)
    BY <1>2, <2>2, <2>3, StepsAre DEF CallOK, Lookup, Placed, Halfway, Working, Firsts, Inner, Saving
  <2> QED BY <1>1, <1>5, <2>1, <2>4, Quiet DEF Reread, Goes
<1> QED BY <1>3, <1>4, <1>5 DEF Reread

--------------------------------------------------------------------------------
\* A statement that stores a marker and nothing else.
LEMMA Writes ==
  ASSUME IInv, NEW c \in Calls, NEW m \in Marker, MarkerOK(m), marker' = m,
         NEW k, Sets(c, k), k = Idle \/ (k = Resumed(m) /\ ~m.done),
         UNCHANGED <<data, born, options, failures, acts>>, asked' \subseteq options
  PROVE  IInv'
<1>1. UNCHANGED <<user, owner, active, link, live, rows, records, left, orgs, born, options>>
  BY DEF data
<1>2. marker' # NoMarker BY MarkerIsMarker
<1>3. Shrinks BY <1>1, <1>2 DEF Shrinks, Raw, Owned
<1>4. Typed' BY <1>1 DEF IInv, Typed
<1>5. Handed' BY <1>1, <1>2 DEF IInv, Handed, NoMarker
<1>6. Gone' BY <1>1 DEF IInv, Gone
<1>7. MarkerOK(m)' BY <1>3, MarkerStaysOK
<1>8. MarkerOK(marker)' BY <1>7 DEF MarkerOK
<1>9. CallOK(k)'
  <2>1. CASE k = Idle
    <3>1. Idle \in Call /\ Idle.pc = "idle" BY DEF Idle, Call
    <3> QED BY <2>1, <3>1, StepsAre DEF CallOK, Placed, Halfway, Working, Saving, Lookup, Firsts, Inner
  <2>2. CASE k = Resumed(m) /\ ~m.done
    <3>1. k \in Call /\ k.pc \in Firsts /\ k.m = m /\ Placed(k) BY <2>2, ResumedIs
    <3>2. Halfway(k)' BY <3>1, FirstsHalfway
    <3> QED BY <1>2, <1>7, <2>2, <3>1, <3>2 DEF CallOK, Firsts, Lookup, Placed, NoMarker
  <2> QED BY <2>1, <2>2
<1>10. CallsOK' BY <1>3, <1>9, CallStep
<1> QED BY <1>4, <1>5, <1>6, <1>8, <1>10 DEF IInv

LEMMA SaveFirstOK ==
  ASSUME IInv, NEW c \in Calls, SaveFirst(c)
  PROVE  IInv'
<1>1. PICK h : h = call[c] OBVIOUS
<1>2. CallOK(h) /\ h.pc = "first" BY <1>1 DEF IInv, CallsOK, SaveFirst, At
<1>3. MarkerOK(h.m) /\ h.m \in Marker BY <1>2 DEF CallOK, MarkerOK
<1>4. asked \subseteq options BY DEF IInv, Typed
<1>5. CASE h.m.done /\ Returns(c) /\ asked' = asked
  <2>1. Sets(c, Idle) BY <1>5 DEF Returns
  <2>2. PICK k : k = Idle OBVIOUS
  <2> QED BY <1>1, <1>3, <1>4, <1>5, <2>1, <2>2, Writes DEF SaveFirst
<1>6. CASE ~h.m.done /\ Resumes(c, h.m) /\ asked' = asked \cup {h.m.option}
  <2>1. Sets(c, Resumed(h.m)) BY <1>6 DEF Resumes, Resumed
  <2>2. h.m.option \in options BY <1>2, <1>6 DEF CallOK, Lookup
  <2>3. PICK k : k = Resumed(h.m) OBVIOUS
  <2> QED BY <1>1, <1>3, <1>4, <1>6, <2>1, <2>2, <2>3, Writes DEF SaveFirst
<1> QED BY <1>1, <1>5, <1>6 DEF SaveFirst

LEMMA SaveOK ==
  ASSUME IInv, NEW c \in Calls, Save(c)
  PROVE  IInv'
<1>1. PICK h : h = call[c] OBVIOUS
<1>2. CallOK(h) /\ h.pc = "save" BY <1>1 DEF IInv, CallsOK, Save, At
<1>3. MarkerOK(h.m) /\ h.m \in Marker /\ ~h.m.done /\ marker # NoMarker
  BY <1>2 DEF CallOK, Working, Saving, MarkerOK
<1>4. h.m.completed \in 0..8 /\ StepDone(h.m.completed + 1, h.m.option)
  BY <1>2 DEF CallOK, Placed, Halfway
<1>5. PICK m : m = [h.m EXCEPT !.completed = @ + 1] OBVIOUS
<1>6. /\ m \in Marker /\ ~m.done /\ m.completed = h.m.completed + 1
      /\ m.ids = h.m.ids /\ m.option = h.m.option
  BY <1>3, <1>4, <1>5 DEF Marker
<1>7. MarkerOK(m)
  <2>1. \A i \in 1..9 : i <= m.completed => i <= h.m.completed \/ i = h.m.completed + 1 BY <1>4, <1>6
  <2> QED BY <1>3, <1>4, <1>6, <2>1 DEF MarkerOK
<1>8. CASE Sets(c, [[Idle EXCEPT !.m = m] EXCEPT !.pc = Entry[m.completed + 1]])
  <2>1. PICK k : k = [[Idle EXCEPT !.m = m] EXCEPT !.pc = Entry[m.completed + 1]] OBVIOUS
  <2>2. k = Resumed(m) BY <2>1 DEF Resumed, Idle
  <2>3. CallOK(k) BY <1>3, <1>6, <1>7, <2>2, ResumesOK
  <2> QED BY <1>8, <2>1, <2>3, Quiet DEF Save
<1>9. CASE Sets(c, [[Idle EXCEPT !.m = m] EXCEPT !.pc = "write"])
  <2>1. PICK k : k = [[Idle EXCEPT !.m = m] EXCEPT !.pc = "write"] OBVIOUS
  <2>2. k = [pc |-> "write", seen |-> FALSE, m |-> m, agent |-> None, todo |-> {}, sets |-> {}]
    BY <2>1 DEF Idle
  <2>3. k \in Call BY <1>6, <2>2 DEF Call, Saving
  <2>4. CallOK(k) BY <1>3, <1>6, <1>7, <2>2, <2>3 DEF CallOK, Placed, Halfway, Lookup
  <2> QED BY <1>9, <2>1, <2>4, Quiet DEF Save
<1> QED BY <1>1, <1>5, <1>8, <1>9 DEF Save

LEMMA SaveWriteOK ==
  ASSUME IInv, NEW c \in Calls, SaveWrite(c)
  PROVE  IInv'
<1>1. PICK m : m = call[c].m OBVIOUS
<1>2. MarkerOK(m) /\ m \in Marker /\ ~m.done
  BY <1>1 DEF IInv, CallsOK, CallOK, SaveWrite, At, Working, Saving, MarkerOK
<1>3. PICK k : k = Resumed(m) OBVIOUS
<1>4. Sets(c, k) BY <1>1, <1>3 DEF SaveWrite, Resumes, Resumed
<1>5. asked' \subseteq options BY DEF IInv, Typed, SaveWrite, Stays
<1> QED BY <1>1, <1>2, <1>3, <1>4, <1>5, Writes DEF SaveWrite, Stays

LEMMA FinishOK ==
  ASSUME IInv, NEW c \in Calls, Finish(c)
  PROVE  IInv'
<1>1. PICK h : h = call[c] OBVIOUS
<1>2. CallOK(h) /\ h.pc = "finish" BY <1>1 DEF IInv, CallsOK, Finish, At
<1>3. MarkerOK(h.m) /\ h.m \in Marker /\ h.m.completed = 9
  BY <1>2, StepsAre DEF CallOK, Working, Firsts, MarkerOK, Placed
<1>4. PICK m : m = [h.m EXCEPT !.done = TRUE, !.ids = {}] OBVIOUS
<1>5. m \in Marker /\ m.done /\ m.completed = 9 /\ m.option = h.m.option BY <1>3, <1>4 DEF Marker
<1>6. MarkerOK(m) BY <1>3, <1>5 DEF MarkerOK
<1>7. PICK k : k = Idle OBVIOUS
<1>8. asked' \subseteq options BY DEF IInv, Typed, Finish, Stays
<1> QED BY <1>1, <1>4, <1>5, <1>6, <1>7, <1>8, Writes DEF Finish, Stays, Returns

LEMMA FailsOK ==
  ASSUME IInv, NEW c \in Calls, Fails(c)
  PROVE  IInv'
<1>1. UNCHANGED <<user, owner, active, link, live, rows, records, left, orgs, marker,
                  born, options, acts, asked>>
  BY DEF Fails, data
<1>2. Shrinks BY <1>1 DEF Shrinks, Raw, Owned
<1>3. Typed' /\ Handed'
  <2>1. Typed' BY <1>1, BoundsAssumption DEF IInv, Typed, Fails
  <2>2. Handed' BY <1>1, <1>2, HandedStays DEF Shrinks
  <2> QED BY <2>1, <2>2
<1>4. PICK k : k = Idle OBVIOUS
<1>5. CallOK(k)' BY <1>2, <1>4, ReturnsOK, CallStaysOK
<1> QED BY <1>1, <1>2, <1>3, <1>4, <1>5, Advances DEF Fails, Returns

LEMMA ThrowsOK ==
  ASSUME IInv, NEW c \in Calls, Throws(c)
  PROVE  IInv'
<1>1. PICK k : k = Idle OBVIOUS
<1> QED BY <1>1, ReturnsOK, Quiet DEF Throws, Returns

--------------------------------------------------------------------------------
\* Where a call is.
LEMMA CallIs ==
  ASSUME IInv, NEW c \in Calls, NEW h, h = call[c]
  PROVE  CallOK(h) /\ h \in Call /\ Placed(h) /\ Halfway(h)
  BY DEF IInv, CallsOK, CallOK

\* Step 0.
LEMMA RevokeOK ==
  ASSUME IInv, NEW c \in Calls, Revoke(c)
  PROVE  IInv'
<1>1. PICK h : h = call[c] OBVIOUS
<1>2. CallOK(h) /\ h.pc = "revoke" BY <1>1, CallIs DEF Revoke, At
<1>3. h.pc \in Working /\ h.m.completed = 0 BY <1>2, StepsAre DEF Working, Firsts, CallOK, Placed
<1>4. h.m \in Marker /\ born \subseteq h.m.ids BY <1>2, <1>3 DEF CallOK, MarkerOK
<1>5. PICK k : k = [h EXCEPT !.pc = "cascade", !.todo = h.m.ids] OBVIOUS
<1>6. k \in Call /\ k.pc = "cascade" /\ k.m = h.m /\ k.todo = h.m.ids
  BY <1>2, <1>4, <1>5, StepsAre DEF CallOK, Call, Marker, Inner
<1>7. UNCHANGED <<user, owner, link, live, rows, records, left, orgs, marker, born, options,
                  failures, acts, asked>> /\ active' = active \ Owned
  BY DEF Revoke, MarkerStays, Stays
<1>8. Shrinks BY <1>7 DEF Shrinks, Raw, Owned
<1>9. Typed' BY <1>7 DEF IInv, Typed
<1>10. Handed' BY <1>7, HandedStays
<1>11. active' \cap born' = {}
  BY <1>7, AgentsAssumption DEF IInv, Typed, Handed, Owned
<1>12. live' \subseteq k.todo BY <1>4, <1>6, <1>7 DEF IInv, Typed
<1>13. Halfway(k)' BY <1>6, <1>11, <1>12 DEF Halfway
<1>14. Placed(k) BY <1>3, <1>6 DEF Placed
<1>15. k.pc \in Working BY <1>6, StepsAre DEF Working, Inner
<1>16. Sets(c, k) BY <1>1, <1>5 DEF Revoke
<1> QED BY <1>1, <1>3, <1>6, <1>7, <1>8, <1>9, <1>10, <1>13, <1>14, <1>15, <1>16, GoesStep

LEMMA CascadeOK ==
  ASSUME IInv, NEW c \in Calls, Cascade(c)
  PROVE  IInv'
<1>1. PICK h : h = call[c] OBVIOUS
<1>2. CallOK(h) /\ h.pc = "cascade" BY <1>1, CallIs DEF Cascade, At
<1>3. h.pc \in Working /\ h.m.completed = 0 BY <1>2, StepsAre DEF Working, Inner, CallOK, Placed
<1>4. h \in Call /\ MarkerOK(h.m) /\ ~h.m.done /\ marker # NoMarker BY <1>2, <1>3 DEF CallOK
<1>5. active \cap born = {} /\ live \subseteq h.todo BY <1>2 DEF CallOK, Halfway
<1>6. CASE h.todo = {} /\ Ends(c)
  <2>1. PICK k : k = Ended(h.m) OBVIOUS
  <2>2. k = [pc |-> "save", seen |-> FALSE, m |-> h.m, agent |-> None, todo |-> {}, sets |-> {}]
    BY <2>1 DEF Ended, Idle
  <2>3. k \in Call BY <1>4, <2>2 DEF Call, Saving, MarkerOK
  <2>4. StepDone(1, h.m.option) BY <1>5, <1>6 DEF StepDone
  <2>5. CallOK(k)
    BY <1>3, <1>4, <2>2, <2>3, <2>4 DEF CallOK, Lookup, Placed, Halfway
  <2>6. Sets(c, k) BY <1>1, <1>6, <2>1 DEF Ends, Ended
  <2> QED BY <2>5, <2>6, Quiet DEF Cascade
<1>7. ASSUME NEW a \in h.todo, NEW q \in {"cascade", "note", "flip"},
             Sets(c, [h EXCEPT !.agent = a, !.todo = @ \ {a}, !.pc = q]),
             q = "cascade" <=> a \notin live
      PROVE  IInv'
  <2>1. PICK k : k = [h EXCEPT !.agent = a, !.todo = @ \ {a}, !.pc = q] OBVIOUS
  <2>2. /\ k \in Call /\ k.pc = q /\ k.m = h.m /\ k.agent = a /\ k.todo = h.todo \ {a}
    BY <1>4, <1>7, <2>1, StepsAre DEF Call, Inner
  <2>3. live \subseteq k.todo \cup {a} /\ (q = "cascade" => live \subseteq k.todo) BY <1>5, <1>7, <2>2
  <2>4. q = "note" => a \in Linked BY <1>7 DEF IInv, Typed
  <2>5. Halfway(k) BY <1>5, <1>7, <2>2, <2>3, <2>4 DEF Halfway
  <2>6. Placed(k) BY <1>3, <1>7, <2>2 DEF Placed
  <2>7. CallOK(k) BY <1>4, <1>7, <2>2, <2>5, <2>6 DEF CallOK, Lookup
  <2> QED BY <1>7, <2>1, <2>7, Quiet DEF Cascade
<1>8. CASE \E a \in h.todo : Sets(c, [h EXCEPT !.agent = a, !.todo = @ \ {a},
                     !.pc = IF a \notin live THEN "cascade"
                            ELSE IF rows[Note[a]] = "none" /\ owner[a] = "user" THEN "note" ELSE "flip"])
  <2>1. PICK a \in h.todo : Sets(c, [h EXCEPT !.agent = a, !.todo = @ \ {a},
                     !.pc = IF a \notin live THEN "cascade"
                            ELSE IF rows[Note[a]] = "none" /\ owner[a] = "user" THEN "note" ELSE "flip"])
    BY <1>8
  <2>2. PICK q : q = IF a \notin live THEN "cascade"
                     ELSE IF rows[Note[a]] = "none" /\ owner[a] = "user" THEN "note" ELSE "flip"
    OBVIOUS
  <2>3. q \in {"cascade", "note", "flip"} /\ (q = "cascade" <=> a \notin live) BY <2>2
  <2> QED BY <1>7, <2>1, <2>2, <2>3
<1> QED BY <1>1, <1>6, <1>8 DEF Cascade

LEMMA WriteNoteOK ==
  ASSUME IInv, NEW c \in Calls, WriteNote(c)
  PROVE  IInv'
<1>1. PICK h : h = call[c] OBVIOUS
<1>2. CallOK(h) /\ h.pc = "note" BY <1>1, CallIs DEF WriteNote, At
<1>3. h.pc \in Working /\ h.m.completed = 0 BY <1>2, StepsAre DEF Working, Inner, CallOK, Placed
<1>4. active \cap born = {} /\ live \subseteq h.todo \cup {h.agent} /\ h.agent \in Linked
  BY <1>2 DEF CallOK, Halfway
<1>5. PICK k : k = [h EXCEPT !.pc = "flip"] OBVIOUS
<1>6. k \in Call /\ k.pc = "flip" /\ k.m = h.m /\ k.todo = h.todo /\ k.agent = h.agent
  BY <1>2, <1>5, StepsAre DEF CallOK, Call, Inner
<1>7. UNCHANGED <<user, owner, active, link, live, records, left, orgs, marker, born, options,
                  failures, acts, asked>>
  BY DEF WriteNote, MarkerStays, Stays
<1>8. Note[h.agent] \in Rows \ Old BY <1>4, NoteAssumption
<1>9. rows' = rows \/ rows' = [rows EXCEPT ![Note[h.agent]] = "raw"] BY <1>1 DEF WriteNote
<1>10. Raw' \cap Old \subseteq Raw /\ rows' \in [Rows -> {"none", "raw", "anonymous", "deleted"}]
  BY <1>8, <1>9 DEF Raw, IInv, Typed
<1>11. Shrinks BY <1>7, <1>10 DEF Shrinks, Owned
<1>12. Typed' BY <1>7, <1>10 DEF IInv, Typed
<1>13. Handed' BY <1>7, HandedStays
<1>14. Halfway(k)' BY <1>4, <1>6, <1>7 DEF Halfway
<1>15. Placed(k) BY <1>3, <1>6 DEF Placed
<1>16. k.pc \in Working BY <1>6, StepsAre DEF Working, Inner
<1>17. Sets(c, k) BY <1>1, <1>5 DEF WriteNote, Goes
<1> QED BY <1>1, <1>3, <1>6, <1>7, <1>11, <1>12, <1>13, <1>14, <1>15, <1>16, <1>17, GoesStep

LEMMA FlipOK ==
  ASSUME IInv, NEW c \in Calls, Flip(c)
  PROVE  IInv'
<1>1. PICK h : h = call[c] OBVIOUS
<1>2. CallOK(h) /\ h.pc = "flip" BY <1>1, CallIs DEF Flip, At
<1>3. h.pc \in Working /\ h.m.completed = 0 BY <1>2, StepsAre DEF Working, Inner, CallOK, Placed
<1>4. active \cap born = {} /\ live \subseteq h.todo \cup {h.agent} BY <1>2 DEF CallOK, Halfway
<1>5. PICK k : k = [h EXCEPT !.pc = "cascade"] OBVIOUS
<1>6. k \in Call /\ k.pc = "cascade" /\ k.m = h.m /\ k.todo = h.todo
  BY <1>2, <1>5, StepsAre DEF CallOK, Call, Inner
<1>7. UNCHANGED <<user, owner, active, link, rows, records, left, orgs, marker, born, options,
                  failures, acts, asked>> /\ live' = live \ {h.agent}
  BY <1>1 DEF Flip, MarkerStays, Stays
<1>8. Shrinks BY <1>7 DEF Shrinks, Raw, Owned
<1>9. Typed' BY <1>7 DEF IInv, Typed
<1>10. Handed' BY <1>7, HandedStays
<1>11. Halfway(k)' BY <1>4, <1>6, <1>7 DEF Halfway
<1>12. Placed(k) BY <1>3, <1>6 DEF Placed
<1>13. k.pc \in Working BY <1>6, StepsAre DEF Working, Inner
<1>14. Sets(c, k) BY <1>1, <1>5 DEF Flip, Goes
<1> QED BY <1>1, <1>3, <1>6, <1>7, <1>8, <1>9, <1>10, <1>11, <1>12, <1>13, <1>14, GoesStep

--------------------------------------------------------------------------------
\* Deletions of other rows.
LEMMA DeletesData ==
  ASSUME IInv, NEW c \in Calls, NEW pc, NEW items, NEW next, Deletes(c, pc, items, next)
  PROVE  /\ Shrinks /\ Typed' /\ Handed' /\ left' = left \ items
         /\ UNCHANGED <<user, owner, active, link, live, rows, records, orgs, marker, born>>
<1>1. UNCHANGED <<user, owner, active, link, live, rows, records, orgs, marker, born, options,
                  failures, acts, asked>> /\ left' = left \ items
  BY DEF Deletes, MarkerStays, Stays
<1>2. Shrinks BY <1>1 DEF Shrinks, Raw, Owned
<1>3. Typed' BY <1>1 DEF IInv, Typed
<1>4. Handed' BY <1>1, HandedStays
<1> QED BY <1>1, <1>2, <1>3, <1>4

\* The last one of a step, and another one.
LEMMA DeletesLast ==
  ASSUME IInv, NEW c \in Calls, NEW pc \in Steps, NEW items, Deletes(c, pc, items, "save"),
         NEW h, h = call[c], NEW i \in 0..8, h.m.completed = i, StepDone(i + 1, h.m.option)'
  PROVE  IInv'
<1>1. h.pc \in Working BY DEF Deletes, At, Working
<1>2. Ends(c) BY DEF Deletes
<1> QED BY <1>1, <1>2, DeletesData, EndsStep

LEMMA DeletesThen ==
  ASSUME IInv, NEW c \in Calls, NEW pc \in Steps, NEW items, NEW next \in Steps,
         Deletes(c, pc, items, next), NEW h, h = call[c],
         NEW k, k = [h EXCEPT !.pc = next], Placed(k), Halfway(k)'
  PROVE  IInv'
<1>1. h.pc = pc /\ h.pc \in Working BY DEF Deletes, At, Working
<1>2. next # "save" BY StepsAre DEF Firsts, Inner
<1>3. Sets(c, k) BY <1>2 DEF Deletes, Goes
<1>4. h \in Call BY CallIs
<1>5. k \in Call /\ k.pc = next /\ k.m = h.m BY <1>4 DEF Call
<1>6. k.pc \in Working BY <1>5 DEF Working
<1> QED BY <1>1, <1>3, <1>5, <1>6, DeletesData, GoesStep

LEMMA DeleteSessionsOK ==
  ASSUME IInv, NEW c \in Calls, DeleteSessions(c)
  PROVE  IInv'
<1>1. PICK h : h = call[c] OBVIOUS
<1>2. PICK k : k = [h EXCEPT !.pc = "apiKey"] OBVIOUS
<1>3. h.pc = "session" BY <1>1 DEF DeleteSessions, Deletes, At
<1>4. k.pc = "apiKey" /\ k.m = h.m BY <1>1, <1>2, CallIs DEF Call
<1>5. Placed(k) BY <1>1, <1>3, <1>4, CallIs DEF Placed
<1>6. left' = left \ {"session", "visit"} BY DeletesData DEF DeleteSessions
<1>7. Halfway(k)' BY <1>4, <1>6 DEF Halfway
<1>8. "session" \in Steps /\ "apiKey" \in Steps BY StepsAre DEF Firsts, Inner
<1> QED BY <1>1, <1>2, <1>5, <1>7, <1>8, DeletesThen DEF DeleteSessions

LEMMA DeleteKeysOK ==
  ASSUME IInv, NEW c \in Calls, DeleteKeys(c)
  PROVE  IInv'
<1>1. PICK h : h = call[c] OBVIOUS
<1>2. h.pc = "apiKey" BY <1>1 DEF DeleteKeys, Deletes, At
<1>3. h.m.completed = 1 /\ "session" \notin left BY <1>1, <1>2, CallIs DEF Placed, Halfway
<1>4. left' = left \ {"apiKey"} BY DeletesData DEF DeleteKeys
<1>5. StepDone(2, h.m.option)' BY <1>3, <1>4 DEF StepDone
<1>6. "apiKey" \in Steps BY StepsAre DEF Inner
<1> QED BY <1>1, <1>3, <1>5, <1>6, DeletesLast DEF DeleteKeys

LEMMA ScrubOK ==
  ASSUME IInv, NEW c \in Calls, Scrub(c)
  PROVE  IInv'
<1>1. PICK h : h = call[c] OBVIOUS
<1>2. h.pc = "scrub" BY <1>1 DEF Scrub, Deletes, At
<1>3. h.m.completed = 3 /\ Raw \cap Old = {} BY <1>1, <1>2, CallIs DEF Placed, Halfway
<1>4. left' = left \ {"named"} /\ rows' = rows BY DeletesData DEF Scrub
<1>5. StepDone(4, h.m.option)' BY <1>3, <1>4 DEF StepDone, Raw
<1>6. "scrub" \in Steps BY StepsAre DEF Inner
<1> QED BY <1>1, <1>3, <1>5, <1>6, DeletesLast DEF Scrub

LEMMA BlankOK ==
  ASSUME IInv, NEW c \in Calls, Blank(c)
  PROVE  IInv'
<1>1. PICK h : h = call[c] OBVIOUS
<1>2. PICK items : items = IF h.m.option.keep THEN {} ELSE {"named", "actor"} OBVIOUS
<1>3. Deletes(c, "blank", items, "save") BY <1>1, <1>2 DEF Blank
<1>4. h.pc = "blank" BY <1>1 DEF Blank, Deletes, At
<1>5. h.m.completed = 4 BY <1>1, <1>4, CallIs DEF Placed
<1>6. left' = left \ items BY <1>3, DeletesData
<1>7. StepDone(5, h.m.option)' BY <1>2, <1>6 DEF StepDone
<1>8. "blank" \in Steps BY StepsAre DEF Firsts
<1> QED BY <1>1, <1>3, <1>5, <1>7, <1>8, DeletesLast

LEMMA DeletePersonalOK ==
  ASSUME IInv, NEW c \in Calls, DeletePersonal(c)
  PROVE  IInv'
<1>1. PICK h : h = call[c] OBVIOUS
<1>2. h.pc = "personal" BY <1>1 DEF DeletePersonal, Deletes, At
<1>3. h.m.completed = 5 /\ (h.seen \/ "emailed" \notin left) BY <1>1, <1>2, CallIs DEF Placed, Halfway
<1>4. left' = left \ {"personal"} BY DeletesData DEF DeletePersonal
<1>5. "personal" \in Steps /\ "emailed" \in Steps BY StepsAre DEF Inner
<1>6. CASE h.seen
  <2>1. PICK k : k = [h EXCEPT !.pc = "emailed"] OBVIOUS
  <2>2. k.pc = "emailed" /\ k.m = h.m BY <1>1, <2>1, CallIs DEF Call
  <2>3. Placed(k) BY <1>3, <2>2 DEF Placed
  <2>4. Halfway(k)' BY <1>4, <2>2 DEF Halfway
  <2>5. Deletes(c, "personal", {"personal"}, "emailed") BY <1>1, <1>6 DEF DeletePersonal
  <2> QED BY <1>1, <1>5, <2>1, <2>3, <2>4, <2>5, DeletesThen
<1>7. CASE ~h.seen
  <2>1. StepDone(6, h.m.option)' BY <1>3, <1>4, <1>7 DEF StepDone
  <2>2. Deletes(c, "personal", {"personal"}, "save") BY <1>1, <1>7 DEF DeletePersonal
  <2> QED BY <1>1, <1>3, <1>5, <2>1, <2>2, DeletesLast
<1> QED BY <1>6, <1>7

LEMMA DeleteEmailedOK ==
  ASSUME IInv, NEW c \in Calls, DeleteEmailed(c)
  PROVE  IInv'
<1>1. PICK h : h = call[c] OBVIOUS
<1>2. h.pc = "emailed" BY <1>1 DEF DeleteEmailed, Deletes, At
<1>3. h.m.completed = 5 /\ "personal" \notin left BY <1>1, <1>2, CallIs DEF Placed, Halfway
<1>4. left' = left \ {"emailed"} BY DeletesData DEF DeleteEmailed
<1>5. StepDone(6, h.m.option)' BY <1>3, <1>4 DEF StepDone
<1>6. "emailed" \in Steps BY StepsAre DEF Inner
<1> QED BY <1>1, <1>3, <1>5, <1>6, DeletesLast DEF DeleteEmailed

--------------------------------------------------------------------------------
\* Reads within a step: the last one, and another one.
LEMMA EndsQuiet ==
  ASSUME IInv, NEW c \in Calls, NEW h, h = call[c], Ends(c), h.pc \in Working,
         NEW i \in 0..8, h.m.completed = i, StepDone(i + 1, h.m.option), DataStays
  PROVE  IInv'
<1>1. CallOK(h) BY CallIs
<1>2. PICK k : k = Ended(h.m) OBVIOUS
<1>3. k = [pc |-> "save", seen |-> FALSE, m |-> h.m, agent |-> None, todo |-> {}, sets |-> {}]
  BY <1>2 DEF Ended, Idle
<1>4. MarkerOK(h.m) /\ ~h.m.done /\ marker # NoMarker BY <1>1 DEF CallOK
<1>5. k \in Call BY <1>3, <1>4 DEF Call, Saving, MarkerOK
<1>6. CallOK(k) BY <1>3, <1>4, <1>5 DEF CallOK, Lookup, Placed, Halfway
<1>7. Sets(c, k) BY <1>2 DEF Ends, Ended
<1> QED BY <1>6, <1>7, Quiet

LEMMA GoesQuiet ==
  ASSUME IInv, NEW c \in Calls, NEW h, h = call[c], h.pc \in Working,
         NEW k \in Call, Sets(c, k), k.pc \in Steps, k.m = h.m, Placed(k), Halfway(k), DataStays
  PROVE  IInv'
<1>1. CallOK(h) BY CallIs
<1>2. MarkerOK(h.m) /\ ~h.m.done /\ marker # NoMarker BY <1>1 DEF CallOK
<1>3. k.pc \notin {"first", "owned", "marker", "reread"} BY StepsAre DEF Firsts, Inner
<1>4. CallOK(k) BY <1>2, <1>3 DEF CallOK, Lookup
<1> QED BY <1>4, Quiet

\* Step 2.
LEMMA RepointOK ==
  ASSUME IInv, NEW c \in Calls, Repoint(c)
  PROVE  IInv'
<1>1. PICK h : h = call[c] OBVIOUS
<1>2. CallOK(h) /\ h \in Call /\ h.pc = "repoint" BY <1>1, CallIs DEF Repoint, At
<1>3. h.pc \in Working /\ h.m.completed = 2 BY <1>2, StepsAre DEF Working, Firsts, CallOK, Placed
<1>4. h.m \in Marker /\ link \subseteq h.m.ids BY <1>2, <1>3 DEF CallOK, MarkerOK, IInv, Typed
<1>5. CASE h.m.option.keep \/ h.m.ids \cap link = {}
  <2>1. StepDone(3, h.m.option) BY <1>4, <1>5 DEF StepDone
  <2>2. Ends(c) /\ DataStays BY <1>1, <1>5 DEF Repoint
  <2> QED BY <1>1, <1>3, <2>1, <2>2, EndsQuiet
<1>6. CASE ~(h.m.option.keep \/ h.m.ids \cap link = {})
  <2>1. PICK k : k = [h EXCEPT !.pc = "move", !.todo = h.m.ids] OBVIOUS
  <2>2. k \in Call /\ k.pc = "move" /\ k.m = h.m /\ k.todo = h.m.ids
    BY <1>2, <1>4, <2>1, StepsAre DEF Call, Marker, Inner
  <2>3. Placed(k) /\ Halfway(k) BY <1>3, <1>4, <2>2 DEF Placed, Halfway
  <2>4. Sets(c, k) /\ DataStays BY <1>1, <1>6, <2>1 DEF Repoint
  <2>5. k.pc \in Steps BY <2>2, StepsAre DEF Inner
  <2> QED BY <1>1, <1>3, <2>2, <2>3, <2>4, <2>5, GoesQuiet
<1> QED BY <1>5, <1>6

LEMMA MoveOK ==
  ASSUME IInv, NEW c \in Calls, Move(c)
  PROVE  IInv'
<1>1. PICK h : h = call[c] OBVIOUS
<1>2. CallOK(h) /\ h \in Call /\ h.pc = "move" BY <1>1, CallIs DEF Move, At
<1>3. h.pc \in Working /\ h.m.completed = 2 BY <1>2, StepsAre DEF Working, Inner, CallOK, Placed
<1>4. link \subseteq h.todo BY <1>2 DEF CallOK, Halfway
<1>5. PICK a \in h.todo :
        /\ link' = link \ {a}
        /\ IF h.todo = {a} THEN Ends(c) ELSE Sets(c, [h EXCEPT !.todo = @ \ {a}])
  BY <1>1 DEF Move
<1>6. UNCHANGED <<user, owner, active, live, rows, records, left, orgs, marker, born, options,
                  failures, acts, asked>>
  BY DEF Move, MarkerStays, Stays
<1>7. Shrinks BY <1>5, <1>6 DEF Shrinks, Raw, Owned
<1>8. Typed' BY <1>5, <1>6 DEF IInv, Typed
<1>9. Handed' BY <1>6, HandedStays
<1>10. CASE h.todo = {a}
  <2>1. StepDone(3, h.m.option)' BY <1>4, <1>5, <1>10 DEF StepDone
  <2>2. Ends(c) BY <1>5, <1>10
  <2> QED BY <1>1, <1>3, <1>6, <1>7, <1>8, <1>9, <2>1, <2>2, EndsStep
<1>11. CASE h.todo # {a}
  <2>1. PICK k : k = [h EXCEPT !.todo = @ \ {a}] OBVIOUS
  <2>2. k \in Call /\ k.pc = "move" /\ k.m = h.m /\ k.todo = h.todo \ {a} BY <1>2, <2>1 DEF Call
  <2>3. Placed(k) BY <1>3, <2>2 DEF Placed
  <2>4. Halfway(k)' BY <1>4, <1>5, <2>2 DEF Halfway
  <2>5. Sets(c, k) BY <1>5, <1>11, <2>1
  <2>6. k.pc \in Working BY <2>2, StepsAre DEF Working, Inner
  <2> QED BY <1>1, <1>3, <1>6, <1>7, <1>8, <1>9, <2>2, <2>3, <2>4, <2>5, <2>6, GoesStep
<1> QED BY <1>10, <1>11

--------------------------------------------------------------------------------
\* Step 3.
LEMMA AuditOK ==
  ASSUME IInv, NEW c \in Calls, Audit(c)
  PROVE  IInv'
<1>1. PICK h : h = call[c] OBVIOUS
<1>2. CallOK(h) /\ h \in Call /\ h.pc = "audit" BY <1>1, CallIs DEF Audit, At
<1>3. h.pc \in Working /\ h.m.completed = 3 BY <1>2, StepsAre DEF Working, Firsts, CallOK, Placed
<1>4. h.m \in Marker BY <1>2, <1>3 DEF CallOK, MarkerOK
<1>5. DataStays BY DEF Audit
<1>6. CASE ~h.m.option.keep /\ Raw = {}
  <2>1. StepDone(4, h.m.option) BY <1>6 DEF StepDone
  <2>2. Ends(c) BY <1>1, <1>6 DEF Audit
  <2> QED BY <1>1, <1>3, <1>5, <2>1, <2>2, EndsQuiet
<1>7. CASE ~h.m.option.keep /\ Raw # {}
  <2>1. PICK k : k = [h EXCEPT !.pc = "sign", !.sets = ByAgent(Raw)] OBVIOUS
  <2>2. ByAgent(Raw) \subseteq SUBSET Rows BY DEF ByAgent, Raw
  <2>3. k \in Call /\ k.pc = "sign" /\ k.m = h.m BY <1>2, <2>1, <2>2, StepsAre DEF Call, Inner
  <2>4. Placed(k) /\ Halfway(k) BY <1>3, <1>7, <2>3 DEF Placed, Halfway
  <2>5. Sets(c, k) BY <1>1, <1>7, <2>1 DEF Audit
  <2>6. k.pc \in Steps BY <2>3, StepsAre DEF Inner
  <2> QED BY <1>1, <1>3, <1>5, <2>3, <2>4, <2>5, <2>6, GoesQuiet
<1>8. CASE h.m.option.keep /\ Raw = {}
  <2>1. PICK k : k = [h EXCEPT !.pc = "legacy"] OBVIOUS
  <2>2. k \in Call /\ k.pc = "legacy" /\ k.m = h.m BY <1>2, <2>1, StepsAre DEF Call, Inner
  <2>3. Placed(k) /\ Halfway(k) BY <1>3, <1>8, <2>2 DEF Placed, Halfway
  <2>4. Sets(c, k) BY <1>1, <1>8, <2>1 DEF Audit, Goes
  <2>5. k.pc \in Steps BY <2>2, StepsAre DEF Inner
  <2> QED BY <1>1, <1>3, <1>5, <2>2, <2>3, <2>4, <2>5, GoesQuiet
<1>9. CASE h.m.option.keep /\ Raw # {}
  <2>1. PICK t : t = {On[r] : r \in Raw} \cap h.m.ids OBVIOUS
  <2>2. PICK k : k = [h EXCEPT !.pc = "rewrite", !.todo = t] OBVIOUS
  <2>3. t \subseteq Agents BY <1>4, <2>1 DEF Marker
  <2>4. k \in Call /\ k.pc = "rewrite" /\ k.m = h.m BY <1>2, <2>2, <2>3, StepsAre DEF Call, Inner
  <2>5. Placed(k) /\ Halfway(k) BY <1>3, <1>9, <2>4 DEF Placed, Halfway
  <2>6. Sets(c, k) BY <1>1, <1>9, <2>1, <2>2 DEF Audit
  <2>7. k.pc \in Steps BY <2>4, StepsAre DEF Inner
  <2> QED BY <1>1, <1>3, <1>5, <2>4, <2>5, <2>6, <2>7, GoesQuiet
<1> QED BY <1>6, <1>7, <1>8, <1>9

\* A rewritten row no longer names the user.
LEMMA RewritesData ==
  ASSUME IInv, NEW R, Rewrites(R),
         UNCHANGED <<user, owner, active, link, live, records, left, orgs>>, MarkerStays
  PROVE  /\ Shrinks /\ Typed' /\ Handed' /\ Raw' = Raw \ R
         /\ user' = user /\ marker' = marker
<1>1. UNCHANGED <<user, owner, active, link, live, records, left, orgs, marker, born, options,
                  failures, acts, asked>>
  BY DEF MarkerStays, Stays
<1>2. rows \in [Rows -> {"none", "raw", "anonymous", "deleted"}] BY DEF IInv, Typed
<1>3. rows' \in [Rows -> {"none", "raw", "anonymous", "deleted"}] /\ Raw' = Raw \ R
  BY <1>2 DEF Rewrites, Raw
<1>4. Shrinks BY <1>1, <1>3 DEF Shrinks, Owned
<1>5. Typed' BY <1>1, <1>3 DEF IInv, Typed
<1>6. Handed' BY <1>1, HandedStays
<1> QED BY <1>1, <1>3, <1>4, <1>5, <1>6

LEMMA RewriteOK ==
  ASSUME IInv, NEW c \in Calls, Rewrite(c)
  PROVE  IInv'
<1>1. PICK h : h = call[c] OBVIOUS
<1>2. CallOK(h) /\ h \in Call /\ h.pc = "rewrite" BY <1>1, CallIs DEF Rewrite, At
<1>3. h.pc \in Working /\ h.m.completed = 3 BY <1>2, StepsAre DEF Working, Inner, CallOK, Placed
<1>4. h.m.option.keep BY <1>2 DEF CallOK, Halfway
<1>5. CASE h.todo = {} /\ Goes(c, "rest") /\ UNCHANGED rows
  <2>1. PICK k : k = [h EXCEPT !.pc = "rest"] OBVIOUS
  <2>2. k \in Call /\ k.pc = "rest" /\ k.m = h.m BY <1>2, <2>1, StepsAre DEF Call, Inner
  <2>3. Placed(k) /\ Halfway(k) BY <1>3, <1>4, <2>2 DEF Placed, Halfway
  <2>4. Sets(c, k) BY <1>1, <1>5, <2>1 DEF Goes
  <2>5. DataStays BY <1>5 DEF Rewrite, DataStays, data
  <2>6. k.pc \in Steps BY <2>2, StepsAre DEF Inner
  <2> QED BY <1>1, <1>3, <2>2, <2>3, <2>4, <2>5, <2>6, GoesQuiet
<1>6. ASSUME NEW a \in h.todo, Rewrites({r \in Rows : On[r] = a}), Sets(c, [h EXCEPT !.todo = @ \ {a}])
      PROVE  IInv'
  <2>1. PICK k : k = [h EXCEPT !.todo = @ \ {a}] OBVIOUS
  <2>2. k \in Call /\ k.pc = "rewrite" /\ k.m = h.m BY <1>2, <2>1 DEF Call
  <2>3. Placed(k) /\ Halfway(k)' BY <1>3, <1>4, <2>2 DEF Placed, Halfway
  <2>4. Sets(c, k) BY <1>6, <2>1
  <2>5. k.pc \in Working BY <2>2, StepsAre DEF Working, Inner
  <2>6. Shrinks /\ Typed' /\ Handed' /\ user' = user /\ marker' = marker
    BY <1>6, RewritesData DEF Rewrite
  <2> QED BY <1>1, <1>3, <2>2, <2>3, <2>4, <2>5, <2>6, GoesStep
<1> QED BY <1>1, <1>5, <1>6 DEF Rewrite

LEMMA RewriteRestOK ==
  ASSUME IInv, NEW c \in Calls, RewriteRest(c)
  PROVE  IInv'
<1>1. PICK h : h = call[c] OBVIOUS
<1>2. CallOK(h) /\ h \in Call /\ h.pc = "rest" BY <1>1, CallIs DEF RewriteRest, At
<1>3. h.pc \in Working /\ h.m.completed = 3 BY <1>2, StepsAre DEF Working, Inner, CallOK, Placed
<1>4. h.m.option.keep BY <1>2 DEF CallOK, Halfway
<1>5. Shrinks /\ Typed' /\ Handed' /\ Raw' = Raw \ Rows /\ user' = user /\ marker' = marker
  BY RewritesData DEF RewriteRest
<1>6. PICK k : k = [h EXCEPT !.pc = "legacy"] OBVIOUS
<1>7. k \in Call /\ k.pc = "legacy" /\ k.m = h.m BY <1>2, <1>6, StepsAre DEF Call, Inner
<1>8. Raw' = {} BY <1>5 DEF Raw
<1>9. Placed(k) /\ Halfway(k)' BY <1>3, <1>4, <1>7, <1>8 DEF Placed, Halfway
<1>10. Sets(c, k) BY <1>1, <1>6 DEF RewriteRest, Goes
<1>11. k.pc \in Working BY <1>7, StepsAre DEF Working, Inner
<1> QED BY <1>1, <1>3, <1>5, <1>7, <1>9, <1>10, <1>11, GoesStep

LEMMA FindLegacyOK ==
  ASSUME IInv, NEW c \in Calls, FindLegacy(c)
  PROVE  IInv'
<1>1. PICK h : h = call[c] OBVIOUS
<1>2. CallOK(h) /\ h \in Call /\ h.pc = "legacy" BY <1>1, CallIs DEF FindLegacy, At
<1>3. h.pc \in Working /\ h.m.completed = 3 BY <1>2, StepsAre DEF Working, Inner, CallOK, Placed
<1>4. h.m.option.keep /\ Raw \cap Old = {} BY <1>2 DEF CallOK, Halfway
<1>5. PICK R : R = {r \in Legacy : rows[r] = "anonymous" /\ NamedIn(r) = {}} OBVIOUS
<1>6. ByAgent(R) \subseteq SUBSET Rows BY <1>5, RowsAssumption DEF ByAgent
<1>7. PICK k : k = [h EXCEPT !.pc = "record", !.sets = ByAgent(R)] OBVIOUS
<1>8. k \in Call /\ k.pc = "record" /\ k.m = h.m BY <1>2, <1>6, <1>7, StepsAre DEF Call, Inner
<1>9. Placed(k) /\ Halfway(k) BY <1>3, <1>4, <1>8 DEF Placed, Halfway
<1>10. Sets(c, k) /\ DataStays BY <1>1, <1>5, <1>7 DEF FindLegacy
<1>11. k.pc \in Steps BY <1>8, StepsAre DEF Inner
<1> QED BY <1>1, <1>3, <1>8, <1>9, <1>10, <1>11, GoesQuiet

LEMMA WriteRecordOK ==
  ASSUME IInv, NEW c \in Calls, NEW pc, NEW next, WriteRecord(c, pc, next),
         (pc = "record" /\ next = "scrub") \/ (pc = "sign" /\ next = "drop")
  PROVE  IInv'
<1>1. PICK h : h = call[c] OBVIOUS
<1>2. CallOK(h) /\ h \in Call /\ h.pc = pc BY <1>1, CallIs DEF WriteRecord, At
<1>3. h.pc \in Working /\ h.m.completed = 3 BY <1>2, StepsAre DEF Working, Inner, CallOK, Placed
<1>4. /\ pc = "record" => h.m.option.keep /\ Raw \cap Old = {}
      /\ pc = "sign" => ~h.m.option.keep
  BY <1>2 DEF CallOK, Halfway
<1>5. UNCHANGED <<user, owner, active, link, live, rows, left, orgs, marker, born, options,
                  failures, acts, asked>>
  BY DEF WriteRecord, MarkerStays, Stays
<1>6. CASE h.sets = {} /\ Goes(c, next) /\ UNCHANGED records
  <2>1. PICK k : k = [h EXCEPT !.pc = next] OBVIOUS
  <2>2. k \in Call /\ k.pc = next /\ k.m = h.m BY <1>2, <2>1, StepsAre DEF Call, Inner
  <2>3. Placed(k) /\ Halfway(k) BY <1>3, <1>4, <2>2 DEF Placed, Halfway
  <2>4. Sets(c, k) BY <1>1, <1>6, <2>1 DEF Goes
  <2>5. DataStays BY <1>5, <1>6 DEF WriteRecord, DataStays, data
  <2>6. k.pc \in Steps BY <2>2, StepsAre DEF Inner
  <2> QED BY <1>1, <1>3, <2>2, <2>3, <2>4, <2>5, <2>6, GoesQuiet
<1>7. ASSUME NEW s \in h.sets, records' = records \cup {s}, Sets(c, [h EXCEPT !.sets = @ \ {s}])
      PROVE  IInv'
  <2>1. PICK k : k = [h EXCEPT !.sets = @ \ {s}] OBVIOUS
  <2>2. k \in Call /\ k.pc = pc /\ k.m = h.m BY <1>2, <2>1 DEF Call
  <2>3. Shrinks BY <1>5 DEF Shrinks, Raw, Owned
  <2>4. s \subseteq Rows BY <1>2 DEF Call
  <2>5. Typed' BY <1>5, <1>7, <2>4 DEF IInv, Typed
  <2>6. Handed' BY <1>5, HandedStays
  <2>7. Raw' = Raw BY <1>5 DEF Raw
  <2>8. Placed(k) /\ Halfway(k)' BY <1>3, <1>4, <2>2, <2>7, <1>5 DEF Placed, Halfway
  <2>9. Sets(c, k) BY <1>7, <2>1
  <2>10. k.pc \in Working BY <2>2, StepsAre DEF Working, Inner
  <2> QED BY <1>1, <1>3, <1>5, <2>2, <2>3, <2>5, <2>6, <2>8, <2>9, <2>10, GoesStep
<1> QED BY <1>1, <1>6, <1>7 DEF WriteRecord

LEMMA DropRowsOK ==
  ASSUME IInv, NEW c \in Calls, DropRows(c)
  PROVE  IInv'
<1>1. PICK h : h = call[c] OBVIOUS
<1>2. CallOK(h) /\ h \in Call /\ h.pc = "drop" BY <1>1, CallIs DEF DropRows, At
<1>3. h.pc \in Working /\ h.m.completed = 3 BY <1>2, StepsAre DEF Working, Inner, CallOK, Placed
<1>4. ~h.m.option.keep BY <1>2 DEF CallOK, Halfway
<1>5. UNCHANGED <<user, owner, active, link, live, records, left, orgs, marker, born, options,
                  failures, acts, asked>>
  BY DEF DropRows, MarkerStays, Stays
<1>6. rows' \in [Rows -> {"none", "raw", "anonymous", "deleted"}] /\ Raw' = {}
  BY DEF DropRows, Raw, IInv, Typed
<1>7. Shrinks BY <1>5, <1>6 DEF Shrinks, Owned
<1>8. Typed' BY <1>5, <1>6 DEF IInv, Typed
<1>9. Handed' BY <1>5, HandedStays
<1>10. StepDone(4, h.m.option)' BY <1>4, <1>6 DEF StepDone
<1>11. Ends(c) BY DEF DropRows
<1> QED BY <1>1, <1>3, <1>5, <1>7, <1>8, <1>9, <1>10, <1>11, EndsStep

--------------------------------------------------------------------------------
\* Steps 5 to 8.  Without a user row the address is gone already.
LEMMA ReadEmailOK ==
  ASSUME IInv, NEW c \in Calls, ReadEmail(c)
  PROVE  IInv'
<1>1. PICK h : h = call[c] OBVIOUS
<1>2. CallOK(h) /\ h \in Call /\ h.pc = "email" BY <1>1, CallIs DEF ReadEmail, At
<1>3. h.pc \in Working /\ h.m.completed = 5 BY <1>2, StepsAre DEF Working, Firsts, CallOK, Placed
<1>4. PICK k : k = [h EXCEPT !.pc = "personal", !.seen = user] OBVIOUS
<1>5. user \in BOOLEAN /\ (user \/ "emailed" \notin left) BY DEF IInv, Typed, Gone
<1>6. k \in Call /\ k.pc = "personal" /\ k.m = h.m /\ k.seen = user
  BY <1>2, <1>4, <1>5, StepsAre DEF Call, Inner
<1>7. Placed(k) /\ Halfway(k) BY <1>3, <1>5, <1>6 DEF Placed, Halfway
<1>8. Sets(c, k) /\ DataStays BY <1>1, <1>4 DEF ReadEmail
<1>9. k.pc \in Steps BY <1>6, StepsAre DEF Inner
<1> QED BY <1>1, <1>3, <1>6, <1>7, <1>8, <1>9, GoesQuiet

LEMMA DeleteOrgsOK ==
  ASSUME IInv, NEW c \in Calls, DeleteOrgs(c)
  PROVE  IInv'
<1>1. PICK h : h = call[c] OBVIOUS
<1>2. CallOK(h) /\ h.pc = "orgs" BY <1>1, CallIs DEF DeleteOrgs, At
<1>3. h.pc \in Working /\ h.m.completed = 6 BY <1>2, StepsAre DEF Working, Firsts, CallOK, Placed
<1>4. UNCHANGED <<user, owner, active, link, live, rows, records, left, marker, born, options,
                  failures, acts, asked>>
  BY DEF DeleteOrgs, MarkerStays, Stays
<1>5. orgs' = IF h.m.option.orgs /\ orgs = "user" THEN "deleted" ELSE orgs BY <1>1 DEF DeleteOrgs
<1>6. Shrinks BY <1>4, <1>5 DEF Shrinks, Raw, Owned
<1>7. Typed' BY <1>4, <1>5 DEF IInv, Typed
<1>8. Handed' BY <1>4, HandedStays
<1>9. StepDone(7, h.m.option)' BY <1>5 DEF StepDone
<1>10. Ends(c) BY DEF DeleteOrgs
<1> QED BY <1>1, <1>3, <1>4, <1>6, <1>7, <1>8, <1>9, <1>10, EndsStep

LEMMA MoveAgentsOK ==
  ASSUME IInv, NEW c \in Calls, MoveAgents(c)
  PROVE  IInv'
<1>1. PICK h : h = call[c] OBVIOUS
<1>2. CallOK(h) /\ h \in Call /\ h.pc = "agents" BY <1>1, CallIs DEF MoveAgents, At
<1>3. h.pc \in Working /\ h.m.completed = 7 BY <1>2, StepsAre DEF Working, Firsts, CallOK, Placed
<1>4. MarkerOK(h.m) /\ ~h.m.done /\ marker # NoMarker BY <1>2, <1>3 DEF CallOK
<1>5. active \cap born = {} /\ born \subseteq h.m.ids
  <2>1. StepDone(1, h.m.option) BY <1>3, <1>4 DEF MarkerOK
  <2> QED BY <1>4, <2>1 DEF StepDone, MarkerOK
<1>6. UNCHANGED <<user, active, link, live, rows, records, left, orgs, marker, born, options,
                  failures, acts, asked>>
  BY DEF MoveAgents, MarkerStays, Stays
<1>7. \/ h.m.ids = {} /\ owner' = owner
      \/ owner' = [a \in Agents |-> IF a \notin Owned THEN owner[a]
                                    ELSE IF h.m.option.keep THEN "tombstone" ELSE "deleted"]
  BY <1>1 DEF MoveAgents
<1>8. born \subseteq Agents BY AgentsAssumption DEF IInv, Typed
<1>9. owner \in [Agents -> {"none", "user", "tombstone", "deleted"}] BY DEF IInv, Typed
<1>10. owner' \in [Agents -> {"none", "user", "tombstone", "deleted"}]
  BY <1>7, <1>9
<1>11. \A a \in born : owner'[a] # "user" /\ owner'[a] # "none"
  BY <1>5, <1>7, <1>8 DEF IInv, Handed, Owned
<1>12. (Owned \cap born = {})'
  BY <1>6, <1>11 DEF Owned
<1>13. Shrinks BY <1>6, <1>12 DEF Shrinks, Raw
<1>14. Typed' BY <1>6, <1>10 DEF IInv, Typed
<1>15. Handed' BY <1>4, <1>5, <1>6, <1>11 DEF Handed, NoMarker
<1>16. PICK k : k = [h EXCEPT !.pc = "owners"] OBVIOUS
<1>17. k \in Call /\ k.pc = "owners" /\ k.m = h.m BY <1>2, <1>16, StepsAre DEF Call, Inner
<1>18. Placed(k) /\ Halfway(k)' BY <1>3, <1>12, <1>17 DEF Placed, Halfway
<1>19. Sets(c, k) BY <1>1, <1>16 DEF MoveAgents, Goes
<1>20. k.pc \in Working BY <1>17, StepsAre DEF Working, Inner
<1> QED BY <1>1, <1>3, <1>6, <1>13, <1>14, <1>15, <1>17, <1>18, <1>19, <1>20, GoesStep

LEMMA MoveOwnedOK ==
  ASSUME IInv, NEW c \in Calls, MoveOwned(c)
  PROVE  IInv'
<1>1. PICK h : h = call[c] OBVIOUS
<1>2. CallOK(h) /\ h.pc = "owners" BY <1>1, CallIs DEF MoveOwned, At
<1>3. h.pc \in Working /\ h.m.completed = 7 BY <1>2, StepsAre DEF Working, Inner, CallOK, Placed
<1>4. Owned \cap born = {} BY <1>2 DEF CallOK, Halfway
<1>5. UNCHANGED <<user, owner, active, link, live, rows, records, marker, born, options,
                  failures, acts, asked>>
  BY DEF MoveOwned, MarkerStays, Stays
<1>6. orgs' = (IF orgs = "user" THEN "tombstone" ELSE orgs) /\ left' = left \ {"owned"} BY DEF MoveOwned
<1>7. Shrinks BY <1>5, <1>6 DEF Shrinks, Raw, Owned
<1>8. Typed' BY <1>5, <1>6 DEF IInv, Typed
<1>9. Handed' BY <1>5, HandedStays
<1>10. StepDone(8, h.m.option)' BY <1>4, <1>5, <1>6 DEF StepDone, Owned
<1>11. Ends(c) BY DEF MoveOwned
<1> QED BY <1>1, <1>3, <1>5, <1>7, <1>8, <1>9, <1>10, <1>11, EndsStep

\* The user row goes after the eight other steps.
LEMMA DeleteUserRowOK ==
  ASSUME IInv, NEW c \in Calls, DeleteUserRow(c)
  PROVE  IInv'
<1>1. PICK h : h = call[c] OBVIOUS
<1>2. CallOK(h) /\ h.pc = "user" BY <1>1, CallIs DEF DeleteUserRow, At
<1>3. h.pc \in Working /\ h.m.completed = 8 BY <1>2, StepsAre DEF Working, Firsts, CallOK, Placed
<1>4. MarkerOK(h.m) /\ ~h.m.done /\ marker # NoMarker BY <1>2, <1>3 DEF CallOK
<1>5. UNCHANGED <<owner, active, link, live, rows, records, left, orgs, marker, born, options,
                  failures, acts, asked>> /\ user' = FALSE
  BY DEF DeleteUserRow, MarkerStays, Stays
<1>6. Shrinks BY <1>5 DEF Shrinks, Raw, Owned
<1>7. Typed' BY <1>5 DEF IInv, Typed
<1>8. Handed' BY <1>5, HandedStays
<1>9. Gone'
  <2>1. \A i \in {1, 4, 5, 6, 8} : StepDone(i, h.m.option) BY <1>3, <1>4 DEF MarkerOK
  <2>2. active \cap born = {} /\ live = {} BY <2>1 DEF StepDone
  <2>3. "emailed" \notin left BY <2>1 DEF StepDone
  <2>4. "named" \notin left
    <3>1. StepDone(4, h.m.option) /\ StepDone(5, h.m.option) BY <2>1
    <3> QED BY <3>1 DEF StepDone
  <2>5. Owned \cap born = {} BY <2>1 DEF StepDone
  <2>6. \A a \in born : owner[a] \in {"tombstone", "deleted"}
    BY <2>5, AgentsAssumption DEF Owned, IInv, Typed, Handed
  <2> QED BY <1>5, <2>2, <2>3, <2>4, <2>6 DEF Gone
<1>10. StepDone(9, h.m.option)' BY <1>5 DEF StepDone
<1>11. Ends(c) BY DEF DeleteUserRow
<1>12. CallOK(Ended(h.m))' BY <1>2, <1>3, <1>6, <1>10, EndsOK
<1>13. CallsOK'
  <2>1. PICK k : k = Ended(h.m) OBVIOUS
  <2>2. Sets(c, k) BY <1>1, <1>11, <2>1 DEF Ends, Ended
  <2> QED BY <1>6, <1>12, <2>1, <2>2, CallStep
<1>14. MarkerOK(marker)'
  <2>1. PICK m : m = marker OBVIOUS
  <2>2. MarkerOK(m)' BY <1>4, <1>6, <2>1, MarkerStaysOK DEF IInv
  <2> QED BY <1>5, <2>1, <2>2 DEF MarkerOK
<1> QED BY <1>7, <1>8, <1>9, <1>13, <1>14 DEF IInv

--------------------------------------------------------------------------------
\* What happens meanwhile adds nothing to what was there before.
LEMMA Outside ==
  ASSUME IInv, Shrinks, Typed', Handed', UNCHANGED <<user, marker, call>>
  PROVE  IInv'
<1>1. CallsOK'
  <2>1. \A d \in Calls : CallOK(call[d])'
    <3> TAKE d \in Calls
    <3>1. PICK h : h = call[d] OBVIOUS
    <3>2. CallOK(h)' BY <3>1, CallStaysOK, CallIs
    <3> QED BY <3>1, <3>2 DEF CallOK, Placed, Halfway
  <2> QED BY <2>1 DEF CallsOK, IInv
<1>2. (marker # NoMarker => MarkerOK(marker))'
  <2> SUFFICES ASSUME marker # NoMarker PROVE MarkerOK(marker)' BY DEF NoMarker
  <2>1. PICK m : m = marker OBVIOUS
  <2>2. MarkerOK(m)' BY <2>1, MarkerStaysOK DEF IInv
  <2> QED BY <2>1, <2>2 DEF MarkerOK
<1> QED BY <1>1, <1>2, CleanStays DEF IInv

LEMMA SignInOK == ASSUME IInv, SignIn PROVE IInv'
<1>1. UNCHANGED <<user, owner, active, link, live, rows, records, orgs, marker, call, born, options,
                  failures, asked>> /\ left' = left \cup {"visit"}
  BY DEF SignIn, Acts
<1>2. acts' \in 0..MaxActs BY BoundsAssumption DEF SignIn, Acts, IInv, Typed
<1>3. Shrinks BY <1>1 DEF Shrinks, Raw, Owned
<1>4. Typed' BY <1>1, <1>2 DEF IInv, Typed, Items
<1>5. Handed' BY <1>1, HandedStays
<1> QED BY <1>1, <1>3, <1>4, <1>5, Outside

LEMMA CreateAgentOK == ASSUME IInv, NEW a \in Agents, CreateAgent(a) PROVE IInv'
<1>1. UNCHANGED <<user, link, live, rows, records, left, orgs, marker, call, born, options,
                  failures, asked>>
  BY DEF CreateAgent, Acts
<1>2. owner' = [owner EXCEPT ![a] = "user"] /\ active' = active \cup {a} BY DEF CreateAgent
<1>3. a \notin born BY DEF CreateAgent, IInv, Handed
<1>4. acts' \in 0..MaxActs BY BoundsAssumption DEF CreateAgent, Acts, IInv, Typed
<1>5. Typed' BY <1>1, <1>2, <1>4 DEF IInv, Typed
<1>6. born \subseteq Agents BY AgentsAssumption DEF IInv, Typed
<1>7. \A b \in born : owner'[b] = owner[b] /\ (b \in active' => b \in active)
  BY <1>2, <1>3, <1>6 DEF IInv, Typed
<1>8. Shrinks BY <1>1, <1>7 DEF Shrinks, Raw, Owned
<1>9. Handed' BY <1>1, <1>7 DEF IInv, Handed, NoMarker
<1> QED BY <1>1, <1>5, <1>8, <1>9, Outside

LEMMA AgentActsOK == ASSUME IInv, NEW r \in Rows, AgentActs(r) PROVE IInv'
<1>1. UNCHANGED <<user, owner, active, link, live, records, left, orgs, marker, call, born, options,
                  failures, asked>>
  BY DEF AgentActs, Acts
<1>2. rows' = [rows EXCEPT ![r] = "raw"] /\ r \notin Old BY DEF AgentActs
<1>3. acts' \in 0..MaxActs BY BoundsAssumption DEF AgentActs, Acts, IInv, Typed
<1>4. Typed' BY <1>1, <1>2, <1>3 DEF IInv, Typed
<1>5. Raw' \cap Old \subseteq Raw BY <1>2 DEF Raw, IInv, Typed
<1>6. Shrinks BY <1>1, <1>5 DEF Shrinks, Owned
<1>7. Handed' BY <1>1, HandedStays
<1> QED BY <1>1, <1>4, <1>6, <1>7, Outside

--------------------------------------------------------------------------------
LEMMA InitOK == Init => IInv
<1> HAVE Init
<1>1. born \subseteq Agents BY AgentsAssumption DEF Init
<1>2. Typed
  <2>1. owner \in [Agents -> {"none", "user", "tombstone", "deleted"}] BY DEF Init
  <2>2. rows \in [Rows -> {"none", "raw", "anonymous", "deleted"}] BY DEF Init
  <2>3. left \subseteq Items BY DEF Init
  <2> QED BY <1>1, <2>1, <2>2, <2>3, BoundsAssumption DEF Init, Typed
<1>3. \A c \in Calls : CallOK(call[c])
  <2> TAKE c \in Calls
  <2>1. PICK k : k = Idle OBVIOUS
  <2> QED BY <2>1, ReturnsOK DEF Init
<1>4. CallsOK BY <1>3 DEF Init, CallsOK
<1>5. Handed BY <1>1 DEF Init, Handed
<1> QED BY <1>2, <1>4, <1>5 DEF IInv, Init, Gone

LEMMA NextOK == IInv /\ [Next]_vars => IInv'
<1> SUFFICES ASSUME IInv, [Next]_vars PROVE IInv' OBVIOUS
<1>1. CASE UNCHANGED vars
  <2>1. UNCHANGED <<user, owner, active, link, live, rows, records, left, orgs, marker, call, born,
                    options, failures, acts, asked>>
    BY <1>1 DEF vars, data
  <2>2. Shrinks BY <2>1 DEF Shrinks, Raw, Owned
  <2>3. Typed' BY <2>1 DEF IInv, Typed
  <2>4. Handed' BY <2>1, HandedStays
  <2> QED BY <2>1, <2>2, <2>3, <2>4, Outside
<1>2. ASSUME NEW c \in Calls, NEW o \in options, Begin(c, o) PROVE IInv' BY <1>2, BeginOK
<1>3. ASSUME NEW c \in Calls, Continue(c) PROVE IInv'
  BY <1>3, ReadOwnedOK, ReadMarkerOK, RereadOK, SaveFirstOK, RevokeOK, CascadeOK, WriteNoteOK, FlipOK,
     DeleteSessionsOK, DeleteKeysOK, RepointOK, MoveOK, AuditOK, RewriteOK, RewriteRestOK,
     FindLegacyOK, WriteRecordOK, ScrubOK, DropRowsOK, BlankOK, ReadEmailOK, DeletePersonalOK,
     DeleteEmailedOK, DeleteOrgsOK, MoveAgentsOK, MoveOwnedOK, DeleteUserRowOK, ThrowsOK, SaveOK,
     SaveWriteOK, FinishOK
  DEF Continue
<1>4. ASSUME NEW c \in Calls, Fails(c) PROVE IInv' BY <1>4, FailsOK
<1>5. CASE SignIn BY <1>5, SignInOK
<1>6. ASSUME NEW a \in Agents, CreateAgent(a) PROVE IInv' BY <1>6, CreateAgentOK
<1>7. ASSUME NEW r \in Rows, AgentActs(r) PROVE IInv' BY <1>7, AgentActsOK
<1> QED BY <1>1, <1>2, <1>3, <1>4, <1>5, <1>6, <1>7 DEF Next

\* The invariant.
THEOREM ErasureInvariant == Spec => []IInv
  BY InitOK, NextOK, PTL DEF Spec

\* Every variable keeps its type.
THEOREM ErasureTyped == Spec => []TypeOK
<1>1. IInv => TypeOK
  BY AgentsAssumption DEF IInv, Typed, CallsOK, CallOK, TypeOK
<1> QED BY <1>1, ErasureInvariant, PTL

\* A step that the marker counts as finished did run.
THEOREM NoStepIsSkipped == Spec => []NoStepSkipped
<1>1. IInv => NoStepSkipped
  <2> HAVE IInv
  <2>1. CASE marker = NoMarker BY <2>1 DEF NoStepSkipped, NoMarker
  <2>2. CASE marker # NoMarker BY <2>2 DEF NoStepSkipped, IInv, MarkerOK
  <2> QED BY <2>1, <2>2
<1> QED BY <1>1, ErasureInvariant, PTL

--------------------------------------------------------------------------------
(***************************************************************************)
(* What the erasure says of itself: its end state and its records.         *)
(*                                                                         *)
(* Every change leaves a trace of the options it was made under (Traces),  *)
(* so that calls that agree cannot have left two kinds.  A row is deleted  *)
(* after its record is written, and the records of calls that agree are    *)
(* the same sets (Group), as what they are made from is settled: in one    *)
(* mode no row is listed before all are rewritten, in the other no row has *)
(* gone before all were listed.                                            *)
(***************************************************************************)
Only(o) == asked \subseteq {o}

Traces ==
  /\ marker # NoMarker => marker.option \in asked
  /\ \A a \in born : /\ owner[a] = "tombstone" => \E o \in asked : o.keep
                     /\ owner[a] = "deleted" => \E o \in asked : ~o.keep
  /\ \A r \in Rows : /\ rows[r] = "anonymous" => \E o \in asked : o.keep
                     /\ rows[r] = "deleted" => \E o \in asked : ~o.keep
  /\ orgs = "tombstone" => \E o \in asked : ~o.orgs
  /\ orgs = "deleted" => \E o \in asked : o.orgs
  /\ ~user => "visit" \notin left /\ ("actor" \in left => \E o \in asked : o.keep)

\* The rewritten rows of version 1 have their records.
LegacyTold == \A r \in Legacy : rows[r] = "anonymous" => NamedIn(r) # {}
\* The step that writes those records is past that.
Past(k) == k.pc # "idle" /\ (k.m.completed >= 4 \/ (k.pc = "save" /\ k.m.completed = 3) \/ k.pc = "scrub")

Told ==
  /\ \A r \in Old : rows[r] = "deleted" => NamedIn(r) # {}
  /\ \A o \in Option : Only(o) /\ marker.completed >= 4 => LegacyTold

\* The rows that the records of calls with option o are made from.
Notes == {Note[a] : a \in Linked \cap born}
Recordable(o) ==
  IF o.keep THEN {r \in Legacy : rows[r] = "anonymous"} ELSE {r \in Old : rows[r] # "none"} \cup Notes
Group(o, r) == {q \in Recordable(o) : On[q] = On[r]}
Groups(o, sets) ==
  /\ \A s \in sets : \A r \in s \cap Old : s = Group(o, r)
  /\ o.keep /\ sets # {} => Raw \cap Old = {}

\* A revocation that has taken effect has its row.
Noted ==
  /\ \A a \in live : owner[a] = "user"
  /\ \A a \in Linked \cap born : a \notin live => rows[Note[a]] # "none"

Grouped ==
  \A o \in Option : Only(o) /\ acts = 0 =>
    /\ Groups(o, records)
    /\ ~o.keep /\ (\E r \in Rows : rows[r] = "deleted") => Raw \cap Old = {}
    /\ \A r \in Rows : rows[r] # "none" => r \in Old \cup Notes

CallTells(k) ==
  /\ k.pc \in Working \/ (k.pc = "first" /\ k.m.done) => k.m.option \in asked
  /\ k.sets # {} => k.pc \in {"record", "sign"}
  /\ k.pc = "sign" => \A r \in Raw \cap Old : NamedIn(r) # {} \/ \E s \in k.sets : r \in s
  /\ k.pc = "drop" => \A r \in Raw \cap Old : NamedIn(r) # {}
  /\ k.pc = "note" => k.agent \in born
  /\ k.pc = "flip" /\ k.agent \in live => rows[Note[k.agent]] # "none"
  /\ \A o \in Option : Only(o) =>
       /\ Past(k) => LegacyTold
       /\ k.pc = "record" =>
            \A r \in Legacy : rows[r] = "anonymous" => NamedIn(r) # {} \/ \E s \in k.sets : r \in s
       /\ acts = 0 => Groups(o, k.sets)

Tells == Traces /\ Told /\ Noted /\ Grouped /\ \A c \in Calls : CallTells(call[c])

\* What every step does at most to what has been told.
Later ==
  /\ asked \subseteq asked' /\ (acts' = 0 => acts = 0) /\ born' = born
  /\ records \subseteq records' /\ live' \subseteq live
  /\ \A r \in Rows : rows[r] # "none" => rows'[r] # "none"
  /\ \A r \in Old : rows[r] # "raw" => rows'[r] = rows[r]

LEMMA LaterMeans ==
  ASSUME IInv, Later
  PROVE  /\ \A o : Only(o)' => Only(o)
         /\ \A r : NamedIn(r) # {} => NamedIn(r)' # {}
         /\ Raw' \cap Old \subseteq Raw
         /\ Notes' = Notes /\ Notes \cap Old = {} /\ Notes \subseteq Rows
         /\ LegacyTold /\ Raw \cap Old = {} => LegacyTold'
         /\ \A o : ~o.keep \/ Raw \cap Old = {} => Recordable(o)' = Recordable(o)
<1>1. \A o : Only(o)' => Only(o) BY DEF Later, Only
<1>2. \A r : NamedIn(r) # {} => NamedIn(r)' # {} BY DEF Later, NamedIn
<1>3. Raw' \cap Old \subseteq Raw BY RowsAssumption DEF Later, Raw
<1>4. Notes' = Notes /\ Notes \cap Old = {} /\ Notes \subseteq Rows BY NoteAssumption DEF Later, Notes
<1>5. Raw \cap Old = {} => \A r \in Old : rows'[r] = rows[r] BY RowsAssumption DEF Later, Raw
<1>6. LegacyTold /\ Raw \cap Old = {} => LegacyTold' BY <1>2, <1>5, RowsAssumption DEF LegacyTold
<1>7. \A r \in Old : rows'[r] # "none" <=> rows[r] # "none" BY RowsAssumption DEF Later
<1>8. ASSUME NEW o, ~o.keep \/ Raw \cap Old = {}
      PROVE  Recordable(o)' = Recordable(o)
  <2>1. CASE o.keep BY <1>5, <1>8, <2>1, RowsAssumption DEF Recordable
  <2>2. CASE ~o.keep BY <1>4, <1>7, <2>2 DEF Recordable
  <2> QED BY <2>1, <2>2
<1> QED BY <1>1, <1>2, <1>3, <1>4, <1>6, <1>8

LEMMA GroupsStay ==
  ASSUME IInv, Later, NEW o, NEW sets, Groups(o, sets)
  PROVE  Groups(o, sets)'
<1>1. CASE sets = {} BY <1>1 DEF Groups
<1>2. CASE sets # {}
  <2>1. ~o.keep \/ Raw \cap Old = {} BY <1>2 DEF Groups
  <2>2. Recordable(o)' = Recordable(o) BY <2>1, LaterMeans
  <2>3. \A r : Group(o, r)' = Group(o, r) BY <2>2 DEF Group
  <2>4. o.keep => Raw' \cap Old = {} BY <2>1, LaterMeans
  <2> QED BY <2>3, <2>4 DEF Groups
<1> QED BY <1>1, <1>2

\* A step that is past the records leaves no old row to be rewritten.
LEMMA PastMeans ==
  ASSUME NEW k, CallOK(k), Past(k) \/ k.pc = "record"
  PROVE  Raw \cap Old = {}
<1>1. CASE k.pc \in {"scrub", "record"} BY <1>1 DEF CallOK, Halfway
<1>2. CASE k.pc = "save" /\ k.m.completed = 3 BY <1>2 DEF CallOK, Halfway, StepDone
<1>3. CASE k.pc # "idle" /\ k.m.completed >= 4
  <2>1. k.pc \in Working \cup {"first"} BY <1>3 DEF CallOK, Call, Lookup, Working
  <2>2. MarkerOK(k.m) BY <2>1 DEF CallOK
  <2> QED BY <1>3, <2>2 DEF MarkerOK, StepDone
<1> QED BY <1>1, <1>2, <1>3 DEF Past

LEMMA CallTellsStays ==
  ASSUME IInv, Later, NEW k, CallOK(k), CallTells(k)
  PROVE  CallTells(k)'
<1>1. k.pc \in Working \/ (k.pc = "first" /\ k.m.done) => k.m.option \in asked' BY DEF CallTells, Later
<1>2. k.pc = "sign" => \A r \in Raw' \cap Old : NamedIn(r)' # {} \/ \E s \in k.sets : r \in s
  BY LaterMeans DEF CallTells
<1>3. k.pc = "drop" => \A r \in Raw' \cap Old : NamedIn(r)' # {} BY LaterMeans DEF CallTells
<1>4. k.pc = "flip" /\ k.agent \in live' => rows'[Note[k.agent]] # "none"
  <2>1. live \subseteq Linked /\ \A a \in Linked : Note[a] \in Rows BY NoteAssumption DEF IInv, Typed
  <2> QED BY <2>1 DEF CallTells, Later
<1>5. ASSUME NEW o \in Option, Only(o)'
      PROVE  /\ Past(k) => LegacyTold'
             /\ k.pc = "record" =>
                  \A r \in Legacy : rows'[r] = "anonymous" => NamedIn(r)' # {} \/ \E s \in k.sets : r \in s
             /\ acts' = 0 => Groups(o, k.sets)'
  <2>1. Only(o) BY <1>5, LaterMeans
  <2>2. Past(k) => LegacyTold' BY <2>1, PastMeans, LaterMeans DEF CallTells
  <2>3. k.pc = "record" => \A r \in Legacy : rows'[r] = rows[r]
    BY PastMeans, RowsAssumption DEF Later, Raw
  <2>4. k.pc = "record" =>
          \A r \in Legacy : rows'[r] = "anonymous" => NamedIn(r)' # {} \/ \E s \in k.sets : r \in s
    BY <2>1, <2>3, LaterMeans DEF CallTells
  <2>5. acts' = 0 => Groups(o, k.sets)' BY <2>1, GroupsStay DEF CallTells, Later
  <2> QED BY <2>2, <2>4, <2>5
<1>6. Past(k)' <=> Past(k) BY DEF Past
<1> QED BY <1>1, <1>2, <1>3, <1>4, <1>5, <1>6 DEF CallTells, Later

\* One call takes a step, and the others still tell.
LEMMA CallsTell ==
  ASSUME IInv, Tells, Later, NEW c \in Calls, NEW k, Sets(c, k), CallTells(k)'
  PROVE  \A d \in Calls : CallTells(call[d])'
<1>1. call' = [d \in Calls |-> IF d = c THEN k ELSE call[d]] BY DEF IInv, CallsOK, Sets
<1>2. \A d \in Calls : \E h : h = call'[d] /\ CallTells(h)'
  <2> TAKE d \in Calls
  <2>1. CASE d = c BY <1>1, <2>1
  <2>2. CASE d # c
    <3>1. PICK h : h = call[d] OBVIOUS
    <3>2. CallTells(h)' BY <3>1, CallTellsStays DEF IInv, CallsOK, Tells
    <3> QED BY <1>1, <2>2, <3>1, <3>2
  <2> QED BY <2>1, <2>2
<1> TAKE d \in Calls
<1>3. PICK h : h = call'[d] /\ CallTells(h)' BY <1>2
<1> QED BY <1>3 DEF CallTells, Past

\* Nor does what has been told change where a step leaves it alone.
LEMMA ToldStays ==
  ASSUME IInv, Tells, Later
  PROVE  /\ UNCHANGED <<owner, rows, orgs, marker, user>> /\ left' \subseteq left => Traces'
         /\ UNCHANGED <<rows, marker>> => Told'
         /\ UNCHANGED <<owner, live, rows>> => Noted'
         /\ UNCHANGED <<rows, records>> => Grouped'
<1>1. UNCHANGED <<owner, rows, orgs, marker, user>> /\ left' \subseteq left => Traces' BY DEF Tells, Traces, Later
<1>2. ASSUME UNCHANGED <<rows, marker>>
      PROVE  Told'
  <2>1. LegacyTold => LegacyTold' BY <1>2, LaterMeans DEF LegacyTold
  <2> QED BY <1>2, <2>1, LaterMeans DEF Tells, Told
<1>3. UNCHANGED <<owner, live, rows>> => Noted' BY DEF Tells, Noted, Later
<1>4. ASSUME UNCHANGED <<rows, records>>
      PROVE  Grouped'
  <2>1. Raw' = Raw BY <1>4 DEF Raw
  <2> SUFFICES ASSUME NEW o \in Option, Only(o)', acts' = 0 PROVE Grouped!(o)!2' BY DEF Grouped
  <2>2. Only(o) /\ acts = 0 BY LaterMeans DEF Later
  <2>3. Groups(o, records)' BY <1>4, <2>2, GroupsStay DEF Tells, Grouped, Groups
  <2> QED BY <1>4, <2>1, <2>2, <2>3, LaterMeans DEF Tells, Grouped
<1> QED BY <1>1, <1>2, <1>3, <1>4

--------------------------------------------------------------------------------
\* A step that leaves all that is told as it is.
LEMMA TellsOn ==
  ASSUME IInv, Tells, NEW c \in Calls, NEW k, Sets(c, k), Later => CallTells(k)',
         UNCHANGED <<user, owner, rows, orgs, marker, records, born, acts, asked>>,
         left' \subseteq left, live' \subseteq live, Noted'
  PROVE  Tells'
<1>1. Later BY DEF Later
<1>2. Traces' /\ Told' /\ Grouped' BY <1>1, ToldStays
<1>3. \A d \in Calls : CallTells(call[d])' BY <1>1, CallsTell
<1> QED BY <1>2, <1>3 DEF Tells

LEMMA ReadTells ==
  ASSUME IInv, Tells, NEW c \in Calls, NEW k, Sets(c, k), CallTells(k), DataStays
  PROVE  Tells'
<1>1. UNCHANGED <<user, owner, active, link, live, rows, records, left, orgs, marker,
                  born, options, failures, acts, asked>>
  BY DEF DataStays, MarkerStays, Stays, data
<1>2. /\ Raw' = Raw /\ (LegacyTold' <=> LegacyTold) /\ \A r : NamedIn(r)' = NamedIn(r)
      /\ \A o : (Only(o)' <=> Only(o)) /\ \A r : Group(o, r)' = Group(o, r)
  BY <1>1 DEF Raw, LegacyTold, NamedIn, Only, Group, Recordable, Notes
<1>3. \A o, sets : Groups(o, sets)' <=> Groups(o, sets) BY <1>2 DEF Groups
<1>4. CallTells(k)' BY <1>1, <1>2, <1>3 DEF CallTells, Past
<1>5. Noted' BY <1>1 DEF Tells, Noted
<1> QED BY <1>1, <1>4, <1>5, TellsOn

\* Calls that have nothing to tell.
LEMMA IdleTells == ASSUME Tells PROVE CallTells(Idle)
<1>1. PICK k : k = Idle OBVIOUS
<1>2. k.pc = "idle" /\ k.sets = {} BY <1>1 DEF Idle
<1>3. "idle" \notin Working BY DEF Working, Steps, Entry, Inner, Saving
<1>4. \A o : Groups(o, {}) BY DEF Groups
<1>5. CallTells(k) BY <1>2, <1>3, <1>4 DEF CallTells, Past
<1> QED BY <1>1, <1>5

LEMMA LookupTells ==
  ASSUME Tells, NEW k, k.pc \in {"owned", "marker", "reread", "first"}, k.m.completed = 0, ~k.m.done, k.sets = {}
  PROVE  CallTells(k)
<1>1. k.pc \notin Working BY DEF Working, Steps, Entry, Inner, Saving
<1>2. \A o : Groups(o, {}) BY DEF Groups
<1> QED BY <1>1, <1>2 DEF CallTells, Past

\* A call that goes on from a marker.
LEMMA ResumedTells ==
  ASSUME NEW m \in Marker, m.option \in asked, \A o \in Option : Only(o) /\ m.completed >= 4 => LegacyTold
  PROVE  CallTells(Resumed(m))
<1>1. PICK k : k = Resumed(m) OBVIOUS
<1>2. k = [pc |-> Entry[m.completed + 1], seen |-> FALSE, m |-> m, agent |-> None, todo |-> {}, sets |-> {}]
  BY <1>1 DEF Resumed, Idle
<1>3. k.pc \in Firsts /\ k.m = m /\ k.sets = {}
  <2>1. k.pc \in Firsts /\ k.m = m BY <1>1, ResumedIs
  <2> QED BY <1>2, <2>1
<1>4. \A o : Groups(o, {}) BY DEF Groups
<1>5. Past(k) => m.completed >= 4 BY <1>3 DEF Past, Firsts
<1>6. k.pc \notin {"first", "sign", "drop", "note", "flip", "record"} BY <1>3 DEF Firsts
<1>7. CallTells(k) BY <1>3, <1>4, <1>5, <1>6 DEF CallTells
<1> QED BY <1>1, <1>7

LEMMA MarkerTells ==
  ASSUME IInv, Tells, marker # NoMarker
  PROVE  CallTells(Resumed(marker))
<1>1. PICK m : m = marker OBVIOUS
<1>2. m \in Marker /\ m.option \in asked /\ \A o \in Option : Only(o) /\ m.completed >= 4 => LegacyTold
  BY <1>1 DEF IInv, MarkerOK, Tells, Traces, Told
<1> QED BY <1>1, <1>2, ResumedTells

LEMMA BeginTells ==
  ASSUME IInv, Tells, NEW c \in Calls, NEW o \in options, Begin(c, o)
  PROVE  \E k : Sets(c, k) /\ CallTells(k)
<1>0. PICK m : m = [NoMarker EXCEPT !.option = o] OBVIOUS
<1>1. PICK k : k = [Idle EXCEPT !.pc = "owned", !.seen = user, !.m = [NoMarker EXCEPT !.option = o]] OBVIOUS
<1>2. k.pc = "owned" /\ k.m.completed = 0 /\ ~k.m.done /\ k.sets = {}
  <2>1. m.completed = 0 /\ m.done = FALSE BY <1>0 DEF NoMarker
  <2>2. k = [Idle EXCEPT !.pc = "owned", !.seen = user, !.m = m] BY <1>0, <1>1
  <2> QED BY <2>1, <2>2 DEF Idle
<1>3. CallTells(k) BY <1>2, LookupTells
<1> QED BY <1>1, <1>3 DEF Begin

\* The reads before the first step, and the save of a marker.
LEMMA LooksTell ==
  ASSUME IInv, Tells, NEW c \in Calls, ReadOwned(c) \/ ReadMarker(c) \/ Reread(c) \/ Throws(c)
  PROVE  Tells'
<1>1. DataStays BY DEF ReadOwned, ReadMarker, Reread, Throws
<1>2. PICK h : h = call[c] OBVIOUS
<1>3. CallOK(h) /\ h \in Call /\ CallTells(h) BY <1>2, CallIs DEF Tells
<1>4. h.pc \in {"owned", "marker", "reread"} => h.m \in Marker /\ h.m.completed = 0 /\ ~h.m.done /\ h.sets = {}
  BY <1>3 DEF CallOK, CallTells
<1>5. CASE Sets(c, Idle) BY <1>1, <1>5, IdleTells, ReadTells
<1>6. CASE marker # NoMarker /\ Sets(c, Resumed(marker))
  <2>1. PICK k : k = Resumed(marker) OBVIOUS
  <2> QED BY <1>1, <1>6, <2>1, MarkerTells, ReadTells
<1>7. ASSUME h.pc \in {"owned", "marker", "reread"}, NEW pc \in {"reread", "first"}, Sets(c, [h EXCEPT !.pc = pc])
      PROVE  Tells'
  <2>1. PICK k : k = [h EXCEPT !.pc = pc] OBVIOUS
  <2>2. k.pc = pc /\ k.m = h.m /\ k.sets = h.sets BY <1>3, <2>1 DEF Call
  <2>3. CallTells(k) BY <1>4, <1>7, <2>2, LookupTells
  <2> QED BY <1>1, <1>7, <2>1, <2>3, ReadTells
<1>8. CASE ReadOwned(c)
  <2>1. PICK k : k = [h EXCEPT !.pc = "marker", !.m.ids = Owned] OBVIOUS
  <2>2. PICK m : m = [h.m EXCEPT !.ids = Owned] OBVIOUS
  <2>3. h.pc = "owned" BY <1>2, <1>8 DEF ReadOwned, At
  <2>4. m.completed = 0 /\ ~m.done BY <1>4, <2>2, <2>3 DEF Marker
  <2>5. k = [h EXCEPT !.pc = "marker", !.m = m] BY <1>3, <2>1, <2>2 DEF Call
  <2>6. k.pc = "marker" /\ k.m = m /\ k.sets = {} BY <1>3, <1>4, <2>3, <2>5 DEF Call
  <2>7. CallTells(k) BY <2>4, <2>6, LookupTells
  <2> QED BY <1>1, <1>2, <1>8, <2>1, <2>7, ReadTells DEF ReadOwned
<1>9. CASE ReadMarker(c)
  <2>1. h.pc = "marker" BY <1>2, <1>9 DEF ReadMarker, At
  <2> QED BY <1>2, <1>5, <1>6, <1>7, <1>9, <2>1 DEF ReadMarker, Resumes, Resumed, Returns, Goes
<1>10. CASE Reread(c)
  <2>1. h.pc = "reread" BY <1>2, <1>10 DEF Reread, At
  <2>2. CASE marker.done /\ Sets(c, [h EXCEPT !.pc = "first", !.m = marker])
    <3>1. PICK k : k = [h EXCEPT !.pc = "first", !.m = marker] OBVIOUS
    <3>2. k.pc = "first" /\ k.m = marker /\ k.sets = {} BY <1>3, <1>4, <2>1, <3>1 DEF Call
    <3>3. marker # NoMarker BY <2>2 DEF NoMarker
    <3>4. marker.option \in asked /\ \A o \in Option : Only(o) /\ marker.completed >= 4 => LegacyTold
      BY <3>3 DEF Tells, Traces, Told
    <3>5. Past(k) => marker.completed >= 4 BY <3>2 DEF Past
    <3>6. "first" \notin Working BY DEF Working, Steps, Entry, Inner, Saving
    <3>7. CallTells(k) BY <3>2, <3>4, <3>5, <3>6 DEF CallTells, Groups
    <3> QED BY <1>1, <2>2, <3>1, <3>7, ReadTells
  <2> QED BY <1>2, <1>6, <1>7, <1>10, <2>1, <2>2 DEF Reread, Resumes, Resumed, Goes
<1>11. CASE Throws(c) BY <1>5, <1>11 DEF Throws, Returns
<1> QED BY <1>8, <1>9, <1>10, <1>11

\* A stored marker tells what the call knows.
LEMMA WritesTell ==
  ASSUME IInv, Tells, NEW c \in Calls, NEW m \in Marker, marker' = m, m.option \in asked',
         asked \subseteq asked', \A o \in Option : Only(o)' /\ m.completed >= 4 => LegacyTold,
         NEW k, Sets(c, k), CallTells(k)',
         UNCHANGED <<data, born, acts>>
  PROVE  Tells'
<1>1. UNCHANGED <<user, owner, active, link, live, rows, records, left, orgs, born, acts>> BY DEF data
<1>2. Later BY <1>1 DEF Later
<1>3. Traces' BY <1>1, <1>2 DEF Tells, Traces, Later
<1>4. Told'
  <2>1. LegacyTold' <=> LegacyTold BY <1>1 DEF LegacyTold, NamedIn
  <2> QED BY <1>1, <2>1 DEF Tells, Told, NamedIn
<1>5. Noted' /\ Grouped' BY <1>1, <1>2, ToldStays
<1> QED BY <1>2, <1>3, <1>4, <1>5, CallsTell DEF Tells

LEMMA SavesTell ==
  ASSUME IInv, Tells, NEW c \in Calls, SaveFirst(c) \/ SaveWrite(c) \/ Finish(c)
  PROVE  Tells'
<1>1. PICK h : h = call[c] OBVIOUS
<1>2. CallOK(h) /\ h \in Call /\ CallTells(h) BY <1>1, CallIs DEF Tells
<1>3. UNCHANGED <<data, born, acts>> BY DEF SaveFirst, SaveWrite, Finish, Stays
<1>4. UNCHANGED <<user, owner, active, link, live, rows, records, left, orgs>> BY <1>3 DEF data
<1>5. LegacyTold' <=> LegacyTold BY <1>4 DEF LegacyTold, NamedIn
<1>6. CASE SaveFirst(c)
  <2>1. h.pc = "first" BY <1>1, <1>6 DEF SaveFirst, At
  <2>2. h.m \in Marker /\ (h.m.done \/ h.m.completed = 0) BY <1>2, <2>1 DEF CallOK, MarkerOK
  <2>3. asked \subseteq asked' /\ h.m.option \in asked'
    BY <1>1, <1>2, <1>6, <2>1 DEF SaveFirst, CallTells
  <2>4. \A o \in Option : Only(o)' /\ h.m.completed >= 4 => LegacyTold
    <3>1. h.m.completed >= 4 => Past(h) BY <2>1 DEF Past
    <3>2. \A o : Only(o)' => Only(o) BY <2>3 DEF Only
    <3> QED BY <1>2, <3>1, <3>2 DEF CallTells
  <2>5. marker' = h.m BY <1>1, <1>6 DEF SaveFirst
  <2>6. CASE Sets(c, Idle)
    <3>1. PICK k : k = Idle OBVIOUS
    <3>2. k.pc = "idle" /\ k.sets = {} BY <3>1 DEF Idle
    <3>3. "idle" \notin Working BY DEF Working, Steps, Entry, Inner, Saving
    <3>4. CallTells(k)' BY <3>2, <3>3 DEF CallTells, Past, Groups
    <3> QED BY <1>3, <2>2, <2>3, <2>4, <2>5, <2>6, <3>1, <3>4, WritesTell
  <2>7. CASE Sets(c, Resumed(h.m))
    <3>1. PICK k : k = Resumed(h.m) OBVIOUS
    <3>2. k = [pc |-> Entry[h.m.completed + 1], seen |-> FALSE, m |-> h.m, agent |-> None, todo |-> {}, sets |-> {}]
      BY <3>1 DEF Resumed, Idle
    <3>3. k.pc \in Firsts /\ k.m = h.m BY <2>2, <3>1, ResumedIs
    <3>4. k.sets = {} BY <3>2
    <3>5. k.pc \notin {"first", "sign", "drop", "note", "flip", "record"} BY <3>3 DEF Firsts
    <3>6. Past(k) => h.m.completed >= 4 BY <3>3 DEF Past, Firsts
    <3>7. CallTells(k)' BY <1>5, <2>3, <2>4, <3>3, <3>4, <3>5, <3>6 DEF CallTells, Groups, Past
    <3> QED BY <1>3, <2>2, <2>3, <2>4, <2>5, <2>7, <3>1, <3>7, WritesTell
  <2> QED BY <1>1, <1>6, <2>6, <2>7 DEF SaveFirst, Returns, Resumes, Resumed
<1>7. CASE SaveWrite(c) \/ Finish(c)
  <2>1. h.pc \in {"write", "finish"} /\ h.pc \in Working /\ h.pc # "idle"
    BY <1>1, <1>7, StepsAre DEF SaveWrite, Finish, At, Working, Saving, Firsts
  <2>2. h.m \in Marker /\ h.m.option \in asked BY <1>2, <2>1 DEF CallOK, MarkerOK, CallTells
  <2>3. \A o \in Option : Only(o) /\ h.m.completed >= 4 => LegacyTold BY <1>2, <2>1 DEF CallTells, Past
  <2>4. asked' = asked /\ \A o : Only(o)' <=> Only(o) BY <1>7 DEF SaveWrite, Finish, Stays, Only
  <2>5. CASE SaveWrite(c)
    <3>1. PICK k : k = Resumed(h.m) OBVIOUS
    <3>2. CallTells(k) BY <2>2, <2>3, <3>1, ResumedTells
    <3>3. Sets(c, k) /\ marker' = h.m BY <1>1, <2>5, <3>1 DEF SaveWrite, Resumes, Resumed
    <3>4. Later BY <1>3, <1>4, <2>4 DEF Later
    <3>5. CallOK(k)
      <4>1. MarkerOK(h.m) /\ ~h.m.done /\ marker # NoMarker BY <1>2, <2>1 DEF CallOK
      <4> QED BY <2>2, <3>1, <4>1, ResumesOK
    <3>6. CallTells(k)' BY <3>2, <3>4, <3>5, CallTellsStays
    <3> QED BY <1>3, <2>2, <2>3, <2>4, <3>3, <3>6, WritesTell
  <2>6. CASE Finish(c)
    <3>1. PICK m : m = [h.m EXCEPT !.done = TRUE, !.ids = {}] OBVIOUS
    <3>2. m \in Marker /\ m.option = h.m.option /\ m.completed = h.m.completed BY <2>2, <3>1 DEF Marker
    <3>3. PICK k : k = Idle OBVIOUS
    <3>4. k.pc = "idle" /\ k.sets = {} BY <3>3 DEF Idle
    <3>5. "idle" \notin Working BY DEF Working, Steps, Entry, Inner, Saving
    <3>6. CallTells(k)' BY <3>4, <3>5 DEF CallTells, Past, Groups
    <3>7. Sets(c, k) /\ marker' = m BY <1>1, <2>6, <3>1, <3>3 DEF Finish, Returns
    <3> QED BY <1>3, <2>2, <2>3, <2>4, <3>2, <3>6, <3>7, WritesTell
  <2> QED BY <1>7, <2>5, <2>6
<1> QED BY <1>6, <1>7

--------------------------------------------------------------------------------
\* A step from one statement to the next that is no list of records.
LEMMA StepTells ==
  ASSUME IInv, Later, NEW h, CallOK(h), CallTells(h), h.pc \in Working,
         NEW k, k.m = h.m, k.pc \in Working \ {"sign", "record"}, k.sets = {},
         k.pc = "drop" => \A r \in Raw' \cap Old : NamedIn(r)' # {},
         k.pc = "note" => k.agent \in born,
         k.pc = "flip" /\ k.agent \in live' => rows'[Note[k.agent]] # "none",
         k.pc = "scrub" \/ (k.pc = "save" /\ k.m.completed = 3) => \A o \in Option : Only(o)' => LegacyTold'
  PROVE  CallTells(k)'
<1>1. k.m.option \in asked' BY DEF CallTells, Later
<1>2. h.pc # "idle" BY DEF Working, Steps, Entry, Inner, Saving
<1>3. ASSUME NEW o \in Option, Only(o)', Past(k)
      PROVE  LegacyTold'
  <2>1. CASE k.pc = "scrub" \/ (k.pc = "save" /\ k.m.completed = 3) BY <1>3, <2>1
  <2>2. CASE k.m.completed >= 4
    <3>1. Past(h) BY <1>2, <2>2 DEF Past
    <3>2. LegacyTold /\ Raw \cap Old = {} BY <1>3, <3>1, LaterMeans, PastMeans DEF CallTells
    <3> QED BY <3>2, LaterMeans
  <2> QED BY <1>3, <2>1, <2>2 DEF Past
<1>4. Past(k)' <=> Past(k) BY DEF Past
<1>5. \A o : Groups(o, {})' BY DEF Groups
<1> QED BY <1>1, <1>3, <1>4, <1>5 DEF CallTells, Later

LEMMA EndedIs ==
  ASSUME NEW m
  PROVE  Ended(m).pc = "save" /\ Ended(m).m = m /\ Ended(m).sets = {}
<1>1. PICK k : k = Ended(m) OBVIOUS
<1>2. k = [pc |-> "save", seen |-> FALSE, m |-> m, agent |-> None, todo |-> {}, sets |-> {}]
  BY <1>1 DEF Ended, Idle
<1> QED BY <1>1, <1>2

\* Where a call that tells is.
LEMMA TellerIs ==
  ASSUME IInv, Tells, NEW c \in Calls, NEW h, h = call[c]
  PROVE  /\ CallOK(h) /\ h \in Call /\ Placed(h) /\ Halfway(h) /\ CallTells(h)
         /\ h.pc \notin {"record", "sign"} => h.sets = {}
BY CallIs DEF Tells, CallTells

\* A step that writes none of what is told.
LEMMA MovesOn ==
  ASSUME IInv, Tells, NEW c \in Calls, NEW h, h = call[c], h.pc \in Working,
         NEW k, Sets(c, k), k.m = h.m, k.pc \in Working \ {"note", "flip", "sign", "drop", "record", "scrub"},
         k.sets = {}, ~(k.pc = "save" /\ k.m.completed = 3),
         UNCHANGED <<user, owner, rows, orgs, marker, records, born, acts, asked, live>>, left' \subseteq left
  PROVE  Tells'
<1>1. Later => CallTells(k)' BY TellerIs, StepTells
<1>2. Noted' BY DEF Tells, Noted
<1> QED BY <1>1, <1>2, TellsOn

LEMMA EndsOn ==
  ASSUME IInv, Tells, NEW c \in Calls, NEW h, h = call[c], h.pc \in Working,
         Ends(c), h.m.completed # 3,
         UNCHANGED <<user, owner, rows, orgs, marker, records, born, acts, asked, live>>, left' \subseteq left
  PROVE  Tells'
<1>1. PICK k : k = Ended(h.m) OBVIOUS
<1>2. k.pc = "save" /\ k.m = h.m /\ k.sets = {} BY <1>1, EndedIs
<1>3. Sets(c, k) BY <1>1 DEF Ends, Ended
<1>4. k.pc \in Working \ {"note", "flip", "sign", "drop", "record", "scrub"} BY <1>2 DEF Working, Saving
<1> QED BY <1>2, <1>3, <1>4, MovesOn

LEMMA DataSame ==
  ASSUME DataStays
  PROVE  /\ UNCHANGED <<user, owner, rows, orgs, marker, records, born, acts, asked, live>>
         /\ left' \subseteq left
BY DEF DataStays, MarkerStays, Stays, data

LEMMA FailsTells ==
  ASSUME IInv, Tells, NEW c \in Calls, Fails(c)
  PROVE  Tells'
<1>1. UNCHANGED <<user, owner, rows, orgs, marker, records, born, acts, asked, live, left>>
  BY DEF Fails, data
<1>2. PICK k : k = Idle OBVIOUS
<1>3. CallTells(k) /\ CallOK(k) BY <1>2, IdleTells, ReturnsOK
<1>4. Later => CallTells(k)' BY <1>3, CallTellsStays
<1>5. Sets(c, k) BY <1>2 DEF Fails, Returns
<1>6. Noted' BY <1>1 DEF Tells, Noted
<1> QED BY <1>1, <1>4, <1>5, <1>6, TellsOn

LEMMA SaveTells ==
  ASSUME IInv, Tells, NEW c \in Calls, Save(c)
  PROVE  Tells'
<1>1. PICK h : h = call[c] OBVIOUS
<1>2. CallOK(h) /\ h \in Call /\ Placed(h) /\ CallTells(h) /\ h.pc = "save" BY <1>1, TellerIs DEF Save, At
<1>3. h.pc \in Working /\ h.m \in Marker /\ h.m.completed \in 0..8
  BY <1>2 DEF Working, Saving, CallOK, MarkerOK, Placed
<1>4. PICK m : m = [h.m EXCEPT !.completed = @ + 1] OBVIOUS
<1>5. m \in Marker /\ m.option = h.m.option /\ m.completed = h.m.completed + 1 BY <1>3, <1>4 DEF Marker
<1>6. m.option \in asked BY <1>2, <1>3, <1>5 DEF CallTells
<1>7. \A o \in Option : Only(o) /\ m.completed >= 4 => LegacyTold
  <2>1. m.completed >= 4 => Past(h) BY <1>2, <1>3, <1>5 DEF Past
  <2> QED BY <1>2, <2>1 DEF CallTells
<1>8. CASE Sets(c, [[Idle EXCEPT !.m = m] EXCEPT !.pc = Entry[m.completed + 1]])
  <2>1. PICK k : k = Resumed(m) OBVIOUS
  <2>2. k = [[Idle EXCEPT !.m = m] EXCEPT !.pc = Entry[m.completed + 1]] BY <2>1 DEF Resumed, Idle
  <2>3. CallTells(k) BY <1>5, <1>6, <1>7, <2>1, ResumedTells
  <2> QED BY <1>8, <2>2, <2>3, ReadTells DEF Save
<1>9. CASE Sets(c, [[Idle EXCEPT !.m = m] EXCEPT !.pc = "write"])
  <2>1. PICK k : k = [[Idle EXCEPT !.m = m] EXCEPT !.pc = "write"] OBVIOUS
  <2>2. k.pc = "write" /\ k.m = m /\ k.sets = {} BY <2>1 DEF Idle
  <2>3. CallTells(k) BY <1>6, <1>7, <2>2 DEF CallTells, Past, Groups
  <2> QED BY <1>9, <2>1, <2>3, ReadTells DEF Save
<1> QED BY <1>1, <1>4, <1>8, <1>9 DEF Save

\* Step 0.
LEMMA RevokeTells ==
  ASSUME IInv, Tells, NEW c \in Calls, Revoke(c)
  PROVE  Tells'
<1>1. PICK h : h = call[c] OBVIOUS
<1>2. h.pc = "revoke" /\ h \in Call /\ h.sets = {} BY <1>1, TellerIs DEF Revoke, At
<1>3. PICK k : k = [h EXCEPT !.pc = "cascade", !.todo = h.m.ids] OBVIOUS
<1>4. k.pc = "cascade" /\ k.m = h.m /\ k.sets = {} BY <1>2, <1>3 DEF Call
<1>5. k.pc \in Working \ {"note", "flip", "sign", "drop", "record", "scrub"} /\ h.pc \in Working
  BY <1>2, <1>4, StepsAre DEF Working, Inner, Firsts
<1>6. Sets(c, k) BY <1>1, <1>3 DEF Revoke
<1>7. UNCHANGED <<user, owner, rows, orgs, marker, records, born, acts, asked, live, left>>
  BY DEF Revoke, MarkerStays, Stays
<1> QED BY <1>1, <1>4, <1>5, <1>6, <1>7, MovesOn

LEMMA CascadeTells ==
  ASSUME IInv, Tells, NEW c \in Calls, Cascade(c)
  PROVE  Tells'
<1>1. PICK h : h = call[c] OBVIOUS
<1>2. CallOK(h) /\ h.pc = "cascade" /\ h \in Call /\ Placed(h) /\ CallTells(h) /\ h.sets = {}
  BY <1>1, TellerIs DEF Cascade, At
<1>3. h.pc \in Working /\ h.m.completed = 0 BY <1>2, StepsAre DEF Working, Inner, Placed
<1>4. CASE Ends(c)
  <2>1. DataStays BY DEF Cascade
  <2>2. h.m.completed # 3 BY <1>3
  <2> QED BY <1>1, <1>3, <1>4, <2>1, <2>2, EndsOn, DataSame
<1>5. ASSUME NEW a \in h.todo, NEW q \in {"cascade", "note", "flip"},
             Sets(c, [h EXCEPT !.agent = a, !.todo = @ \ {a}, !.pc = q]),
             q = "cascade" <=> a \notin live, q = "flip" => rows[Note[a]] # "none"
      PROVE  Tells'
  <2>1. PICK k : k = [h EXCEPT !.agent = a, !.todo = @ \ {a}, !.pc = q] OBVIOUS
  <2>2. k.pc = q /\ k.m = h.m /\ k.sets = {} /\ k.agent = a BY <1>2, <1>5, <2>1 DEF Call
  <2>3. k.pc \in Working \ {"sign", "record", "drop", "scrub", "save"}
    BY <1>5, <2>2, StepsAre DEF Working, Inner
  <2>4. q = "note" => a \in born BY <1>5 DEF IInv, Typed
  <2>5. UNCHANGED <<rows, live, born>> BY DataSame DEF Cascade
  <2>6. Later => CallTells(k)' BY <1>2, <1>3, <1>5, <2>2, <2>3, <2>4, <2>5, StepTells
  <2>7. Noted' BY DataSame DEF Tells, Noted, Cascade
  <2> QED BY <1>5, <2>1, <2>6, <2>7, DataSame, TellsOn DEF Cascade
<1>6. CASE \E a \in h.todo : Sets(c, [h EXCEPT !.agent = a, !.todo = @ \ {a},
                     !.pc = IF a \notin live THEN "cascade"
                            ELSE IF rows[Note[a]] = "none" /\ owner[a] = "user" THEN "note" ELSE "flip"])
  <2>1. PICK a \in h.todo : Sets(c, [h EXCEPT !.agent = a, !.todo = @ \ {a},
                     !.pc = IF a \notin live THEN "cascade"
                            ELSE IF rows[Note[a]] = "none" /\ owner[a] = "user" THEN "note" ELSE "flip"])
    BY <1>6
  <2>2. PICK q : q = IF a \notin live THEN "cascade"
                     ELSE IF rows[Note[a]] = "none" /\ owner[a] = "user" THEN "note" ELSE "flip"
    OBVIOUS
  <2>3. a \in live => owner[a] = "user" BY DEF Tells, Noted
  <2>4. q \in {"cascade", "note", "flip"} /\ (q = "cascade" <=> a \notin live)
        /\ (q = "flip" => rows[Note[a]] # "none") BY <2>2, <2>3
  <2> QED BY <1>5, <2>1, <2>2, <2>4
<1> QED BY <1>1, <1>4, <1>6 DEF Cascade

LEMMA WriteNoteTells ==
  ASSUME IInv, Tells, NEW c \in Calls, WriteNote(c)
  PROVE  Tells'
<1>1. PICK h : h = call[c] OBVIOUS
<1>2. CallOK(h) /\ h.pc = "note" /\ h \in Call /\ Placed(h) /\ Halfway(h) /\ CallTells(h) /\ h.sets = {}
  BY <1>1, TellerIs DEF WriteNote, At
<1>3. h.pc \in Working BY <1>2, StepsAre DEF Working, Inner
<1>4. PICK a : a = h.agent OBVIOUS
<1>5. a \in Linked \cap born BY <1>2, <1>4 DEF Halfway, CallTells
<1>6. PICK n : n = Note[a] OBVIOUS
<1>7. n \in Rows \ Old /\ n \in Notes /\ On[n] = a BY <1>5, <1>6, NoteAssumption DEF Notes
<1>8. UNCHANGED <<user, owner, active, link, live, records, left, orgs, marker, born, acts, asked>>
  BY DEF WriteNote, MarkerStays, Stays
<1>9. rows' = IF user /\ owner[a] # "deleted" THEN [rows EXCEPT ![n] = "raw"] ELSE rows
  BY <1>1, <1>4, <1>6 DEF WriteNote
<1>10. rows \in [Rows -> {"none", "raw", "anonymous", "deleted"}] BY DEF IInv, Typed
<1>11. /\ \A r \in Rows : rows'[r] = rows[r] \/ (r = n /\ rows'[r] = "raw")
       /\ Raw' \cap Old = Raw \cap Old
  BY <1>7, <1>9, <1>10, RowsAssumption DEF Raw
<1>12. Later BY <1>7, <1>8, <1>9, <1>10, RowsAssumption DEF Later
<1>13. Traces' BY <1>8, <1>11 DEF Tells, Traces
<1>14. Told'
  <2>1. LegacyTold' <=> LegacyTold BY <1>7, <1>8, <1>11, RowsAssumption DEF LegacyTold, NamedIn
  <2> QED BY <1>7, <1>8, <1>11, <2>1, RowsAssumption DEF Tells, Told, NamedIn, Only
<1>15. Noted'
  <2>1. \A b \in Linked : Note[b] \in Rows BY NoteAssumption
  <2> QED BY <1>8, <1>11, <2>1 DEF Tells, Noted
<1>16. Grouped'
  <2> SUFFICES ASSUME NEW o \in Option, Only(o)', acts' = 0 PROVE Grouped!(o)!2' BY DEF Grouped
  <2>1. Only(o) /\ acts = 0 BY <1>12, LaterMeans DEF Later
  <2>2. Groups(o, records)' BY <1>8, <1>12, <2>1, GroupsStay DEF Tells, Grouped, Groups
  <2>3. ~o.keep /\ (\E r \in Rows : rows'[r] = "deleted") => Raw' \cap Old = {}
    BY <1>11, <2>1 DEF Tells, Grouped
  <2>4. \A r \in Rows : rows'[r] # "none" => r \in Old \cup Notes'
    BY <1>7, <1>8, <1>11, <2>1 DEF Tells, Grouped, Notes
  <2> QED BY <2>2, <2>3, <2>4
<1>17. PICK k : k = [h EXCEPT !.pc = "flip"] OBVIOUS
<1>18. k.pc = "flip" /\ k.m = h.m /\ k.sets = {} /\ k.agent = a BY <1>2, <1>4, <1>17 DEF Call
<1>19. a \in live' => rows'[Note[a]] # "none"
  <2> HAVE a \in live'
  <2>1. owner[a] = "user" BY <1>8 DEF Tells, Noted
  <2>2. user BY <1>8 DEF IInv, Gone
  <2> QED BY <1>6, <1>7, <1>9, <1>10, <2>1, <2>2
<1>20. k.pc \in Working \ {"sign", "record"} BY <1>18, StepsAre DEF Working, Inner
<1>21. CallTells(k)' BY <1>2, <1>3, <1>12, <1>18, <1>19, <1>20, StepTells
<1>22. Sets(c, k) BY <1>1, <1>17 DEF WriteNote, Goes
<1> QED BY <1>12, <1>13, <1>14, <1>15, <1>16, <1>21, <1>22, CallsTell DEF Tells

LEMMA FlipTells ==
  ASSUME IInv, Tells, NEW c \in Calls, Flip(c)
  PROVE  Tells'
<1>1. PICK h : h = call[c] OBVIOUS
<1>2. CallOK(h) /\ h.pc = "flip" /\ h \in Call /\ Placed(h) /\ CallTells(h) /\ h.sets = {}
  BY <1>1, TellerIs DEF Flip, At
<1>3. h.pc \in Working BY <1>2, StepsAre DEF Working, Inner
<1>4. PICK k : k = [h EXCEPT !.pc = "cascade"] OBVIOUS
<1>5. k.pc = "cascade" /\ k.m = h.m /\ k.sets = {} BY <1>2, <1>4 DEF Call
<1>6. k.pc \in Working \ {"sign", "record", "note", "flip", "drop", "scrub", "save"}
  BY <1>5, StepsAre DEF Working, Inner
<1>7. UNCHANGED <<user, owner, rows, orgs, marker, records, born, acts, asked, left>> /\ live' = live \ {h.agent}
  BY <1>1 DEF Flip, MarkerStays, Stays
<1>8. Later => CallTells(k)' BY <1>2, <1>3, <1>5, <1>6, StepTells
<1>9. Noted'
  <2>1. h.agent \in live => rows[Note[h.agent]] # "none" BY <1>2 DEF CallTells
  <2> QED BY <1>7, <2>1 DEF Tells, Noted
<1>10. Sets(c, k) BY <1>1, <1>4 DEF Flip, Goes
<1> QED BY <1>7, <1>8, <1>9, <1>10, TellsOn

\* Deletions of other rows.
LEMMA DeletesTell ==
  ASSUME IInv, Tells, NEW c \in Calls, NEW pc \in Steps \ {"sign", "record"}, NEW items,
         NEW next \in {"save", "apiKey", "emailed"}, Deletes(c, pc, items, next),
         next = "save" /\ call[c].m.completed = 3 => pc = "scrub"
  PROVE  Tells'
<1>1. PICK h : h = call[c] OBVIOUS
<1>2. CallOK(h) /\ h.pc = pc /\ h \in Call /\ CallTells(h) /\ h.sets = {}
  BY <1>1, TellerIs DEF Deletes, At
<1>3. h.pc \in Working BY <1>2 DEF Working
<1>4. UNCHANGED <<user, owner, rows, orgs, marker, records, born, acts, asked, live>> /\ left' \subseteq left
  BY DEF Deletes, MarkerStays, Stays
<1>5. Noted' BY <1>4 DEF Tells, Noted
<1>6. CASE next = "save"
  <2>1. PICK k : k = Ended(h.m) OBVIOUS
  <2>2. k.pc = "save" /\ k.m = h.m /\ k.sets = {} BY <2>1, EndedIs
  <2>3. Sets(c, k) BY <1>1, <1>6, <2>1 DEF Deletes, Ends, Ended
  <2>4. k.pc \in Working BY <2>2 DEF Working, Saving
  <2>5. ASSUME k.m.completed = 3, NEW o \in Option, Only(o)'
        PROVE  LegacyTold'
    <3>1. Past(h) BY <1>1, <1>2, <1>6, <2>2, <2>5 DEF Past
    <3>2. Only(o) BY <1>4, <2>5 DEF Only
    <3> QED BY <1>2, <1>4, <3>1, <3>2 DEF CallTells, LegacyTold, NamedIn
  <2>6. Later => CallTells(k)' BY <1>2, <1>3, <2>2, <2>4, <2>5, StepTells
  <2> QED BY <1>4, <1>5, <2>3, <2>6, TellsOn
<1>7. CASE next # "save"
  <2>1. PICK k : k = [h EXCEPT !.pc = next] OBVIOUS
  <2>2. k.pc = next /\ k.m = h.m /\ k.sets = {} BY <1>2, <2>1 DEF Call
  <2>3. Sets(c, k) BY <1>1, <1>7, <2>1 DEF Deletes, Goes
  <2>4. k.pc \in Working \ {"note", "flip", "sign", "drop", "record", "scrub", "save"}
    BY <1>7, <2>2, StepsAre DEF Working, Inner
  <2> QED BY <1>1, <1>3, <1>4, <2>2, <2>3, <2>4, MovesOn
<1> QED BY <1>6, <1>7

LEMMA DeletionsTell ==
  ASSUME IInv, Tells, NEW c \in Calls,
         DeleteSessions(c) \/ DeleteKeys(c) \/ Scrub(c) \/ Blank(c) \/ DeletePersonal(c) \/ DeleteEmailed(c)
  PROVE  Tells'
<1>1. PICK h : h = call[c] OBVIOUS
<1>2. Placed(h) BY <1>1, TellerIs
<1>3. {"session", "apiKey", "scrub", "blank", "personal", "emailed"} \subseteq Steps \ {"sign", "record"}
  BY StepsAre DEF Firsts, Inner
<1>4. \A pc, items, next : Deletes(c, pc, items, next) => h.pc = pc BY <1>1 DEF Deletes, At
<1>5. ASSUME NEW pc \in {"apiKey", "blank", "personal", "emailed"}, h.pc = pc
      PROVE  h.m.completed # 3
  BY <1>2, <1>5 DEF Placed
<1>6. CASE DeleteSessions(c)
  <2>1. Deletes(c, "session", {"session", "visit"}, "apiKey") BY <1>6 DEF DeleteSessions
  <2> QED BY <1>3, <2>1, DeletesTell
<1>7. CASE DeleteKeys(c)
  <2>1. Deletes(c, "apiKey", {"apiKey"}, "save") BY <1>7 DEF DeleteKeys
  <2>2. h.m.completed # 3 BY <1>4, <1>5, <2>1
  <2> QED BY <1>1, <1>3, <2>1, <2>2, DeletesTell
<1>8. CASE Scrub(c)
  <2>1. Deletes(c, "scrub", {"named"}, "save") BY <1>8 DEF Scrub
  <2> QED BY <1>3, <2>1, DeletesTell
<1>9. CASE Blank(c)
  <2>1. PICK items : items = IF h.m.option.keep THEN {} ELSE {"named", "actor"} OBVIOUS
  <2>2. Deletes(c, "blank", items, "save") BY <1>1, <1>9, <2>1 DEF Blank
  <2>3. h.m.completed # 3 BY <1>4, <1>5, <2>2
  <2> QED BY <1>1, <1>3, <2>2, <2>3, DeletesTell
<1>10. CASE DeletePersonal(c)
  <2>1. PICK next : next = IF h.seen THEN "emailed" ELSE "save" OBVIOUS
  <2>2. Deletes(c, "personal", {"personal"}, next) BY <1>1, <1>10, <2>1 DEF DeletePersonal
  <2>3. h.m.completed # 3 BY <1>4, <1>5, <2>2
  <2> QED BY <1>1, <1>3, <2>1, <2>2, <2>3, DeletesTell
<1>11. CASE DeleteEmailed(c)
  <2>1. Deletes(c, "emailed", {"emailed"}, "save") BY <1>11 DEF DeleteEmailed
  <2>2. h.m.completed # 3 BY <1>4, <1>5, <2>1
  <2> QED BY <1>1, <1>3, <2>1, <2>2, DeletesTell
<1> QED BY <1>6, <1>7, <1>8, <1>9, <1>10, <1>11

\* Steps 2 and 5.
LEMMA LinksTell ==
  ASSUME IInv, Tells, NEW c \in Calls, Repoint(c) \/ Move(c) \/ ReadEmail(c)
  PROVE  Tells'
<1>1. PICK h : h = call[c] OBVIOUS
<1>2. h.pc \in {"repoint", "move", "email"} BY <1>1 DEF Repoint, Move, ReadEmail, At
<1>3. h.pc \in Working BY <1>2, StepsAre DEF Working, Inner, Firsts
<1>4. h \in Call /\ h.sets = {} /\ h.m.completed # 3
  <2>1. Placed(h) /\ h \in Call /\ h.sets = {} BY <1>1, <1>2, TellerIs
  <2> QED BY <1>2, <2>1 DEF Placed
<1>5. UNCHANGED <<user, owner, rows, orgs, marker, records, born, acts, asked, live, left>>
  BY DEF Repoint, Move, ReadEmail, DataStays, MarkerStays, Stays, data
<1>6. CASE Ends(c) BY <1>1, <1>3, <1>4, <1>5, <1>6, EndsOn
<1>7. ASSUME NEW k \in Call, Sets(c, k), k.m = h.m, k.sets = {}, k.pc \in {"move", "personal"}
      PROVE  Tells'
  <2>1. k.pc \in Working \ {"note", "flip", "sign", "drop", "record", "scrub", "save"}
    BY <1>7, StepsAre DEF Working, Inner
  <2> QED BY <1>1, <1>3, <1>5, <1>7, <2>1, MovesOn
<1>8. CASE Repoint(c)
  <2>1. PICK k : k = [h EXCEPT !.pc = "move", !.todo = h.m.ids] OBVIOUS
  <2>2. h.m \in Marker BY <1>1, <1>3, TellerIs DEF CallOK, MarkerOK
  <2>3. k \in Call /\ k.m = h.m /\ k.sets = {} /\ k.pc = "move"
    BY <1>4, <2>1, <2>2, StepsAre DEF Call, Inner, Marker
  <2>4. Ends(c) \/ Sets(c, k) BY <1>1, <1>8, <2>1 DEF Repoint
  <2> QED BY <1>6, <1>7, <2>3, <2>4
<1>9. CASE Move(c)
  <2>1. h.pc = "move" BY <1>1, <1>9 DEF Move, At
  <2>2. PICK a \in h.todo : Ends(c) \/ Sets(c, [h EXCEPT !.todo = @ \ {a}]) BY <1>1, <1>9 DEF Move
  <2>3. PICK k : k = [h EXCEPT !.todo = @ \ {a}] OBVIOUS
  <2>4. k \in Call /\ k.m = h.m /\ k.sets = {} /\ k.pc = "move" BY <1>4, <2>1, <2>3 DEF Call
  <2> QED BY <1>6, <1>7, <2>2, <2>3, <2>4
<1>10. CASE ReadEmail(c)
  <2>1. PICK k : k = [h EXCEPT !.pc = "personal", !.seen = user] OBVIOUS
  <2>2. k \in Call /\ k.m = h.m /\ k.sets = {} /\ k.pc = "personal"
    BY <1>4, <2>1, StepsAre DEF Call, Inner, IInv, Typed
  <2>3. Sets(c, k) BY <1>1, <1>10, <2>1 DEF ReadEmail
  <2> QED BY <1>7, <2>2, <2>3
<1> QED BY <1>8, <1>9, <1>10

--------------------------------------------------------------------------------
\* Step 3.  Calls that agree agree with each of them.
LEMMA OnlyIs ==
  ASSUME NEW k, k.m.option \in asked, NEW o, Only(o)
  PROVE  o = k.m.option
BY DEF Only

LEMMA ByAgentCovers ==
  ASSUME NEW R
  PROVE  \A r \in R : \E s \in ByAgent(R) : r \in s
<1> TAKE r \in R
<1>1. PICK s : s = {q \in R : On[q] = On[r]} OBVIOUS
<1>2. s \in ByAgent(R) BY <1>1 DEF ByAgent
<1> QED BY <1>1, <1>2

LEMMA AuditTells ==
  ASSUME IInv, Tells, NEW c \in Calls, Audit(c)
  PROVE  Tells'
<1>1. PICK h : h = call[c] OBVIOUS
<1>2. CallOK(h) /\ h.pc = "audit" /\ h \in Call /\ Placed(h) /\ CallTells(h) /\ h.sets = {}
  BY <1>1, TellerIs DEF Audit, At
<1>3. h.pc \in Working /\ h.m.completed = 3 BY <1>2, StepsAre DEF Working, Firsts, Placed
<1>4. MarkerOK(h.m) /\ h.m.option \in asked /\ h.m.option \in Option /\ h.m \in Marker
  BY <1>2, <1>3 DEF CallOK, CallTells, MarkerOK, Marker
<1>5. DataStays BY DEF Audit
<1>6. ASSUME NEW k, Sets(c, k), k.m = h.m, k.sets = {}, k.pc \in {"legacy", "rewrite"}
      PROVE  Tells'
  <2>1. k.pc \in Working \ {"note", "flip", "sign", "drop", "record", "scrub", "save"}
    BY <1>6, StepsAre DEF Working, Inner
  <2> QED BY <1>1, <1>3, <1>5, <1>6, <2>1, DataSame, MovesOn
<1>7. CASE h.m.option.keep
  <2>1. PICK t : t = {On[r] : r \in Raw} \cap h.m.ids OBVIOUS
  <2>2. PICK k : k = [h EXCEPT !.pc = "rewrite", !.todo = t] OBVIOUS
  <2>3. PICK j : j = [h EXCEPT !.pc = "legacy"] OBVIOUS
  <2>4. /\ k.pc = "rewrite" /\ k.m = h.m /\ k.sets = {}
        /\ j.pc = "legacy" /\ j.m = h.m /\ j.sets = {}
    BY <1>2, <2>2, <2>3 DEF Call
  <2>5. Sets(c, k) \/ Sets(c, j) BY <1>1, <1>7, <2>1, <2>2, <2>3 DEF Audit, Goes
  <2> QED BY <1>6, <2>4, <2>5
<1>8. CASE ~h.m.option.keep /\ Raw = {}
  <2>1. PICK k : k = Ended(h.m) OBVIOUS
  <2>2. k.pc = "save" /\ k.m = h.m /\ k.sets = {} BY <2>1, EndedIs
  <2>3. Sets(c, k) BY <1>1, <1>8, <2>1 DEF Audit, Ends, Ended
  <2>4. \A o \in Option : Only(o) => LegacyTold
    <3> SUFFICES ASSUME NEW o \in Option, Only(o) PROVE LegacyTold OBVIOUS
    <3>1. o = h.m.option BY <1>4, OnlyIs
    <3>2. \A r \in Rows : rows[r] # "anonymous" BY <1>8, <3>1 DEF Only, Tells, Traces
    <3> QED BY <3>2, RowsAssumption DEF LegacyTold
  <2>5. CallTells(k) BY <1>4, <2>2, <2>4 DEF CallTells, Groups
  <2> QED BY <1>5, <2>3, <2>5, ReadTells
<1>9. CASE ~h.m.option.keep /\ Raw # {}
  <2>1. PICK sets : sets = ByAgent(Raw) OBVIOUS
  <2>2. PICK k : k = [h EXCEPT !.pc = "sign", !.sets = sets] OBVIOUS
  <2>3. k.pc = "sign" /\ k.m = h.m /\ k.sets = sets BY <1>2, <2>2 DEF Call
  <2>4. Sets(c, k) BY <1>1, <1>9, <2>1, <2>2 DEF Audit
  <2>5. \A r \in Raw : \E s \in sets : r \in s BY <2>1, ByAgentCovers
  <2>6. ASSUME NEW o \in Option, Only(o), acts = 0
        PROVE  Groups(o, sets)
    <3>1. o = h.m.option BY <1>4, <2>6, OnlyIs
    <3>2. ASSUME NEW s \in sets, NEW r \in s \cap Old
          PROVE  s = Group(o, r)
      <4>1. s = {q \in Raw : On[q] = On[r]} /\ r \in Raw BY <2>1, <3>2 DEF ByAgent
      <4>2. \A q \in Rows : rows[q] # "deleted" BY <2>6, <1>9, <3>1, <4>1 DEF Tells, Grouped
      <4>3. \A q \in Rows : rows[q] # "anonymous" BY <1>9, <2>6, <3>1 DEF Only, Tells, Traces
      <4>4. rows \in [Rows -> {"none", "raw", "anonymous", "deleted"}] BY DEF IInv, Typed
      <4>5. \A q \in Rows : rows[q] # "none" <=> q \in Raw BY <4>2, <4>3, <4>4 DEF Raw
      <4>6. Raw \subseteq Old \cup Notes
        BY <2>6, <4>5, <1>9, <3>1 DEF Raw, Tells, Grouped
      <4>7. Notes \subseteq Raw
        <5>1. live = {} BY <1>3, <1>4 DEF MarkerOK, StepDone
        <5>2. \A a \in Linked \cap born : rows[Note[a]] # "none" /\ Note[a] \in Rows
          BY <5>1, NoteAssumption DEF Tells, Noted
        <5> QED BY <4>5, <5>2 DEF Notes
      <4>8. Recordable(o) = Raw
        <5>1. {q \in Old : rows[q] # "none"} = Raw \cap Old BY <4>5, RowsAssumption
        <5> QED BY <1>9, <3>1, <4>6, <4>7, <5>1 DEF Recordable
      <4> QED BY <4>1, <4>8 DEF Group
    <3> QED BY <1>9, <3>1, <3>2 DEF Groups
  <2>7. ~Past(k) BY <1>3, <2>3 DEF Past
  <2>8. CallTells(k) BY <1>4, <2>3, <2>5, <2>6, <2>7 DEF CallTells
  <2> QED BY <1>5, <2>4, <2>8, ReadTells
<1> QED BY <1>7, <1>8, <1>9

LEMMA FindLegacyTells ==
  ASSUME IInv, Tells, NEW c \in Calls, FindLegacy(c)
  PROVE  Tells'
<1>1. PICK h : h = call[c] OBVIOUS
<1>2. CallOK(h) /\ h.pc = "legacy" /\ h \in Call /\ Placed(h) /\ Halfway(h) /\ CallTells(h)
  BY <1>1, TellerIs DEF FindLegacy, At
<1>3. h.pc \in Working /\ h.m.completed = 3 /\ h.m.option.keep /\ Raw \cap Old = {}
  BY <1>2, StepsAre DEF Working, Inner, Placed, Halfway
<1>4. h.m.option \in asked BY <1>2, <1>3 DEF CallTells
<1>5. PICK R : R = {r \in Legacy : rows[r] = "anonymous" /\ NamedIn(r) = {}} OBVIOUS
<1>6. PICK sets : sets = ByAgent(R) OBVIOUS
<1>7. PICK k : k = [h EXCEPT !.pc = "record", !.sets = sets] OBVIOUS
<1>8. k.pc = "record" /\ k.m = h.m /\ k.sets = sets BY <1>2, <1>7 DEF Call
<1>9. Sets(c, k) /\ DataStays BY <1>1, <1>5, <1>6, <1>7 DEF FindLegacy
<1>10. \A r \in R : \E s \in sets : r \in s BY <1>6, ByAgentCovers
<1>11. ASSUME NEW o \in Option, Only(o), acts = 0
       PROVE  Groups(o, sets)
  <2>1. o = h.m.option BY <1>4, <1>11, OnlyIs
  <2>2. Groups(o, records) BY <1>11 DEF Tells, Grouped
  <2>3. ASSUME NEW s \in sets, NEW r \in s \cap Old
        PROVE  s = Group(o, r)
    <3>1. s = {q \in R : On[q] = On[r]} /\ r \in R BY <1>6, <2>3 DEF ByAgent
    <3>2. Recordable(o) = {q \in Legacy : rows[q] = "anonymous"} BY <1>3, <2>1 DEF Recordable
    <3>3. ASSUME NEW q \in Recordable(o), On[q] = On[r], NEW t \in records, q \in t
          PROVE  FALSE
      <4>1. t = Group(o, q) BY <2>2, <3>2, <3>3, RowsAssumption DEF Groups
      <4>2. r \in Group(o, q) BY <1>5, <3>1, <3>2, <3>3 DEF Group
      <4> QED BY <1>5, <3>1, <4>1, <4>2 DEF NamedIn
    <3>4. \A q \in Recordable(o) : On[q] = On[r] => q \in R
      BY <1>5, <3>2, <3>3 DEF NamedIn
    <3> QED BY <1>5, <3>1, <3>2, <3>4 DEF Group
  <2> QED BY <1>3, <2>3 DEF Groups
<1>12. ~Past(k) BY <1>3, <1>8 DEF Past
<1>13. CallTells(k) BY <1>4, <1>5, <1>8, <1>10, <1>11, <1>12 DEF CallTells
<1> QED BY <1>9, <1>13, ReadTells

\* A record that is written is no longer to be written.
LEMMA WriteRecordTells ==
  ASSUME IInv, Tells, NEW c \in Calls, NEW pc, NEW next, WriteRecord(c, pc, next),
         (pc = "record" /\ next = "scrub") \/ (pc = "sign" /\ next = "drop")
  PROVE  Tells'
<1>1. PICK h : h = call[c] OBVIOUS
<1>2. CallOK(h) /\ h \in Call /\ h.pc = pc /\ Placed(h) /\ CallTells(h)
  BY <1>1, TellerIs DEF WriteRecord, At
<1>3. h.pc \in Working /\ h.m.completed = 3 BY <1>2, StepsAre DEF Working, Inner, Placed
<1>4. UNCHANGED <<user, owner, live, rows, left, orgs, marker, born, acts, asked>>
  BY DEF WriteRecord, MarkerStays, Stays
<1>5. CASE h.sets = {} /\ Goes(c, next) /\ UNCHANGED records
  <2>1. PICK k : k = [h EXCEPT !.pc = next] OBVIOUS
  <2>2. k.pc = next /\ k.m = h.m /\ k.sets = {} BY <1>2, <1>5, <2>1 DEF Call
  <2>3. Sets(c, k) BY <1>1, <1>5, <2>1 DEF Goes
  <2>4. k.pc \in Working \ {"sign", "record"} /\ k.pc \notin {"note", "flip", "save"}
    BY <2>2, StepsAre DEF Working, Inner
  <2>5. next = "drop" => \A r \in Raw' \cap Old : NamedIn(r)' # {}
    BY <1>2, <1>4, <1>5 DEF CallTells, Raw, NamedIn
  <2>6. ASSUME next = "scrub", NEW o \in Option, Only(o)'
        PROVE  LegacyTold'
    BY <1>2, <1>4, <1>5, <2>6 DEF CallTells, LegacyTold, NamedIn, Only
  <2>7. Later => CallTells(k)' BY <1>2, <1>3, <2>2, <2>4, <2>5, <2>6, StepTells
  <2>8. Noted' BY <1>4 DEF Tells, Noted
  <2> QED BY <1>4, <1>5, <2>3, <2>7, <2>8, TellsOn
<1>6. ASSUME NEW s \in h.sets, records' = records \cup {s}, Sets(c, [h EXCEPT !.sets = @ \ {s}])
      PROVE  Tells'
  <2>1. PICK k : k = [h EXCEPT !.sets = @ \ {s}] OBVIOUS
  <2>2. k.pc = pc /\ k.m = h.m /\ k.sets = h.sets \ {s} BY <1>2, <2>1 DEF Call
  <2>3. Later BY <1>4, <1>6 DEF Later
  <2>4. CallTells(h)' BY <1>2, <2>3, CallTellsStays
  <2>5. \A r : (NamedIn(r) # {} \/ \E t \in h.sets : r \in t)
               => (NamedIn(r)' # {} \/ \E t \in k.sets : r \in t)
    BY <1>6, <2>2 DEF NamedIn
  <2>6. Raw' = Raw BY <1>4 DEF Raw
  <2>7. pc = "sign" => \A r \in Raw' \cap Old : NamedIn(r)' # {} \/ \E t \in k.sets : r \in t
    BY <1>2, <2>5, <2>6 DEF CallTells
  <2>8. ASSUME NEW o \in Option, Only(o)'
        PROVE  /\ pc = "record" =>
                    \A r \in Legacy : rows'[r] = "anonymous" => NamedIn(r)' # {} \/ \E t \in k.sets : r \in t
               /\ acts' = 0 => Groups(o, h.sets)' /\ Groups(o, k.sets)' /\ Groups(o, records)'
    <3>1. Only(o) BY <2>3, <2>8, LaterMeans
    <3>2. pc = "record" =>
            \A r \in Legacy : rows'[r] = "anonymous" => NamedIn(r)' # {} \/ \E t \in k.sets : r \in t
      BY <1>2, <1>4, <2>5, <3>1 DEF CallTells
    <3>3. ASSUME acts' = 0
          PROVE  Groups(o, h.sets)' /\ Groups(o, k.sets)' /\ Groups(o, records)'
      <4>1. Groups(o, h.sets)' BY <1>2, <1>4, <2>3, <3>1, <3>3, GroupsStay DEF CallTells
      <4>2. Groups(o, k.sets)' BY <2>2, <4>1 DEF Groups
      <4>3. Groups(o, records) BY <1>4, <3>1, <3>3 DEF Tells, Grouped
      <4>4. PICK old : old = records OBVIOUS
      <4>5. Groups(o, old)' BY <2>3, <4>3, <4>4, GroupsStay
      <4>6. records' = old \cup {s} BY <1>6, <4>4
      <4>7. Groups(o, records)' BY <1>6, <4>1, <4>5, <4>6 DEF Groups
      <4> QED BY <4>1, <4>2, <4>7
    <3> QED BY <3>2, <3>3
  <2>9. Past(k)' <=> Past(h) BY <1>2, <2>2 DEF Past
  <2>10. CallTells(k)' BY <1>2, <1>3, <2>2, <2>4, <2>7, <2>8, <2>9 DEF CallTells, Past
  <2>11. Traces' /\ Told' /\ Noted' BY <1>4, <2>3, ToldStays
  <2>12. Grouped'
    <3> SUFFICES ASSUME NEW o \in Option, Only(o)', acts' = 0 PROVE Grouped!(o)!2' BY DEF Grouped
    <3>1. Only(o) BY <2>3, LaterMeans
    <3>2. Notes' = Notes BY <1>4 DEF Notes
    <3> QED BY <1>4, <2>6, <2>8, <3>1, <3>2 DEF Tells, Grouped
  <2>13. Sets(c, k) BY <1>6, <2>1
  <2> QED BY <2>3, <2>10, <2>11, <2>12, <2>13, CallsTell DEF Tells
<1> QED BY <1>1, <1>5, <1>6 DEF WriteRecord

\* Rows that are rewritten or dropped for an option that was asked for.
LEMMA RowsTell ==
  ASSUME IInv, Tells, NEW c \in Calls, NEW k, Sets(c, k), Later => CallTells(k)',
         NEW o \in asked, NEW v, v = IF o.keep THEN "anonymous" ELSE "deleted",
         \A r \in Rows : rows'[r] = rows[r] \/ (rows[r] = "raw" /\ rows'[r] = v),
         ~o.keep => Raw' = {} /\ \A r \in Raw \cap Old : NamedIn(r) # {},
         UNCHANGED <<user, owner, live, records, left, orgs, marker, born, acts, asked>>
  PROVE  Tells'
<1>1. Later BY RowsAssumption DEF Later
<1>2. Traces' BY DEF Tells, Traces
<1>3. ASSUME NEW q \in Option, Only(q)', marker'.completed >= 4
      PROVE  LegacyTold'
  <2>1. marker # NoMarker BY <1>3 DEF NoMarker
  <2>2. Raw \cap Old = {} BY <1>3, <2>1 DEF IInv, MarkerOK, StepDone
  <2>3. LegacyTold BY <1>1, <1>3, LaterMeans DEF Tells, Told
  <2> QED BY <1>1, <2>2, <2>3, LaterMeans
<1>4. \A r \in Old : rows'[r] = "deleted" => NamedIn(r)' # {}
  <2> SUFFICES ASSUME NEW r \in Old, rows'[r] = "deleted" PROVE NamedIn(r)' # {} OBVIOUS
  <2>1. CASE rows[r] = "deleted" BY <1>1, <2>1, LaterMeans DEF Tells, Told
  <2>2. CASE rows[r] # "deleted"
    <3>1. r \in Raw \cap Old /\ ~o.keep BY <2>2, RowsAssumption DEF Raw
    <3> QED BY <1>1, <3>1, LaterMeans
  <2> QED BY <2>1, <2>2
<1>5. Told' BY <1>3, <1>4 DEF Told
<1>6. Noted'
  <2>1. \A b \in Linked : Note[b] \in Rows BY NoteAssumption
  <2> QED BY <2>1 DEF Tells, Noted
<1>7. Grouped'
  <2> SUFFICES ASSUME NEW q \in Option, Only(q)', acts' = 0 PROVE Grouped!(q)!2' BY DEF Grouped
  <2>1. Only(q) /\ acts = 0 /\ q = o BY <1>1, LaterMeans DEF Only
  <2>2. Groups(q, records) BY <2>1 DEF Tells, Grouped
  <2>3. PICK old : old = records OBVIOUS
  <2>4. Groups(q, old)' BY <1>1, <2>2, <2>3, GroupsStay
  <2>5. Groups(q, records)' BY <2>3, <2>4 DEF Groups
  <2>6. ~q.keep => Raw' \cap Old = {} BY <2>1
  <2>7. \A r \in Rows : rows'[r] # "none" => r \in Old \cup Notes' BY <2>1 DEF Tells, Grouped, Notes
  <2> QED BY <2>5, <2>6, <2>7
<1>8. \A d \in Calls : CallTells(call[d])' BY <1>1, CallsTell
<1> QED BY <1>2, <1>5, <1>6, <1>7, <1>8 DEF Tells

LEMMA RewriteTells ==
  ASSUME IInv, Tells, NEW c \in Calls, Rewrite(c) \/ RewriteRest(c)
  PROVE  Tells'
<1>1. PICK h : h = call[c] OBVIOUS
<1>2. h.pc \in {"rewrite", "rest"} BY <1>1 DEF Rewrite, RewriteRest, At
<1>3. CallOK(h) /\ h \in Call /\ Placed(h) /\ Halfway(h) /\ CallTells(h) /\ h.sets = {} BY <1>1, <1>2, TellerIs
<1>4. h.pc \in Working /\ h.m.completed = 3 /\ h.m.option.keep
  BY <1>2, <1>3, StepsAre DEF Working, Inner, Placed, Halfway
<1>5. h.m.option \in asked BY <1>3, <1>4 DEF CallTells
<1>6. UNCHANGED <<user, owner, live, records, left, orgs, marker, born, acts, asked>>
  BY DEF Rewrite, RewriteRest, MarkerStays, Stays
<1>7. ASSUME NEW k, Sets(c, k), k.m = h.m, k.sets = {}, k.pc \in {"rewrite", "rest", "legacy"},
             rows' = rows \/ \E R : Rewrites(R)
      PROVE  Tells'
  <2>1. k.pc \in Working \ {"note", "flip", "sign", "drop", "record", "scrub", "save"}
    BY <1>7, StepsAre DEF Working, Inner
  <2>2. Later => CallTells(k)' BY <1>3, <1>4, <1>7, <2>1, StepTells
  <2>3. \A r \in Rows : rows'[r] = rows[r] \/ (rows[r] = "raw" /\ rows'[r] = "anonymous")
    BY <1>7 DEF Rewrites, Raw
  <2> QED BY <1>4, <1>5, <1>6, <1>7, <2>2, <2>3, RowsTell
<1>8. CASE Rewrite(c)
  <2>1. h.pc = "rewrite" BY <1>1, <1>8 DEF Rewrite, At
  <2>2. ASSUME NEW a \in h.todo, Rewrites({r \in Rows : On[r] = a}), Sets(c, [h EXCEPT !.todo = @ \ {a}])
        PROVE  Tells'
    <3>1. PICK k : k = [h EXCEPT !.todo = @ \ {a}] OBVIOUS
    <3>2. k.pc = "rewrite" /\ k.m = h.m /\ k.sets = {} BY <1>3, <2>1, <3>1 DEF Call
    <3> QED BY <1>7, <2>2, <3>1, <3>2
  <2>3. CASE Goes(c, "rest") /\ UNCHANGED rows
    <3>1. PICK k : k = [h EXCEPT !.pc = "rest"] OBVIOUS
    <3>2. k.pc = "rest" /\ k.m = h.m /\ k.sets = {} BY <1>3, <3>1 DEF Call
    <3>3. Sets(c, k) BY <1>1, <2>3, <3>1 DEF Goes
    <3> QED BY <1>7, <2>3, <3>2, <3>3
  <2> QED BY <1>1, <1>8, <2>2, <2>3 DEF Rewrite
<1>9. CASE RewriteRest(c)
  <2>1. PICK k : k = [h EXCEPT !.pc = "legacy"] OBVIOUS
  <2>2. k.pc = "legacy" /\ k.m = h.m /\ k.sets = {} BY <1>3, <2>1 DEF Call
  <2>3. Sets(c, k) BY <1>1, <1>9, <2>1 DEF RewriteRest, Goes
  <2>4. Rewrites(Rows) BY <1>9 DEF RewriteRest
  <2> QED BY <1>7, <2>2, <2>3, <2>4
<1> QED BY <1>8, <1>9

LEMMA DropRowsTells ==
  ASSUME IInv, Tells, NEW c \in Calls, DropRows(c)
  PROVE  Tells'
<1>1. PICK h : h = call[c] OBVIOUS
<1>2. CallOK(h) /\ h.pc = "drop" /\ h \in Call /\ Placed(h) /\ Halfway(h) /\ CallTells(h) /\ h.sets = {}
  BY <1>1, TellerIs DEF DropRows, At
<1>3. h.pc \in Working /\ h.m.completed = 3 /\ ~h.m.option.keep
  BY <1>2, StepsAre DEF Working, Inner, Placed, Halfway
<1>4. h.m.option \in asked BY <1>2, <1>3 DEF CallTells
<1>5. UNCHANGED <<user, owner, live, records, left, orgs, marker, born, acts, asked>>
  BY DEF DropRows, MarkerStays, Stays
<1>6. /\ \A r \in Rows : rows'[r] = rows[r] \/ (rows[r] = "raw" /\ rows'[r] = "deleted")
      /\ Raw' = {} /\ \A r \in Raw \cap Old : NamedIn(r) # {}
  BY <1>2 DEF DropRows, Raw, CallTells
<1>7. PICK k : k = Ended(h.m) OBVIOUS
<1>8. k.pc = "save" /\ k.m = h.m /\ k.sets = {} BY <1>7, EndedIs
<1>9. Sets(c, k) BY <1>1, <1>7 DEF DropRows, Ends, Ended
<1>10. k.pc \in Working BY <1>8 DEF Working, Saving
<1>11. ASSUME NEW o \in Option, Only(o)'
       PROVE  LegacyTold'
  <2>1. Only(o) BY <1>5, <1>11 DEF Only
  <2>2. o = h.m.option BY <1>4, <2>1, OnlyIs
  <2>3. \A r \in Rows : rows[r] # "anonymous" BY <1>3, <2>1, <2>2 DEF Only, Tells, Traces
  <2> QED BY <1>6, <2>3, RowsAssumption DEF LegacyTold
<1>12. Later => CallTells(k)' BY <1>2, <1>3, <1>8, <1>10, <1>11, StepTells
<1> QED BY <1>3, <1>4, <1>5, <1>6, <1>9, <1>12, RowsTell

--------------------------------------------------------------------------------
\* Steps 6 to 8: what changes hands.
LEMMA HandsTell ==
  ASSUME IInv, Tells, NEW c \in Calls, NEW h, h = call[c], h.pc \in {"orgs", "agents", "owners", "user"},
         NEW k, Sets(c, k), k.m = h.m, k.pc \in {"save", "owners"}, k.sets = {},
         UNCHANGED <<live, rows, records, marker, born, acts, asked>>, Traces', Noted'
  PROVE  Tells'
<1>1. h.m.completed # 3 /\ CallOK(h) /\ CallTells(h)
  <2>1. Placed(h) /\ CallOK(h) /\ CallTells(h) BY TellerIs
  <2> QED BY <2>1 DEF Placed
<1>2. h.pc \in Working /\ k.pc \in Working \ {"sign", "record", "drop", "note", "flip", "scrub"}
  BY StepsAre DEF Working, Saving, Firsts, Inner
<1>3. Later BY DEF Later
<1>4. CallTells(k)' BY <1>1, <1>2, <1>3, StepTells
<1>5. Told' /\ Grouped' BY <1>3, ToldStays
<1> QED BY <1>3, <1>4, <1>5, CallsTell DEF Tells

LEMMA LastStepsTell ==
  ASSUME IInv, Tells, NEW c \in Calls,
         DeleteOrgs(c) \/ MoveAgents(c) \/ MoveOwned(c) \/ DeleteUserRow(c)
  PROVE  Tells'
<1>1. PICK h : h = call[c] OBVIOUS
<1>2. h.pc \in {"orgs", "agents", "owners", "user"}
  BY <1>1 DEF DeleteOrgs, MoveAgents, MoveOwned, DeleteUserRow, At
<1>3. CallOK(h) /\ h \in Call /\ Placed(h) /\ CallTells(h) /\ h.sets = {} BY <1>1, <1>2, TellerIs
<1>4. h.pc \in Working BY <1>2, StepsAre DEF Working, Firsts, Inner
<1>5. h.m.option \in asked /\ MarkerOK(h.m) BY <1>3, <1>4 DEF CallTells, CallOK
<1>6. UNCHANGED <<live, rows, records, marker, born, acts, asked>>
  BY DEF DeleteOrgs, MoveAgents, MoveOwned, DeleteUserRow, MarkerStays, Stays
<1>7. ASSUME NEW k, k = Ended(h.m) \/ k = [h EXCEPT !.pc = "owners"], Sets(c, k), Traces', Noted'
      PROVE  Tells'
  <2>1. k.m = h.m /\ k.pc \in {"save", "owners"} /\ k.sets = {} BY <1>3, <1>7, EndedIs DEF Call
  <2> QED BY <1>1, <1>2, <1>6, <1>7, <2>1, HandsTell
<1>8. PICK k : k = Ended(h.m) OBVIOUS
<1>9. Ends(c) => Sets(c, k) BY <1>1, <1>8 DEF Ends, Ended
<1>10. CASE DeleteOrgs(c)
  <2>1. UNCHANGED <<user, owner, left>> /\ Ends(c) BY <1>10 DEF DeleteOrgs
  <2>2. orgs' = IF h.m.option.orgs /\ orgs = "user" THEN "deleted" ELSE orgs BY <1>1, <1>10 DEF DeleteOrgs
  <2>3. Traces' BY <1>5, <1>6, <2>1, <2>2 DEF Tells, Traces
  <2>4. Noted' BY <1>6, <2>1 DEF Tells, Noted
  <2> QED BY <1>7, <1>8, <1>9, <2>1, <2>3, <2>4
<1>11. CASE MoveOwned(c)
  <2>1. UNCHANGED <<user, owner>> /\ left' \subseteq left /\ Ends(c) BY <1>11 DEF MoveOwned
  <2>2. orgs' = IF orgs = "user" THEN "tombstone" ELSE orgs BY <1>11 DEF MoveOwned
  <2>3. orgs = "user" => ~h.m.option.orgs
    <3>1. h.pc = "owners" BY <1>1, <1>11 DEF MoveOwned, At
    <3>2. h.m.completed = 7 BY <1>3, <3>1 DEF Placed
    <3>3. StepDone(7, h.m.option) BY <1>5, <3>2 DEF MarkerOK
    <3> QED BY <3>3 DEF StepDone
  <2>4. Traces' BY <1>5, <1>6, <2>1, <2>2, <2>3 DEF Tells, Traces
  <2>5. Noted' BY <1>6, <2>1 DEF Tells, Noted
  <2> QED BY <1>7, <1>8, <1>9, <2>1, <2>4, <2>5
<1>12. CASE DeleteUserRow(c)
  <2>1. UNCHANGED <<owner, orgs, left>> /\ Ends(c) BY <1>12 DEF DeleteUserRow
  <2>2. "visit" \notin left BY <1>12 DEF DeleteUserRow, UserRefs, Tells, Traces
  <2>3. "actor" \in left => h.m.option.keep
    <3>1. h.pc = "user" BY <1>1, <1>12 DEF DeleteUserRow, At
    <3>2. h.m.completed = 8 BY <1>3, <3>1 DEF Placed
    <3>3. StepDone(5, h.m.option) BY <1>5, <3>2 DEF MarkerOK
    <3> QED BY <3>3 DEF StepDone
  <2>4. Traces' BY <1>5, <1>6, <2>1, <2>2, <2>3 DEF Tells, Traces
  <2>5. Noted' BY <1>6, <2>1 DEF Tells, Noted
  <2> QED BY <1>7, <1>8, <1>9, <2>1, <2>4, <2>5
<1>13. CASE MoveAgents(c)
  <2>1. UNCHANGED <<user, orgs, left>> BY <1>13 DEF MoveAgents
  <2>2. \/ owner' = owner
        \/ owner' = [a \in Agents |-> IF a \notin Owned THEN owner[a]
                                      ELSE IF h.m.option.keep THEN "tombstone" ELSE "deleted"]
    BY <1>1, <1>13 DEF MoveAgents
  <2>3. born \subseteq Agents BY AgentsAssumption DEF IInv, Typed
  <2>4. \A a \in born : owner'[a] = owner[a] \/ owner'[a] = IF h.m.option.keep THEN "tombstone" ELSE "deleted"
    BY <2>2, <2>3
  <2>5. Traces' BY <1>5, <1>6, <2>1, <2>4 DEF Tells, Traces
  <2>6. live = {}
    <3>1. h.pc = "agents" BY <1>1, <1>13 DEF MoveAgents, At
    <3>2. h.m.completed = 7 BY <1>3, <3>1 DEF Placed
    <3>3. StepDone(1, h.m.option) BY <1>5, <3>2 DEF MarkerOK
    <3> QED BY <3>3 DEF StepDone
  <2>7. Noted' BY <1>6, <2>6 DEF Tells, Noted
  <2>8. PICK j : j = [h EXCEPT !.pc = "owners"] OBVIOUS
  <2>9. Sets(c, j) BY <1>1, <1>13, <2>8 DEF MoveAgents, Goes
  <2> QED BY <1>7, <2>5, <2>7, <2>8, <2>9
<1> QED BY <1>10, <1>11, <1>12, <1>13

--------------------------------------------------------------------------------
\* What goes on meanwhile.
LEMMA MeanwhileTells ==
  ASSUME IInv, Tells, Later, UNCHANGED call, Traces', Told', Noted', Grouped'
  PROVE  Tells'
<1>1. \A d \in Calls : CallTells(call[d])'
  <2> TAKE d \in Calls
  <2>1. PICK h : h = call[d] OBVIOUS
  <2>2. CallTells(h)' BY <2>1, CallTellsStays, TellerIs
  <2> QED BY <2>1, <2>2 DEF CallTells, Past
<1> QED BY <1>1 DEF Tells

LEMMA ActsTell ==
  ASSUME IInv, Tells, SignIn \/ (\E a \in Agents : CreateAgent(a)) \/ (\E r \in Rows : AgentActs(r))
  PROVE  Tells'
<1>1. acts' # 0 /\ user /\ UNCHANGED <<user, live, records, orgs, marker, call, born, asked>>
  <2>1. acts \in Nat BY BoundsAssumption DEF IInv, Typed
  <2> QED BY <2>1 DEF SignIn, CreateAgent, AgentActs, Acts
<1>2. rows \in [Rows -> {"none", "raw", "anonymous", "deleted"}] BY DEF IInv, Typed
<1>3. /\ \A r \in Rows : rows'[r] = rows[r] \/ (r \notin Old /\ rows[r] = "none" /\ rows'[r] = "raw")
      /\ \A a \in born : owner'[a] = owner[a]
  <2>1. CASE SignIn BY <2>1 DEF SignIn
  <2>2. CASE \E r \in Rows : AgentActs(r) BY <1>2, <2>2 DEF AgentActs
  <2>3. CASE \E a \in Agents : CreateAgent(a)
    <3>1. PICK a \in Agents : CreateAgent(a) BY <2>3
    <3>2. a \notin born BY <3>1 DEF CreateAgent, IInv, Handed
    <3>3. born \subseteq Agents /\ owner \in [Agents -> {"none", "user", "tombstone", "deleted"}]
      BY AgentsAssumption DEF IInv, Typed
    <3> QED BY <3>1, <3>2, <3>3 DEF CreateAgent
  <2> QED BY <2>1, <2>2, <2>3
<1>4. Later BY <1>1, <1>2, <1>3, RowsAssumption DEF Later
<1>5. Traces' BY <1>1, <1>3 DEF Tells, Traces
<1>6. Told'
  <2>1. LegacyTold' <=> LegacyTold BY <1>1, <1>3, RowsAssumption DEF LegacyTold, NamedIn
  <2> QED BY <1>1, <1>3, <2>1, RowsAssumption DEF Tells, Told, NamedIn, Only
<1>7. Noted'
  <2>1. live \subseteq born /\ \A a \in Linked : Note[a] \in Rows BY NoteAssumption DEF IInv, Typed
  <2> QED BY <1>1, <1>3, <2>1 DEF Tells, Noted
<1>8. Grouped' BY <1>1 DEF Grouped
<1> QED BY <1>1, <1>4, <1>5, <1>6, <1>7, <1>8, MeanwhileTells

LEMMA InitTells == ASSUME Init PROVE Tells
<1>1. born \subseteq Agents BY AgentsAssumption DEF Init
<1>2. \A a \in born : owner[a] = "user" BY <1>1 DEF Init
<1>3. \A r \in Rows : rows[r] \in {"raw", "none"} /\ (rows[r] # "none" => r \in Old) BY DEF Init
<1>4. Traces BY <1>2, <1>3 DEF Init, Traces
<1>5. Told
  <2>1. NoMarker.completed = 0 BY DEF NoMarker
  <2> QED BY <1>3, <2>1, RowsAssumption DEF Init, Told
<1>6. Noted BY <1>2 DEF Init, Noted
<1>7. Grouped BY <1>3 DEF Init, Grouped, Groups
<1>8. \A c \in Calls : CallTells(call[c])
  <2> TAKE c \in Calls
  <2>1. PICK k : k = Idle OBVIOUS
  <2>2. k.pc = "idle" /\ k.sets = {} BY <2>1 DEF Idle
  <2>3. "idle" \notin Working BY DEF Working, Steps, Entry, Inner, Saving
  <2>4. CallTells(k) BY <2>2, <2>3 DEF CallTells, Past, Groups
  <2> QED BY <2>1, <2>4 DEF Init
<1> QED BY <1>4, <1>5, <1>6, <1>7, <1>8 DEF Tells

LEMMA NextTells == IInv /\ Tells /\ [Next]_vars => Tells'
<1> SUFFICES ASSUME IInv, Tells, [Next]_vars PROVE Tells' OBVIOUS
<1>1. CASE UNCHANGED vars
  <2>1. UNCHANGED <<user, owner, active, link, live, rows, records, left, orgs, marker, call, born,
                    options, failures, acts, asked>>
    BY <1>1 DEF vars, data
  <2>2. Later BY <2>1 DEF Later
  <2> QED BY <2>1, <2>2, ToldStays, MeanwhileTells
<1>2. ASSUME NEW c \in Calls, NEW o \in options, Begin(c, o) PROVE Tells'
  <2>1. DataStays BY <1>2 DEF Begin
  <2> QED BY <1>2, <2>1, BeginTells, ReadTells
<1>3. ASSUME NEW c \in Calls, Continue(c) PROVE Tells'
  BY <1>3, LooksTell, SavesTell, SaveTells, RevokeTells, CascadeTells, WriteNoteTells, FlipTells,
     DeletionsTell, LinksTell, AuditTells, RewriteTells, FindLegacyTells, WriteRecordTells, DropRowsTells,
     LastStepsTell
  DEF Continue
<1>4. ASSUME NEW c \in Calls, Fails(c) PROVE Tells' BY <1>4, FailsTells
<1>5. CASE SignIn \/ (\E a \in Agents : CreateAgent(a)) \/ (\E r \in Rows : AgentActs(r)) BY <1>5, ActsTell
<1> QED BY <1>1, <1>2, <1>3, <1>4, <1>5 DEF Next

\* The erasure tells what it did.
THEOREM ErasureTells == Spec => []Tells
<1>1. Init => IInv /\ Tells BY InitOK, InitTells
<1>2. IInv /\ Tells /\ [Next]_vars => (IInv /\ Tells)' BY NextOK, NextTells
<1> QED BY <1>1, <1>2, PTL DEF Spec

LEMMA OptionsAreFinite == \A S : S \subseteq Option => IsFiniteSet(S)
<1>1. PICK t, u, v, w : t = [keep |-> TRUE, orgs |-> TRUE] /\ u = [keep |-> TRUE, orgs |-> FALSE]
                        /\ v = [keep |-> FALSE, orgs |-> TRUE] /\ w = [keep |-> FALSE, orgs |-> FALSE]
  OBVIOUS
<1>2. IsFiniteSet({}) BY FS_EmptySet
<1>3. IsFiniteSet({} \cup {t}) BY <1>2, FS_AddElement
<1>4. IsFiniteSet(({} \cup {t}) \cup {u}) BY <1>3, FS_AddElement
<1>5. IsFiniteSet((({} \cup {t}) \cup {u}) \cup {v}) BY <1>4, FS_AddElement
<1>6. IsFiniteSet(((({} \cup {t}) \cup {u}) \cup {v}) \cup {w}) BY <1>5, FS_AddElement
<1>7. Option \subseteq ((({} \cup {t}) \cup {u}) \cup {v}) \cup {w} BY <1>1 DEF Option
<1> QED BY <1>6, <1>7, FS_Subset

\* If all calls that began it had the same options.
LEMMA OneIsAsked ==
  ASSUME IInv, Cardinality(asked) = 1
  PROVE  \E o \in Option : asked = {o} /\ Only(o)
<1>1. asked \subseteq Option BY OffersAssumption DEF IInv, Typed, Option
<1>2. IsFiniteSet(asked) BY <1>1, OptionsAreFinite
<1>3. PICK o : asked = {o} BY <1>2, FS_Singleton
<1> QED BY <1>1, <1>3 DEF Only

\* Every old row that is deleted, and every rewritten one of version 1 once the
\* step is finished, is named by a record, and by only one.
THEOREM RecordsAreKept == Spec => []RecordsTell
<1>1. IInv /\ Tells => RecordsTell
  <2> SUFFICES ASSUME IInv, Tells, NEW r \in Old
               PROVE  /\ rows[r] = "deleted" => NamedIn(r) # {}
                      /\ Cardinality(asked) = 1 /\ marker.completed >= 4 /\ r \in Legacy /\ rows[r] = "anonymous"
                           => NamedIn(r) # {}
                      /\ Cardinality(asked) = 1 /\ acts = 0 => Cardinality(NamedIn(r)) <= 1
    BY DEF RecordsTell
  <2>1. rows[r] = "deleted" => NamedIn(r) # {} BY DEF Tells, Told
  <2>2. Cardinality(asked) = 1 /\ marker.completed >= 4 /\ r \in Legacy /\ rows[r] = "anonymous"
          => NamedIn(r) # {}
    BY OneIsAsked DEF Tells, Told, LegacyTold
  <2>3. ASSUME Cardinality(asked) = 1, acts = 0
        PROVE  Cardinality(NamedIn(r)) <= 1
    <3>1. PICK o \in Option : Only(o) BY <2>3, OneIsAsked
    <3>2. Groups(o, records) BY <2>3, <3>1 DEF Tells, Grouped
    <3>3. PICK g : g = Group(o, r) OBVIOUS
    <3>4. NamedIn(r) \subseteq {g} BY <3>2, <3>3 DEF NamedIn, Groups
    <3>5. IsFiniteSet({g}) /\ Cardinality({g}) = 1 BY FS_Singleton
    <3> QED BY <3>4, <3>5, FS_Subset
  <2> QED BY <2>1, <2>2, <2>3
<1> QED BY <1>1, ErasureInvariant, ErasureTells, PTL

\* A finished erasure leaves what an uninterrupted one leaves.
THEOREM EndsTheSame == Spec => []EndsAsAsked
<1>1. IInv /\ Tells => EndsAsAsked
  <2> SUFFICES ASSUME IInv, Tells, marker.done
               PROVE  /\ ~user
                      /\ \A o \in options : asked = {o} =>
                           /\ \A a \in born : owner[a] = IF o.keep THEN "tombstone" ELSE "deleted"
                           /\ \A r \in Old : rows[r] \in {"none", IF o.keep THEN "anonymous" ELSE "deleted"}
                           /\ orgs = IF o.orgs THEN "deleted" ELSE "tombstone"
                           /\ left \subseteq IF o.keep THEN {"actor"} ELSE {}
    BY DEF EndsAsAsked
  <2>1. marker # NoMarker BY DEF NoMarker
  <2>2. MarkerOK(marker) /\ marker.completed = 9 /\ marker.option \in asked
    BY <2>1 DEF IInv, MarkerOK, Tells, Traces
  <2>3. \A i \in 1..9 : StepDone(i, marker.option) BY <2>2 DEF MarkerOK
  <2>4. ~user BY <2>3 DEF StepDone
  <2> SUFFICES ASSUME NEW o \in options, asked = {o}
               PROVE  /\ \A a \in born : owner[a] = IF o.keep THEN "tombstone" ELSE "deleted"
                      /\ \A r \in Old : rows[r] \in {"none", IF o.keep THEN "anonymous" ELSE "deleted"}
                      /\ orgs = IF o.orgs THEN "deleted" ELSE "tombstone"
                      /\ left \subseteq IF o.keep THEN {"actor"} ELSE {}
    BY <2>4
  <2>5. marker.option = o BY <2>2
  <2>6. \A a \in born : owner[a] = IF o.keep THEN "tombstone" ELSE "deleted"
    <3>1. Owned \cap born = {} BY <2>3 DEF StepDone
    <3>2. \A a \in born : owner[a] \in {"tombstone", "deleted"}
      BY <3>1, AgentsAssumption DEF IInv, Typed, Handed, Owned
    <3> QED BY <3>2 DEF Tells, Traces
  <2>7. \A r \in Old : rows[r] \in {"none", IF o.keep THEN "anonymous" ELSE "deleted"}
    <3>1. Raw \cap Old = {} BY <2>3 DEF StepDone
    <3>2. \A r \in Old : r \in Rows /\ rows[r] \in {"none", "anonymous", "deleted"}
      BY <3>1, RowsAssumption DEF IInv, Typed, Raw
    <3> QED BY <3>2 DEF Tells, Traces
  <2>8. orgs = IF o.orgs THEN "deleted" ELSE "tombstone"
    <3>1. orgs \in {"tombstone", "deleted"} BY <2>3 DEF StepDone, IInv, Typed
    <3> QED BY <3>1 DEF Tells, Traces
  <2>9. left \subseteq IF o.keep THEN {"actor"} ELSE {}
    <3>1. left \cap {"session", "apiKey"} = {} BY <2>3 DEF StepDone
    <3>2. left \cap {"personal", "emailed"} = {} BY <2>3 DEF StepDone
    <3>3. o.keep => "named" \notin left
      <4>1. StepDone(4, o) BY <2>3, <2>5
      <4> QED BY <4>1 DEF StepDone
    <3>4. o.keep \/ left \cap {"named", "actor"} = {}
      <4>1. StepDone(5, o) BY <2>3, <2>5
      <4> QED BY <4>1 DEF StepDone
    <3>5. "owned" \notin left BY <2>3 DEF StepDone
    <3>6. "visit" \notin left BY <2>4 DEF Tells, Traces
    <3> QED BY <3>1, <3>2, <3>3, <3>4, <3>5, <3>6 DEF IInv, Typed, Items
  <2> QED BY <2>6, <2>7, <2>8, <2>9
<1> QED BY <1>1, ErasureInvariant, ErasureTells, PTL

\* A user row that is gone leaves behind nothing that no foreign key guards, but
\* for the user as the actor of rows, and that only if rows were to be kept.
THEOREM GoneLeavesNothing == Spec => []GoneIsClean
<1>1. IInv /\ Tells => GoneIsClean BY DEF IInv, Gone, Tells, Traces, GoneIsClean
<1> QED BY <1>1, ErasureInvariant, ErasureTells, PTL
================================================================================

----------------------------- MODULE OutboxProofs -----------------------------
(***************************************************************************)
(* The planning notices, for any finite set of users and any number of     *)
(* lines and failures: they are deliveries in order, and a line received   *)
(* again is paid for by a failure.                                         *)
(***************************************************************************)
EXTENDS Outbox, FiniteSetTheorems, WellFoundedInduction, TLAPS

\* Who would receive line m.line + 1 again, if l is what they received last.
Again(m, l) == {u \in User \ m.sent : l[u] = m.line + 1}

-----------------------------------------------------------------------------
(* Sets of users.                                                          *)

\* The owed users are a finite set.
LEMMA AgainFinite ==
  ASSUME NEW m, NEW l
  PROVE  IsFiniteSet(Again(m, l)) /\ Cardinality(Again(m, l)) \in Nat
<1>1. Again(m, l) \subseteq User BY DEF Again
<1> QED BY <1>1, UserAssumption, FS_Subset, FS_CardinalityType

\* A user that receives the line is owed it no more than once.
LEMMA AgainReceived ==
  ASSUME NEW m \in Marker, NEW l \in [User -> Nat], NEW u \in User \ m.sent
  PROVE  Cardinality(Again(m, [l EXCEPT ![u] = m.line + 1]))
           = IF l[u] = m.line + 1 THEN Cardinality(Again(m, l))
                                  ELSE Cardinality(Again(m, l)) + 1
<1> DEFINE n == [l EXCEPT ![u] = m.line + 1]
<1>1. Again(m, n) = Again(m, l) \cup {u} BY DEF Again, Marker
<1>2. u \in Again(m, l) <=> l[u] = m.line + 1 BY DEF Again
<1> QED BY <1>1, <1>2, AgainFinite, FS_AddElement

\* Once u is marked it is not owed.
LEMMA AgainMarked ==
  ASSUME NEW m \in Marker, NEW l \in [User -> Nat], NEW u \in User \ m.sent,
         l[u] = m.line + 1
  PROVE  Cardinality(Again([line |-> m.line, sent |-> m.sent \cup {u}], l))
           = Cardinality(Again(m, l)) - 1
<1> DEFINE p == [line |-> m.line, sent |-> m.sent \cup {u}]
<1>1. Again(p, l) = Again(m, l) \ {u} BY DEF Again
<1>2. u \in Again(m, l) BY DEF Again
<1>3. IsFiniteSet(Again(m, l)) BY AgainFinite
<1>4. Cardinality(Again(m, l) \ {u}) = Cardinality(Again(m, l)) - 1
  BY <1>2, <1>3, FS_RemoveElement
<1> QED BY <1>1, <1>4

\* No one has a line after the current one.
LEMMA AgainNext ==
  ASSUME NEW n \in Nat, NEW s, NEW l \in [User -> Nat], \A u \in User : l[u] < n + 1
  PROVE  Cardinality(Again([line |-> n, sent |-> s], l)) = 0
<1>1. Again([line |-> n, sent |-> s], l) = {} BY DEF Again
<1> QED BY <1>1, FS_EmptySet

\* The first of a non-empty set of users is one of them.
LEMMA LeastIn ==
  ASSUME NEW users \in SUBSET User, users # {}
  PROVE  Least(users) \in users
<1> DEFINE R == OpToRel(<, Nat)
<1>1. users \subseteq Nat BY UserAssumption
<1>2. \E u \in users : \A v \in users : <<v, u>> \notin R
  BY <1>1, NatLessThanWellFounded, WFMin
<1>3. PICK u \in users : \A v \in users : <<v, u>> \notin R BY <1>2
<1>4. ASSUME NEW v \in users, v < u PROVE FALSE
  <2>1. <<v, u>> \in Nat \X Nat /\ <<v, u>>[1] < <<v, u>>[2] BY <1>1, <1>4
  <2>2. <<v, u>> \in R BY <2>1, Zenon DEF OpToRel
  <2> QED BY <1>3, <2>2
<1>5. \A v \in users : u <= v BY <1>1, <1>4
<1> QED BY <1>5 DEF Least

-----------------------------------------------------------------------------
(* One line arriving.                                                      *)

\* Owed is about what users received last.
LEMMA OwedIsAgain ==
  ASSUME NEW m
  PROVE  Owed(m) = Again(m, last)
BY DEF Owed, Again

\* The first recipient left is an unmarked user.
LEMMA LeastLeft ==
  ASSUME OutboxInv, pc = "send", Left # {}
  PROVE  /\ begun /\ mem = marker /\ marker \in Marker
         /\ Least(Left) \in recipients /\ Least(Left) \in User \ marker.sent
<1>1. mem = marker /\ begun /\ recipients \subseteq User /\ marker \in Marker
  BY DEF OutboxInv, OneStepAhead, NothingBefore, TypeOK, Audience
<1>2. Left \in SUBSET User BY <1>1 DEF Left
<1>3. Least(Left) \in Left BY <1>2, LeastIn
<1> QED BY <1>1, <1>3 DEF Left

\* What a received line changes: a repetition was owed before, and a first
\* reception is owed from now until the marker is saved.
LEMMA Reception ==
  ASSUME OutboxInv, pc = "send", NEW u \in User \ marker.sent, mem = marker, Receives(u)
  PROVE  /\ last' \in [User -> Nat] /\ repeats' \in Nat
         /\ last'[u] = marker.line + 1
         /\ \A v \in marker.sent : last'[v] = marker.line + 1
         /\ \A v \in User : last'[v] <= marker.line + 1
         /\ repeats' + Cardinality(Again(marker, last')) <= faults + 1
<1>1. /\ marker \in Marker /\ last \in [User -> Nat] /\ repeats \in Nat /\ faults \in Nat
      /\ Told(marker) /\ \A v \in User : last[v] <= marker.line + 1
      /\ repeats + Cardinality(Again(marker, last)) <= faults
  BY OwedIsAgain DEF OutboxInv, TypeOK, MarkedIsTold, Paid
<1>2. /\ last' = [last EXCEPT ![u] = marker.line + 1]
      /\ repeats' = IF last[u] = marker.line + 1 THEN repeats + 1 ELSE repeats
  BY DEF Receives
<1>3. Cardinality(Again(marker, last'))
        = IF last[u] = marker.line + 1 THEN Cardinality(Again(marker, last))
                                       ELSE Cardinality(Again(marker, last)) + 1
  BY <1>1, <1>2, AgainReceived
<1>4. Cardinality(Again(marker, last)) \in Nat /\ Cardinality(Again(marker, last')) \in Nat
  BY AgainFinite
<1>5. repeats' + Cardinality(Again(marker, last')) <= faults + 1
  BY <1>1, <1>2, <1>3, <1>4
<1>6. marker.line \in Nat /\ marker.sent \subseteq User BY <1>1 DEF Marker
<1>7. \A v \in marker.sent : last'[v] = marker.line + 1
  BY <1>1, <1>2, <1>6 DEF Told
<1> QED BY <1>1, <1>2, <1>5, <1>6, <1>7

\* After the line is marked for u, only who is owed it still counts.
LEMMA Marking ==
  ASSUME OutboxInv, pc = "send", NEW u \in User \ marker.sent, mem = marker, Receives(u)
  PROVE  /\ Marked(u) \in Marker
         /\ \A v \in Marked(u).sent : last'[v] = Marked(u).line + 1
         /\ \/ Marked(u).line = marker.line
            \/ /\ Marked(u).line = marker.line + 1 /\ Marked(u).sent = {}
               /\ \A v \in recipients : last'[v] = marker.line + 1
         /\ repeats' + Cardinality(Again(Marked(u), last')) <= faults
<1>1. marker \in Marker /\ faults \in Nat BY DEF OutboxInv, TypeOK
<1>2. /\ last' \in [User -> Nat] /\ repeats' \in Nat
      /\ last'[u] = marker.line + 1
      /\ \A v \in marker.sent : last'[v] = marker.line + 1
      /\ \A v \in User : last'[v] <= marker.line + 1
      /\ repeats' + Cardinality(Again(marker, last')) <= faults + 1
  BY Reception
<1>3. marker.line \in Nat /\ marker.sent \subseteq User BY <1>1 DEF Marker
<1>4. Cardinality(Again(marker, last')) \in Nat BY AgainFinite
<1>5. u \in Again(marker, last') BY <1>2 DEF Again
<1>6. Cardinality(Again(marker, last')) # 0 BY <1>5, AgainFinite, FS_EmptySet
<1>7. repeats' <= faults BY <1>1, <1>2, <1>4, <1>6
<1>8. CASE recipients \subseteq mem.sent \cup {u}
  <2>1. Marked(u) = [line |-> marker.line + 1, sent |-> {}] BY <1>8 DEF Marked
  <2>2. Cardinality(Again([line |-> marker.line + 1, sent |-> {}], last')) = 0
    BY <1>2, <1>3, AgainNext
  <2>3. \A v \in recipients : last'[v] = marker.line + 1 BY <1>2, <1>8
  <2>4. [line |-> marker.line + 1, sent |-> {}] \in Marker BY <1>3 DEF Marker
  <2> QED BY <1>2, <1>7, <2>1, <2>2, <2>3, <2>4
<1>9. CASE ~(recipients \subseteq mem.sent \cup {u})
  <2>1. Marked(u) = [line |-> marker.line, sent |-> marker.sent \cup {u}] BY <1>9 DEF Marked
  <2>2. Cardinality(Again([line |-> marker.line, sent |-> marker.sent \cup {u}], last'))
          = Cardinality(Again(marker, last')) - 1
    BY <1>1, <1>2, AgainMarked
  <2>3. [line |-> marker.line, sent |-> marker.sent \cup {u}] \in Marker BY <1>3 DEF Marker
  <2>4. repeats' + Cardinality(Again(Marked(u), last')) <= faults
    BY <1>1, <1>2, <1>4, <2>1, <2>2
  <2> QED BY <1>2, <2>1, <2>3, <2>4
<1> QED BY <1>8, <1>9

-----------------------------------------------------------------------------
(* The steps.                                                              *)

\* The invariant in terms of the operators above, primed: what each step below
\* shows of its next state.
LEMMA Rebuild ==
  ASSUME TypeOK', NothingBefore', OneStepAhead',
         \A u \in marker'.sent : last'[u] = marker'.line + 1,
         pc' = "save" => \A u \in mem'.sent : last'[u] = mem'.line + 1,
         \A u \in User : last'[u] <= marker'.line + 1,
         repeats' + Cardinality(Again(marker', last'))
           <= IF pc' = "save" THEN faults' + 1 ELSE faults',
         pc' = "save" => repeats' + Cardinality(Again(mem', last')) <= faults'
  PROVE  OutboxInv'
<1>1. Owed(marker)' = Again(marker', last') /\ Owed(mem)' = Again(mem', last')
  BY DEF Owed, Again
<1>2. Paid' BY <1>1 DEF Paid
<1>3. MarkedIsTold' BY DEF MarkedIsTold, Told
<1> QED BY <1>2, <1>3 DEF OutboxInv

\* The invariant the same way, unprimed.
LEMMA Unfold ==
  ASSUME OutboxInv
  PROVE  /\ TypeOK /\ NothingBefore /\ OneStepAhead
         /\ \A u \in marker.sent : last[u] = marker.line + 1
         /\ pc = "save" => \A u \in mem.sent : last[u] = mem.line + 1
         /\ \A u \in User : last[u] <= marker.line + 1
         /\ repeats + Cardinality(Again(marker, last)) <= IF pc = "save" THEN faults + 1 ELSE faults
         /\ pc = "save" => repeats + Cardinality(Again(mem, last)) <= faults
BY OwedIsAgain DEF OutboxInv, MarkedIsTold, Told, Paid

\* The marker and its pass are untouched by what happens to the log.
LEMMA LogStep ==
  ASSUME OutboxInv, Write \/ Export \/ Cut
  PROVE  OutboxInv'
<1>1. TypeOK'
  BY DEF OutboxInv, TypeOK, Write, Export, Cut, file, pass, seen, Audience, Marker
<1>2. UNCHANGED <<begun, marker, mem, batch, pc, last, repeats, faults, recipients>>
  BY DEF Write, Export, Cut, file, pass, seen
<1> QED BY <1>1, <1>2, Unfold, Rebuild DEF NothingBefore, OneStepAhead

LEMMA BeginStep ==
  ASSUME OutboxInv, Begin
  PROVE  OutboxInv'
<1>1. /\ TypeOK /\ last = [u \in User |-> 0] /\ repeats + Cardinality(Again(marker, last)) <= faults
  BY Unfold DEF NothingBefore, Begin
<1>2. /\ marker' = [line |-> shown, sent |-> {}] /\ pc' = "idle" /\ begun'
      /\ UNCHANGED <<written, shown, recipients, mem, batch, pc, last, repeats, faults, cuts>>
  BY DEF Begin, pass, seen
<1>3. TypeOK' BY <1>1, <1>2 DEF TypeOK, Marker
<1>4. \A u \in User : last[u] < shown + 1 BY <1>1 DEF TypeOK
<1>5. Cardinality(Again([line |-> shown, sent |-> {}], last)) = 0
  BY <1>1, <1>4, AgainNext DEF TypeOK
<1>6. repeats' + Cardinality(Again(marker', last')) <= faults'
  BY <1>1, <1>2, <1>5, AgainFinite DEF TypeOK
<1>7. \A u \in User : last'[u] <= marker'.line + 1 BY <1>1, <1>2 DEF TypeOK
<1> QED BY <1>2, <1>3, <1>6, <1>7, Rebuild DEF NothingBefore, OneStepAhead

LEMMA FetchStep ==
  ASSUME OutboxInv, Fetch
  PROVE  OutboxInv'
<1>1. TypeOK' BY DEF OutboxInv, TypeOK, Fetch, file, seen
<1>2. /\ mem' = marker /\ pc = "idle" /\ pc' = "send" /\ begun'
      /\ UNCHANGED <<begun, marker, last, repeats, faults, recipients>>
  BY DEF Fetch, file, seen
<1> QED BY <1>1, <1>2, Unfold, Rebuild DEF NothingBefore, OneStepAhead

LEMMA SendStep ==
  ASSUME OutboxInv, Send
  PROVE  OutboxInv'
<1> DEFINE u == Least(Left)
<1>1. /\ begun /\ mem = marker /\ u \in recipients /\ u \in User \ marker.sent
      /\ pc = "send" /\ Receives(u) /\ mem' = Marked(u) /\ pc' = "save"
      /\ UNCHANGED <<written, shown, recipients, begun, marker, batch, faults, cuts>>
  BY LeastLeft DEF Send, file
<1>2. /\ last' \in [User -> Nat] /\ repeats' \in Nat
      /\ \A v \in marker.sent : last'[v] = marker.line + 1
      /\ \A v \in User : last'[v] <= marker.line + 1
      /\ repeats' + Cardinality(Again(marker, last')) <= faults + 1
  BY <1>1, Reception
<1>3. /\ Marked(u) \in Marker
      /\ \A v \in Marked(u).sent : last'[v] = Marked(u).line + 1
      /\ \/ Marked(u).line = marker.line
         \/ /\ Marked(u).line = marker.line + 1 /\ Marked(u).sent = {}
            /\ \A v \in recipients : last'[v] = marker.line + 1
      /\ repeats' + Cardinality(Again(Marked(u), last')) <= faults
  BY <1>1, Marking
<1>4. TypeOK' BY <1>1, <1>2, <1>3 DEF OutboxInv, TypeOK
<1>5. OneStepAhead' BY <1>1, <1>3 DEF OneStepAhead
<1> QED BY <1>1, <1>2, <1>3, <1>4, <1>5, Rebuild DEF NothingBefore

\* Everyone who is a recipient now was marked, so has received the line.
LEMMA PassStep ==
  ASSUME OutboxInv, Pass
  PROVE  OutboxInv'
<1> DEFINE m == [line |-> marker.line + 1, sent |-> {}]
<1>1. /\ mem = marker /\ begun /\ pc = "send" /\ mem' = m /\ pc' = "save"
      /\ UNCHANGED <<written, shown, recipients, begun, marker, batch, last, repeats, faults, cuts>>
  BY DEF Pass, file, seen, OutboxInv, OneStepAhead, NothingBefore
<1>2. recipients \subseteq marker.sent BY <1>1 DEF Pass, Left
<1>3. TypeOK' BY <1>1 DEF OutboxInv, TypeOK, Marker
<1>4. OneStepAhead' BY <1>1, <1>2, Unfold DEF OneStepAhead
<1>5. Cardinality(Again(m, last)) = 0
  <2>1. marker.line + 1 \in Nat /\ last \in [User -> Nat] /\ marker.line \in Nat
    BY DEF OutboxInv, TypeOK, Marker
  <2>2. \A u \in User : last[u] < (marker.line + 1) + 1 BY <2>1, Unfold
  <2> QED BY <2>1, <2>2, AgainNext
<1>6. repeats + Cardinality(Again(m, last)) <= faults
  BY <1>1, <1>5, Unfold, AgainFinite DEF TypeOK
<1>7. repeats + Cardinality(Again(marker, last)) <= faults + 1
  BY <1>1, Unfold, AgainFinite DEF TypeOK
<1>8. \A u \in User : last[u] <= marker.line + 1 BY Unfold
<1>9. \A u \in marker.sent : last[u] = marker.line + 1 BY Unfold
<1> HIDE DEF m
<1>10. m.sent = {} BY DEF m
<1> QED BY <1>1, <1>3, <1>4, <1>6, <1>7, <1>8, <1>9, <1>10, Rebuild DEF NothingBefore

\* The file takes over what the pass holds: after a save, or after a failure
\* that came once the file was replaced.
LEMMA TakeOver ==
  ASSUME OutboxInv, pc = "save", marker' = mem,
         UNCHANGED <<begun, recipients, mem, last, repeats>>, faults' \in {faults, faults + 1},
         pc' \in {"send", "idle", "down"}, TypeOK'
  PROVE  OutboxInv'
<1>1. /\ TypeOK /\ begun
      /\ \A u \in mem.sent : last[u] = mem.line + 1
      /\ \A u \in User : last[u] <= marker.line + 1
      /\ repeats + Cardinality(Again(mem, last)) <= faults
      /\ mem.line = marker.line \/ mem.line = marker.line + 1
  BY Unfold DEF NothingBefore, OneStepAhead
<1>2. repeats' + Cardinality(Again(marker', last')) <= faults'
  BY <1>1, AgainFinite DEF TypeOK
<1>3. \A u \in User : last'[u] <= marker'.line + 1
  BY <1>1 DEF TypeOK, Marker
<1>4. NothingBefore' /\ OneStepAhead' BY <1>1 DEF NothingBefore, OneStepAhead
<1> QED BY <1>1, <1>2, <1>3, <1>4, Rebuild

\* A failure leaves the file as it was; it pays for the line that may be sent
\* again.
LEMMA LeftBehind ==
  ASSUME OutboxInv, pc # "down",
         UNCHANGED <<begun, marker, recipients, last, repeats>>, faults' = faults + 1,
         pc' \in {"idle", "down"}, TypeOK'
  PROVE  OutboxInv'
<1>1. /\ TypeOK /\ NothingBefore
      /\ \A u \in marker.sent : last[u] = marker.line + 1
      /\ \A u \in User : last[u] <= marker.line + 1
      /\ repeats + Cardinality(Again(marker, last)) <= faults + 1
  BY Unfold, AgainFinite DEF TypeOK
<1>2. NothingBefore' /\ OneStepAhead' BY <1>1 DEF NothingBefore, OneStepAhead
<1> QED BY <1>1, <1>2, Rebuild

\* A failure of a send that had arrived.
LEMMA Arrived ==
  ASSUME OutboxInv, pc = "send", Left # {}, Receives(Least(Left)),
         UNCHANGED <<begun, marker, recipients>>, faults' = faults + 1,
         pc' \in {"idle", "down"}, TypeOK'
  PROVE  OutboxInv'
<1>1. /\ begun /\ mem = marker /\ Least(Left) \in User \ marker.sent
  BY LeastLeft
<1>2. /\ \A v \in marker.sent : last'[v] = marker.line + 1
      /\ \A v \in User : last'[v] <= marker.line + 1
      /\ repeats' + Cardinality(Again(marker, last')) <= faults + 1
  BY <1>1, Reception
<1>3. NothingBefore' /\ OneStepAhead' BY <1>1 DEF NothingBefore, OneStepAhead
<1> QED BY <1>1, <1>2, <1>3, Rebuild

LEMMA SaveStep ==
  ASSUME OutboxInv, Save
  PROVE  OutboxInv'
<1>1. TypeOK' BY DEF OutboxInv, TypeOK, Save, seen
<1> QED BY <1>1, TakeOver DEF Save, seen

LEMMA SendFailsStep ==
  ASSUME OutboxInv, SendFails
  PROVE  OutboxInv'
<1>1. CASE UNCHANGED seen
  <2>1. TypeOK' BY <1>1 DEF OutboxInv, TypeOK, SendFails, Fault, file, seen
  <2> QED BY <1>1, <2>1, LeftBehind DEF SendFails, Fault, file, seen
<1>2. CASE Receives(Least(Left))
  <2>1. last' \in [User -> Nat] /\ repeats' \in Nat
    BY <1>2, LeastLeft, Reception DEF SendFails
  <2>2. TypeOK' BY <2>1 DEF OutboxInv, TypeOK, SendFails, Fault, file
  <2> QED BY <1>2, <2>2, Arrived DEF SendFails, Fault, file
<1> QED BY <1>1, <1>2 DEF SendFails

LEMMA SaveFailsStep ==
  ASSUME OutboxInv, SaveFails
  PROVE  OutboxInv'
<1>1. TypeOK' BY DEF OutboxInv, TypeOK, SaveFails, Fault, seen
<1>2. CASE marker' = mem
  BY <1>1, <1>2, TakeOver DEF SaveFails, Fault, seen
<1>3. CASE marker' = marker
  BY <1>1, <1>3, LeftBehind DEF SaveFails, Fault, seen
<1> QED BY <1>2, <1>3 DEF SaveFails

LEMMA DieStep ==
  ASSUME OutboxInv, Die
  PROVE  OutboxInv'
<1>1. CASE UNCHANGED <<marker, seen>>
  <2>1. TypeOK' BY <1>1 DEF OutboxInv, TypeOK, Die, Fault, seen
  <2> QED BY <1>1, <2>1, LeftBehind DEF Die, Fault, seen
<1>2. CASE pc = "send" /\ Left # {} /\ Receives(Least(Left)) /\ UNCHANGED marker
  <2>1. last' \in [User -> Nat] /\ repeats' \in Nat
    BY <1>2, LeastLeft, Reception
  <2>2. TypeOK' BY <1>2, <2>1 DEF OutboxInv, TypeOK, Die, Fault
  <2> QED BY <1>2, <2>2, Arrived DEF Die, Fault
<1>3. CASE pc = "save" /\ marker' = mem /\ UNCHANGED seen
  <2>1. TypeOK' BY <1>3 DEF OutboxInv, TypeOK, Die, Fault, seen
  <2> QED BY <1>3, <2>1, TakeOver DEF Die, Fault, seen
<1> QED BY <1>1, <1>2, <1>3 DEF Die

LEMMA BootStep ==
  ASSUME OutboxInv, Boot
  PROVE  OutboxInv'
<1>1. TypeOK' BY DEF OutboxInv, TypeOK, Boot, file, seen
<1>2. /\ pc = "down" /\ pc' = "idle"
      /\ UNCHANGED <<begun, marker, mem, last, repeats, faults>>
  BY DEF Boot, file, seen
<1> QED BY <1>1, <1>2, Unfold, Rebuild DEF NothingBefore, OneStepAhead

-----------------------------------------------------------------------------
(* The theorems.                                                           *)

LEMMA InvInit == Init => OutboxInv
<1> SUFFICES ASSUME Init PROVE OutboxInv
  OBVIOUS
<1>1. TypeOK
  <2>1. written \in Nat /\ shown \in Nat BY BoundAssumption DEF Init
  <2>2. marker = [line |-> 0, sent |-> {}] /\ marker \in Marker BY DEF Init, Marker
  <2>3. last \in [User -> Nat] /\ mem \in Marker BY <2>2 DEF Init
  <2> QED BY <2>1, <2>2, <2>3 DEF Init, TypeOK
<1>2. Cardinality(Again(marker, last)) = 0
  <2>1. marker = [line |-> 0, sent |-> {}] /\ last = [u \in User |-> 0] BY DEF Init
  <2>2. Cardinality(Again([line |-> 0, sent |-> {}], last)) = 0 BY <2>1, AgainNext
  <2> QED BY <2>1, <2>2
<1>3. Owed(marker) = Again(marker, last) BY OwedIsAgain
<1>4. Paid BY <1>2, <1>3 DEF Paid, Init
<1> QED BY <1>1, <1>4 DEF Init, OutboxInv, NothingBefore, OneStepAhead, MarkedIsTold, Told

LEMMA InvNext == OutboxInv /\ [Next]_outboxVars => OutboxInv'
<1> SUFFICES ASSUME OutboxInv, [Next]_outboxVars PROVE OutboxInv'
  OBVIOUS
<1>1. CASE UNCHANGED outboxVars
  <2>1. TypeOK' BY <1>1 DEF OutboxInv, TypeOK, outboxVars, file, pass, seen
  <2>2. UNCHANGED <<begun, marker, mem, pc, last, repeats, faults, recipients>>
    BY <1>1 DEF outboxVars, file, pass, seen
  <2> QED BY <2>1, <2>2, Unfold, Rebuild DEF NothingBefore, OneStepAhead
<1> QED BY <1>1, LogStep, BeginStep, FetchStep, SendStep, PassStep, SaveStep,
           SendFailsStep, SaveFailsStep, DieStep, BootStep DEF Next

\* The marker file, the marker a pass holds and what people received never
\* disagree by more than one step of notify_once.
THEOREM OutboxInvariant == Spec => []OutboxInv
<1> QED BY InvInit, InvNext, PTL DEF Spec

\* A line is received again at most once for each failed send, save or process.
THEOREM RepeatsArePaid == Spec => []OneRepeatPerFault
<1>1. OutboxInv => OneRepeatPerFault
  <2> SUFFICES ASSUME OutboxInv PROVE OneRepeatPerFault
    OBVIOUS
  <2>1. /\ repeats + Cardinality(Again(marker, last)) <= IF pc = "save" THEN faults + 1 ELSE faults
        /\ pc = "save" => repeats + Cardinality(Again(mem, last)) <= faults
        /\ repeats \in Nat /\ faults \in Nat
    BY Unfold DEF TypeOK
  <2>2. Cardinality(Again(marker, last)) \in Nat /\ Cardinality(Again(mem, last)) \in Nat
    BY AgainFinite
  <2> QED BY <2>1, <2>2 DEF OneRepeatPerFault
<1> QED BY <1>1, OutboxInvariant, PTL

\* A line arriving is a delivery of the current line to one of the audience.
LEMMA ArrivalTells ==
  ASSUME OutboxInv, pc = "send", Left # {}, Receives(Least(Left)),
         UNCHANGED <<begun, recipients, marker>>
  PROVE  \E u \in User : Promise!Tell(u)
<1>1. /\ begun /\ mem = marker
      /\ Least(Left) \in recipients /\ Least(Left) \in User
  BY LeastLeft
<1>2. Promise!Tell(Least(Left)) BY <1>1 DEF Promise!Tell, Receives
<1> QED BY <1>1, <1>2

\* The file taking over what the pass holds moves on, or leaves the line as it
\* was.
LEMMA TakeOverMovesOn ==
  ASSUME OutboxInv, pc = "save", marker' = mem, UNCHANGED <<begun, recipients, last>>
  PROVE  [Promise!Next]_(Promise!vars)
<1>1. begun BY DEF OutboxInv, NothingBefore
<1>2. CASE mem.line = marker.line BY <1>2 DEF Promise!vars
<1>3. CASE mem.line = marker.line + 1 /\ \A u \in recipients : last[u] = marker.line + 1
  <2>1. Promise!MoveOn BY <1>1, <1>3 DEF Promise!MoveOn
  <2> QED BY <2>1 DEF Promise!Next
<1> QED BY <1>2, <1>3 DEF OutboxInv, OneStepAhead

LEMMA DeliveryInit == Init => Promise!Init
BY DEF Init, Promise!Init, Audience, Promise!Audience

LEMMA DeliveryStep ==
  ASSUME OutboxInv, [Next]_outboxVars
  PROVE  [Promise!Next]_(Promise!vars)
<1>1. CASE Write \/ Export \/ Cut \/ UNCHANGED outboxVars
  BY <1>1 DEF Write, Export, Cut, outboxVars, file, seen, Promise!vars
<1>2. CASE Begin
  <2>1. Promise!Start BY <1>2 DEF Begin, seen, Promise!Start, OutboxInv, TypeOK
  <2> QED BY <2>1 DEF Promise!Next
<1>3. CASE Fetch \/ Pass
  BY <1>3 DEF Fetch, Pass, file, seen, Promise!vars
<1>4. CASE Send
  BY <1>4, ArrivalTells DEF Send, file, Promise!Next
<1>5. CASE Save
  BY <1>5, TakeOverMovesOn DEF Save, seen
<1>6. CASE SendFails
  <2>1. CASE UNCHANGED seen BY <1>6, <2>1 DEF SendFails, file, seen, Promise!vars
  <2>2. CASE Receives(Least(Left))
    BY <1>6, <2>2, ArrivalTells DEF SendFails, file, Promise!Next
  <2> QED BY <1>6, <2>1, <2>2 DEF SendFails
<1>7. CASE SaveFails
  <2>1. CASE marker' = marker BY <1>7, <2>1 DEF SaveFails, seen, Promise!vars
  <2>2. CASE marker' = mem BY <1>7, <2>2, TakeOverMovesOn DEF SaveFails, seen
  <2> QED BY <1>7, <2>1, <2>2 DEF SaveFails
<1>8. CASE Die
  <2>1. CASE UNCHANGED <<marker, seen>> BY <1>8, <2>1 DEF Die, seen, Promise!vars
  <2>2. CASE pc = "send" /\ Left # {} /\ Receives(Least(Left)) /\ UNCHANGED marker
    BY <1>8, <2>2, ArrivalTells DEF Die, Promise!Next
  <2>3. CASE pc = "save" /\ marker' = mem /\ UNCHANGED seen
    BY <1>8, <2>3, TakeOverMovesOn DEF Die, seen
  <2> QED BY <1>8, <2>1, <2>2, <2>3 DEF Die
<1>9. CASE Boot
  <2>1. Promise!Restart
    BY <1>9 DEF Boot, file, seen, Promise!Restart, Audience, Promise!Audience
  <2> QED BY <2>1 DEF Promise!Next
<1> QED BY <1>1, <1>2, <1>3, <1>4, <1>5, <1>6, <1>7, <1>8, <1>9 DEF Next

\* The notices are deliveries in order: no one who is a recipient is passed over
\* and nothing but the current line is ever told, whatever fails meanwhile.
THEOREM NoticesAreDeliveries == Spec => DeliverySpec
<1> QED BY OutboxInvariant, DeliveryInit, DeliveryStep, PTL
        DEF Spec, DeliverySpec, Promise!Spec
=============================================================================

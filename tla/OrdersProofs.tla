----------------------------- MODULE OrdersProofs -----------------------------
(***************************************************************************)
(* For any orders, slices, moves and faults: a message with nothing        *)
(* pending says what its order is, an order enters the queue only as it    *)
(* was shown, and Orders implements OrderLife.                             *)
(***************************************************************************)
EXTENDS Orders, FiniteSetTheorems, TLAPS

Records == [status : Status, target : Targets, expect : Snapshot \cup {"nothing"},
            attached : BOOLEAN, dirty : BOOLEAN]

Edits == todo \cup inFlight

\* An order with a message exists, and one with an edit pending is no proposal.
Sound ==
  \A o \in Order :
    /\ orders[o].attached => orders[o].status # "none"
    /\ orders[o].dirty => orders[o].status \notin {"none", "proposed"}

\* The order whose message is on its way exists and has no message yet.
Sending ==
  handler.at # "idle" =>
    /\ handler.order \in Order
    /\ orders[handler.order].status # "none"
    /\ ~orders[handler.order].attached
    /\ handler.at = "attach" => phone[handler.order] = "buttons"

\* What an edit pass holds is still to be marked, once for each order.
Editing ==
  /\ \A e \in Edits : /\ orders[e[1]].attached /\ orders[e[1]].dirty
                      /\ e[2] \notin {"none", "proposed"}
  /\ \A e \in inFlight : phone[e[1]] = e[2]
  /\ \A e, f \in Edits : e[1] = f[1] => e = f
  /\ todo \cap inFlight = {}

OrdersInv == TypeOK /\ Sound /\ Sending /\ Editing /\ MessageAgrees

-----------------------------------------------------------------------------
(* What the actions do to an order.                                        *)

\* Closed or queued, with its message to edit.
Moved(old, new) ==
  \E s \in Status \ {"none", "proposed"} :
    old.status # "none" /\ new = [old EXCEPT !.status = s, !.dirty = TRUE]

LEMMA MovedRecord ==
  ASSUME NEW old \in Records, NEW new, Moved(old, new)
  PROVE  /\ new \in Records /\ new.attached = old.attached
         /\ old.status # "none" /\ new.status \notin {"none", "proposed"} /\ new.dirty
  <1>1. PICK s \in Status \ {"none", "proposed"} :
          old.status # "none" /\ new = [old EXCEPT !.status = s, !.dirty = TRUE]
    BY DEF Moved
  <1> QED BY <1>1 DEF Records

\* Every order stays as it is or moves, and nothing else changes.
OrdersMove ==
  /\ orders' = [o \in Order |-> orders'[o]]
  /\ \A o \in Order : orders'[o] = orders[o] \/ Moved(orders[o], orders'[o])
  /\ UNCHANGED <<phone, handler, todo, inFlight>>

LEMMA ReconciledMoves ==
  ASSUME TypeOK
  PROVE  /\ Reconciled \in [Order -> Records]
         /\ \A o \in Order : Reconciled[o] = orders[o] \/ Moved(orders[o], Reconciled[o])
  <1> SUFFICES ASSUME NEW o \in Order
               PROVE  /\ Reconciled[o] \in Records
                      /\ Reconciled[o] = orders[o] \/ Moved(orders[o], Reconciled[o])
    BY DEF Reconciled
  <1>1. orders[o] \in Records
    BY DEF TypeOK, Records
  <1>2. CASE orders[o].status \in Open /\ Changed(orders[o])
    <2>1. Reconciled[o] = Overtaken(orders[o])
      BY <1>2 DEF Reconciled
    <2> QED BY <1>1, <1>2, <2>1 DEF Overtaken, Moved, Records, Status, Open
  <1>3. CASE ~(orders[o].status \in Open /\ Changed(orders[o]))
    BY <1>1, <1>3 DEF Reconciled
  <1> QED BY <1>2, <1>3

LEMMA RefreshMoves ==
  ASSUME TypeOK, Refresh
  PROVE  OrdersMove /\ UNCHANGED <<slices, moves, faults>>
  BY ReconciledMoves DEF Refresh, OrdersMove

LEMMA TapMoves ==
  ASSUME TypeOK, NEW o \in Order, NEW yes \in BOOLEAN, Tap(o, yes)
  PROVE  OrdersMove /\ UNCHANGED <<slices, moves, faults>>
  <1> DEFINE now   == IF yes THEN Reconciled ELSE orders
             taken == [now[o] EXCEPT !.status = IF yes THEN "queued" ELSE "cancelled",
                                     !.dirty = TRUE]
  <1>1. now \in [Order -> Records]
    BY ReconciledMoves DEF TypeOK, Records
  <1>2. \A p \in Order : now[p] = orders[p] \/ Moved(orders[p], now[p])
    BY ReconciledMoves
  <1>3. orders' = IF now[o].status = "proposed" THEN [now EXCEPT ![o] = taken] ELSE now
    BY DEF Tap
  <1>4. now[o].status = "proposed" => Moved(orders[o], taken)
    <2> SUFFICES ASSUME now[o].status = "proposed"
                 PROVE  Moved(orders[o], taken)
      OBVIOUS
    <2>1. orders[o].status = "proposed" /\ orders[o] \in Records
      BY DEF Tap, TypeOK, Records
    <2>2. now[o] = orders[o]
      BY <1>2, <2>1 DEF Moved, Records
    <2> QED BY <2>1, <2>2 DEF Moved, Status
  <1> QED BY <1>1, <1>2, <1>3, <1>4 DEF Tap, OrdersMove

LEMMA AckMoves ==
  ASSUME TypeOK, NEW o \in Order, NEW outcome \in Outcome, Ack(o, outcome)
  PROVE  OrdersMove /\ UNCHANGED <<slices, moves, faults>>
  BY DEF Ack, OrdersMove, Moved, TypeOK, Outcome, Status

-----------------------------------------------------------------------------
(* The invariant.                                                          *)

\* The steps that move orders keep all of it.
LEMMA MoveKeeps ==
  ASSUME OrdersInv, OrdersMove, slices' = slices, moves' = moves, faults' = faults
  PROVE  OrdersInv'
  <1>1. \A o \in Order : /\ orders[o] \in Records
                         /\ orders'[o] = orders[o] \/ Moved(orders[o], orders'[o])
    BY DEF OrdersInv, TypeOK, Records, OrdersMove
  <1>2. \A o \in Order :
          /\ orders'[o] \in Records
          /\ orders'[o].attached = orders[o].attached
          /\ orders[o].status # "none" => orders'[o].status # "none"
          /\ orders[o].dirty => orders'[o].dirty
          /\ orders'[o] = orders[o]
             \/ (orders'[o].dirty /\ orders'[o].status \notin {"none", "proposed"})
    BY <1>1, MovedRecord
  <1>3. TypeOK'
    BY <1>2 DEF OrdersInv, OrdersMove, TypeOK, Records
  <1>4. Sound'
    BY <1>2 DEF OrdersInv, Sound
  <1>5. Sending'
    BY <1>2 DEF OrdersInv, OrdersMove, Sending
  <1>6. Editing'
    <2>1. \A e \in Edits : e[1] \in Order
      BY DEF OrdersInv, TypeOK, Edits
    <2> QED BY <1>2, <2>1 DEF OrdersInv, OrdersMove, Editing, Edits
  <1>7. MessageAgrees'
    BY <1>2 DEF OrdersInv, OrdersMove, MessageAgrees
  <1> QED BY <1>3, <1>4, <1>5, <1>6, <1>7 DEF OrdersInv

\* Proposed orders have no message, and no edit.
LEMMA ProposeKeeps ==
  ASSUME OrdersInv, NEW o \in Order, NEW target \in Targets, Propose(o, target)
  PROVE  OrdersInv'
  <1>1. PICK data \in {orders, Reconciled} : orders' = [data EXCEPT ![o] = Proposed(target)]
    BY DEF Propose
  <1>2. /\ data \in [Order -> Records]
        /\ \A p \in Order : data[p] = orders[p] \/ Moved(orders[p], data[p])
    BY <1>1, ReconciledMoves DEF OrdersInv, TypeOK, Records
  <1>3. Proposed(target) \in Records
    <2> DEFINE expected == IF target \in Slice THEN slices[target].snap ELSE "nothing"
    <2>1. target \in Slice => slices[target] \in View
      BY DEF Propose, OrdersInv, TypeOK, Gone
    <2>2. expected \in Snapshot \cup {"nothing"}
      BY <2>1 DEF View
    <2> QED BY <2>2 DEF Proposed, Records, Status
  <1>4. \A p \in Order : orders[p] \in Records
    BY DEF OrdersInv, TypeOK, Records
  <1>5. \A p \in Order \ {o} :
          /\ orders'[p].attached = orders[p].attached
          /\ orders[p].status # "none" => orders'[p].status # "none"
          /\ orders[p].dirty => orders'[p].dirty
          /\ orders'[p] = orders[p]
             \/ (orders'[p].dirty /\ orders'[p].status \notin {"none", "proposed"})
    BY <1>1, <1>2, <1>4, MovedRecord
  <1>6. orders'[o].status = "proposed" /\ ~orders'[o].attached /\ ~orders'[o].dirty
    BY <1>1, <1>2 DEF Proposed
  <1>7. ~orders[o].attached
    BY DEF Propose, OrdersInv, Sound
  <1>8. \A e \in Edits : e[1] \in Order \ {o}
    BY <1>7 DEF OrdersInv, TypeOK, Editing, Edits
  <1>9. TypeOK'
    BY <1>1, <1>2, <1>3 DEF Propose, OrdersInv, TypeOK, Records
  <1>10. Sound'
    BY <1>5, <1>6 DEF OrdersInv, Sound
  <1>11. Sending'
    BY <1>6 DEF Propose, Sending
  <1>12. Editing'
    BY <1>5, <1>8 DEF Propose, OrdersInv, Editing, Edits
  <1>13. MessageAgrees'
    BY <1>5, <1>6 DEF Propose, OrdersInv, MessageAgrees
  <1> QED BY <1>9, <1>10, <1>11, <1>12, <1>13 DEF OrdersInv

LEMMA SendKeeps ==
  ASSUME OrdersInv, SendButtons
  PROVE  OrdersInv'
  <1>1. /\ handler.order \in Order /\ ~orders[handler.order].attached
        /\ orders[handler.order].status # "none"
    BY DEF SendButtons, OrdersInv, Sending
  <1>2. handler' = Idle \/ handler' = [handler EXCEPT !.at = "attach"]
    BY DEF SendButtons
  <1>3. phone' = phone \/ phone' = [phone EXCEPT ![handler.order] = "buttons"]
    BY DEF SendButtons
  <1>4. handler' # Idle => phone' = [phone EXCEPT ![handler.order] = "buttons"]
    BY DEF SendButtons
  <1>5. \A e \in Edits : e[1] \in Order \ {handler.order}
    BY <1>1 DEF OrdersInv, TypeOK, Editing, Edits
  <1>6. faults' \in 0..MaxFaults
    BY Bounds DEF SendButtons, Fault, OrdersInv, TypeOK
  <1>7. TypeOK'
    BY <1>1, <1>2, <1>3, <1>6 DEF SendButtons, OrdersInv, TypeOK, Idle
  <1>8. Sending'
    BY <1>1, <1>2, <1>4 DEF SendButtons, OrdersInv, TypeOK, Sending, Idle
  <1>9. Sound' /\ Editing'
    BY <1>3, <1>5 DEF SendButtons, OrdersInv, TypeOK, Sound, Editing, Edits
  <1>10. MessageAgrees'
    BY <1>1, <1>3 DEF SendButtons, OrdersInv, TypeOK, MessageAgrees
  <1> QED BY <1>7, <1>8, <1>9, <1>10 DEF OrdersInv

LEMMA AttachKeeps ==
  ASSUME OrdersInv, Attach
  PROVE  OrdersInv'
  <1> DEFINE o == handler.order
  <1>1. /\ o \in Order /\ ~orders[o].attached /\ orders[o].status # "none"
        /\ phone[o] = "buttons"
    BY DEF Attach, OrdersInv, Sending
  <1>2. /\ orders' \in [Order -> Records]
        /\ \A p \in Order \ {o} : orders'[p] = orders[p]
        /\ orders'[o].status = orders[o].status /\ orders'[o].attached
        /\ orders'[o].dirty = (orders[o].status # "proposed")
    <2> DEFINE new == [orders[o] EXCEPT !.attached = TRUE,
                                        !.dirty = (orders[o].status # "proposed")]
    <2>1. orders \in [Order -> Records]
      BY DEF OrdersInv, TypeOK, Records
    <2>2. orders' = [orders EXCEPT ![o] = new]
      BY <1>1, <2>1 DEF Attach, Records
    <2>3. new \in Records /\ new.status = orders[o].status /\ new.attached
          /\ new.dirty = (orders[o].status # "proposed")
      <3>1. orders[o] \in Records /\ (orders[o].status # "proposed") \in BOOLEAN
        BY <1>1, <2>1
      <3> QED BY <3>1 DEF Records
    <2> HIDE DEF new
    <2> QED BY <1>1, <2>1, <2>2, <2>3
  <1>3. \A e \in Edits : e[1] \in Order \ {o}
    BY <1>1 DEF OrdersInv, TypeOK, Editing, Edits
  <1>4. TypeOK'
    BY <1>2 DEF Attach, OrdersInv, TypeOK, Records, Idle
  <1>5. Sound'
    BY <1>1, <1>2 DEF OrdersInv, Sound
  <1>6. Sending'
    BY DEF Attach, Sending, Idle
  <1>7. Editing'
    BY <1>2, <1>3 DEF Attach, OrdersInv, Editing, Edits
  <1>8. MessageAgrees'
    BY <1>1, <1>2 DEF Attach, OrdersInv, MessageAgrees
  <1> QED BY <1>4, <1>5, <1>6, <1>7, <1>8 DEF OrdersInv

LEMMA EditBeginKeeps ==
  ASSUME OrdersInv, EditBegin
  PROVE  OrdersInv'
  <1>1. inFlight' = {} /\ todo' = {<<o, orders[o].status>> : o \in Pending}
    BY DEF EditBegin
  <1>2. \A o \in Pending : /\ o \in Order /\ orders[o].attached /\ orders[o].dirty
                           /\ orders[o].status \in Status \ {"none", "proposed"}
    BY DEF Pending, OrdersInv, TypeOK, Sound
  <1>3. TypeOK'
    BY <1>1, <1>2 DEF EditBegin, OrdersInv, TypeOK
  <1>4. Editing'
    BY <1>1, <1>2 DEF EditBegin, Editing, Edits
  <1>5. Sound' /\ Sending' /\ MessageAgrees'
    BY DEF EditBegin, OrdersInv, Sound, Sending, MessageAgrees
  <1> QED BY <1>3, <1>4, <1>5 DEF OrdersInv

LEMMA EditMessageKeeps ==
  ASSUME OrdersInv, EditMessage
  PROVE  OrdersInv'
  <1>1. PICK e \in todo :
          /\ todo' = todo \ {e}
          /\ \/ phone' = [phone EXCEPT ![e[1]] = e[2]] /\ inFlight' = {e} /\ faults' = faults
             \/ /\ Fault /\ inFlight' = inFlight
                /\ phone' = phone \/ phone' = [phone EXCEPT ![e[1]] = e[2]]
    BY DEF EditMessage
  <1>2. /\ e[1] \in Order /\ e[2] \in Status \ {"none", "proposed"} /\ e \in Order \X Status
        /\ orders[e[1]].attached /\ orders[e[1]].dirty
    BY DEF OrdersInv, TypeOK, Editing, Edits
  <1>3. inFlight = {} /\ inFlight' \in {{}, {e}}
    BY <1>1 DEF EditMessage
  <1>4. phone' = phone \/ phone' = [phone EXCEPT ![e[1]] = e[2]]
    BY <1>1
  <1>5. TypeOK'
    <2>1. Cardinality({}) = 0 /\ Cardinality({e}) = 1
      BY FS_EmptySet, FS_Singleton
    <2>2. Cardinality(inFlight') <= 1
      BY <1>3, <2>1
    <2>3. faults' \in 0..MaxFaults
      BY <1>1, Bounds DEF Fault, OrdersInv, TypeOK
    <2>4. phone' \in [Order -> {"nothing", "buttons"} \cup Status]
      BY <1>2, <1>4 DEF OrdersInv, TypeOK
    <2> QED BY <1>1, <1>2, <1>3, <2>2, <2>3, <2>4 DEF EditMessage, OrdersInv, TypeOK
  <1>6. Sending'
    BY <1>2, <1>4 DEF EditMessage, OrdersInv, TypeOK, Sending
  <1>7. Editing'
    <2>1. Edits' \subseteq Edits /\ todo' \cap inFlight' = {}
      BY <1>1, <1>3 DEF Edits
    <2>2. \A f \in inFlight' : phone'[f[1]] = f[2]
      BY <1>1, <1>2, <1>3 DEF OrdersInv, TypeOK
    <2> QED BY <2>1, <2>2 DEF EditMessage, OrdersInv, Editing
  <1>8. MessageAgrees'
    BY <1>2, <1>4 DEF EditMessage, OrdersInv, TypeOK, MessageAgrees
  <1>9. Sound'
    BY DEF EditMessage, OrdersInv, Sound
  <1> QED BY <1>5, <1>6, <1>7, <1>8, <1>9 DEF OrdersInv

LEMMA EditedKeeps ==
  ASSUME OrdersInv, Edited
  PROVE  OrdersInv'
  <1>1. PICK e \in inFlight :
          orders' = IF orders[e[1]].status = e[2] THEN [orders EXCEPT ![e[1]].dirty = FALSE]
                    ELSE orders
    BY DEF Edited
  <1> DEFINE o == e[1]
  <1>2. /\ o \in Order /\ phone[o] = e[2] /\ e[2] # "proposed"
        /\ \A f \in todo : f[1] \in Order \ {o}
    BY DEF OrdersInv, TypeOK, Editing, Edits
  <1>3. /\ orders' \in [Order -> Records]
        /\ \A p \in Order : /\ orders'[p].status = orders[p].status
                            /\ orders'[p].attached = orders[p].attached
                            /\ orders'[p].dirty => orders[p].dirty
                            /\ p # o => orders'[p] = orders[p]
                            /\ orders'[p] = orders[p] \/ orders[p].status = e[2]
    <2>1. orders \in [Order -> Records]
      BY DEF OrdersInv, TypeOK, Records
    <2>2. CASE orders[o].status = e[2]
      <3> DEFINE new == [orders[o] EXCEPT !.dirty = FALSE]
      <3>1. orders' = [orders EXCEPT ![o] = new]
        BY <1>1, <2>2
      <3>2. /\ new \in Records /\ new.status = orders[o].status
            /\ new.attached = orders[o].attached /\ ~new.dirty
        BY <1>2, <2>1 DEF Records
      <3> HIDE DEF new
      <3> QED BY <1>2, <2>1, <2>2, <3>1, <3>2
    <2>3. CASE orders[o].status # e[2]
      BY <1>1, <2>1, <2>3
    <2> QED BY <2>2, <2>3
  <1>4. TypeOK'
    BY <1>3, FS_EmptySet DEF Edited, OrdersInv, TypeOK, Records
  <1>5. Sound'
    BY <1>3 DEF OrdersInv, Sound
  <1>6. Sending'
    BY <1>3 DEF Edited, OrdersInv, TypeOK, Sending
  <1>7. Editing'
    BY <1>2, <1>3 DEF Edited, OrdersInv, Editing, Edits
  <1>8. MessageAgrees'
    <2> SUFFICES ASSUME NEW p \in Order, orders'[p].attached, ~orders'[p].dirty
                 PROVE  phone[p] = IF orders[p].status = "proposed" THEN "buttons"
                                   ELSE orders[p].status
      BY <1>3 DEF Edited, MessageAgrees
    <2>1. CASE orders'[p] = orders[p]
      BY <2>1 DEF OrdersInv, MessageAgrees
    <2>2. CASE orders'[p] # orders[p]
      BY <1>2, <1>3, <2>2
    <2> QED BY <2>1, <2>2
  <1> QED BY <1>4, <1>5, <1>6, <1>7, <1>8 DEF OrdersInv

\* What is forgotten is nothing the orders rest on.
LEMMA ForgetKeeps ==
  ASSUME OrdersInv, Fault, handler' \in {handler, Idle}, todo' = {}, inFlight' = {},
         UNCHANGED <<slices, orders, phone, moves>>
  PROVE  OrdersInv'
  <1>1. TypeOK'
    BY FS_EmptySet, Bounds DEF OrdersInv, TypeOK, Fault, Idle
  <1>2. Sending'
    BY DEF OrdersInv, Sending, Idle
  <1> QED BY <1>1, <1>2 DEF OrdersInv, Sound, Editing, Edits, MessageAgrees

LEMMA SliceMoveKeeps ==
  ASSUME OrdersInv, NEW s \in Slice, Move(s)
  PROVE  OrdersInv'
  <1>1. slices' \in [Slice -> View \cup {Gone}]
    BY DEF Move, OrdersInv, TypeOK
  <1>2. TypeOK'
    BY <1>1, Bounds DEF Move, OrdersInv, TypeOK
  <1> QED
    BY <1>2 DEF Move, OrdersInv, Sound, Sending, Editing, Edits, MessageAgrees

LEMMA OrdersInit ==
  ASSUME Init
  PROVE  OrdersInv
  <1>1. TypeOK
    BY FS_EmptySet, Bounds DEF Init, TypeOK, NoOrder, Idle, Status, Targets
  <1> QED
    BY <1>1 DEF Init, OrdersInv, Sound, Sending, Editing, Edits, MessageAgrees, NoOrder, Idle

LEMMA OrdersStep ==
  ASSUME OrdersInv, [Next]_orderVars
  PROVE  OrdersInv'
  <1>1. CASE Refresh
    BY <1>1, RefreshMoves, MoveKeeps DEF OrdersInv
  <1>2. ASSUME NEW o \in Order, NEW yes \in BOOLEAN, Tap(o, yes)
        PROVE  OrdersInv'
    BY <1>2, TapMoves, MoveKeeps DEF OrdersInv
  <1>3. ASSUME NEW o \in Order, NEW outcome \in Outcome, Ack(o, outcome)
        PROVE  OrdersInv'
    BY <1>3, AckMoves, MoveKeeps DEF OrdersInv
  <1>4. ASSUME NEW o \in Order, NEW target \in Targets, Propose(o, target)
        PROVE  OrdersInv'
    BY <1>4, ProposeKeeps
  <1>5. CASE SendButtons \/ Attach
    BY <1>5, SendKeeps, AttachKeeps
  <1>6. CASE EditBegin \/ EditMessage \/ Edited
    BY <1>6, EditBeginKeeps, EditMessageKeeps, EditedKeeps
  <1>7. CASE EditsUnavailable \/ Restart
    BY <1>7, ForgetKeeps DEF EditsUnavailable, Restart
  <1>8. ASSUME NEW s \in Slice, Move(s)
        PROVE  OrdersInv'
    BY <1>8, SliceMoveKeeps
  <1>9. CASE UNCHANGED orderVars
    BY <1>9 DEF orderVars, OrdersInv, TypeOK, Sound, Sending, Editing, Edits, MessageAgrees
  <1> QED
    BY <1>1, <1>2, <1>3, <1>4, <1>5, <1>6, <1>7, <1>8, <1>9 DEF Next, BotStep

THEOREM OrdersCorrect == Spec => []OrdersInv
  BY OrdersInit, OrdersStep, PTL DEF Spec

\* Orders, messages and the bot's memory keep their types.
THEOREM OrdersTypes == Spec => []TypeOK
  BY OrdersCorrect, PTL DEF OrdersInv

\* A message with nothing pending says what its order is, and has buttons
\* under a proposal only, whatever fails between an edit and its mark.
THEOREM MessagesAgree == Spec => []MessageAgrees
  BY OrdersCorrect, PTL DEF OrdersInv

-----------------------------------------------------------------------------
(* What the owner queues.                                                  *)

LEMMA ReconciledStatus ==
  ASSUME TypeOK, NEW o \in Order
  PROVE  /\ Reconciled[o].status = orders[o].status
            \/ (orders[o].status \in Open /\ Reconciled[o].status = "overtaken")
         /\ Reconciled[o].status = "proposed" =>
              Reconciled[o] = orders[o] /\ ~Changed(orders[o])
  <1>1. orders[o] \in Records
    BY DEF TypeOK, Records
  <1>2. CASE orders[o].status \in Open /\ Changed(orders[o])
    <2>1. Reconciled[o] = Overtaken(orders[o])
      BY <1>2 DEF Reconciled
    <2>2. Reconciled[o].status = "overtaken"
      BY <1>1, <2>1 DEF Overtaken, Records
    <2> QED BY <1>2, <2>2
  <1>3. CASE ~(orders[o].status \in Open /\ Changed(orders[o]))
    BY <1>3 DEF Reconciled, Open
  <1> QED BY <1>2, <1>3

\* No other step makes an order queued.
LEMMA OnlyTapQueues ==
  ASSUME OrdersInv, [Next]_orderVars, NEW o \in Order,
         orders[o].status # "queued", orders'[o].status = "queued"
  PROVE  Tap(o, TRUE) /\ orders[o].status = "proposed" /\ Reconciled[o].status = "proposed"
  <1>0. TypeOK /\ \A p \in Order : orders[p] \in Records
    BY DEF OrdersInv, TypeOK, Records
  <1>1. Reconciled[o].status # "queued"
    BY <1>0, ReconciledStatus
  <1>2. CASE Refresh
    BY <1>1, <1>2 DEF Refresh
  <1>3. ASSUME NEW p \in Order, NEW yes \in BOOLEAN, Tap(p, yes)
        PROVE  Tap(o, TRUE) /\ orders[o].status = "proposed" /\ Reconciled[o].status = "proposed"
    <2> DEFINE now == IF yes THEN Reconciled ELSE orders
    <2>1. now \in [Order -> Records]
      BY <1>0, ReconciledMoves DEF TypeOK, Records
    <2>2. now[o].status # "queued"
      BY <1>1
    <2>3. orders' # now
      BY <2>2
    <2>4. now[p].status = "proposed" /\ orders[p].status = "proposed"
      BY <1>3, <2>3 DEF Tap
    <2>5. \A q \in Order \ {p} : orders'[q] = now[q]
      BY <1>3, <2>1 DEF Tap
    <2>6. p = o
      BY <2>2, <2>5
    <2>7. orders'[o].status = IF yes THEN "queued" ELSE "cancelled"
      BY <1>3, <2>1, <2>4, <2>6 DEF Tap, Records
    <2> QED BY <1>3, <2>4, <2>6, <2>7
  <1>4. ASSUME NEW p \in Order, NEW outcome \in Outcome, Ack(p, outcome)
        PROVE  FALSE
    BY <1>0, <1>4 DEF Ack, Outcome, TypeOK, Records
  <1>5. ASSUME NEW p \in Order, NEW target \in Targets, Propose(p, target)
        PROVE  FALSE
    <2>1. PICK data \in {orders, Reconciled} : orders' = [data EXCEPT ![p] = Proposed(target)]
      BY <1>5 DEF Propose
    <2>2. data \in [Order -> Records] /\ data[o].status # "queued"
      BY <1>0, <1>1, <2>1, ReconciledMoves DEF TypeOK, Records
    <2> QED BY <2>1, <2>2 DEF Proposed
  <1>6. CASE Attach
    BY <1>0, <1>6 DEF Attach, TypeOK, Records
  <1>7. CASE SendButtons \/ EditBegin \/ EditMessage \/ EditsUnavailable \/ Restart
             \/ (\E s \in Slice : Move(s)) \/ UNCHANGED orderVars
    BY <1>7 DEF SendButtons, EditBegin, EditMessage, EditsUnavailable, Restart, Move, orderVars
  <1>8. CASE Edited
    BY <1>0, <1>8 DEF Edited, OrdersInv, TypeOK, Records
  <1> QED BY <1>2, <1>3, <1>4, <1>5, <1>6, <1>7, <1>8 DEF Next, BotStep

\* A Yes queues an order only while its slice is what its message showed and
\* permits it.
THEOREM QueuedAreShown == Spec => QueuedAsShown
  <1>1. ASSUME OrdersInv, [Next]_orderVars
        PROVE  \A o \in Order :
                 orders[o].status # "queued" /\ orders'[o].status = "queued"
                 /\ orders[o].target \in Slice
                 => slices[orders[o].target] = [snap |-> orders[o].expect, permits |-> TRUE]
    <2> SUFFICES ASSUME NEW o \in Order,
                        orders[o].status # "queued", orders'[o].status = "queued",
                        orders[o].target \in Slice
                 PROVE  slices[orders[o].target] = [snap |-> orders[o].expect, permits |-> TRUE]
      OBVIOUS
    <2>1. Reconciled[o].status = "proposed"
      BY <1>1, OnlyTapQueues
    <2>2. ~Changed(orders[o])
      BY <1>1, <2>1, ReconciledStatus DEF OrdersInv
    <2>3. slices[orders[o].target] \in View \cup {Gone}
      BY <1>1 DEF OrdersInv, TypeOK
    <2> QED BY <2>2, <2>3 DEF Changed, View, Gone
  <1> QED BY <1>1, OrdersCorrect, PTL DEF Spec, QueuedAsShown

-----------------------------------------------------------------------------
(* The transitions of operations.md.                                       *)

statuses == [o \in Order |-> orders[o].status]

\* Some open orders are overtaken, and one other may be answered.
LEMMA LifeStep ==
  ASSUME NEW data, \A o \in Order : data[o].status = orders[o].status
           \/ (orders[o].status \in Open /\ data[o].status = "overtaken"),
         NEW p \in Order, NEW s,
         \A o \in Order \ {p} : orders'[o].status = data[o].status,
         orders'[p].status = s,
         s = data[p].status \/ (data[p].status = orders[p].status
                                 /\ s \in Life!Answered(orders[p].status))
  PROVE  Life!Next
  <1> DEFINE late   == {o \in Order : data[o].status # orders[o].status}
             pulled == [o \in Order |-> IF o \in late THEN "overtaken" ELSE statuses[o]]
  <1>1. late \in SUBSET {o \in Order : statuses[o] \in Life!Open}
    BY DEF statuses, Open, Life!Open
  <1>2. \A o \in Order : pulled[o] = data[o].status
    BY DEF statuses
  <1>3. CASE s = data[p].status
    <2>1. statuses' = pulled
      BY <1>2, <1>3 DEF statuses
    <2> QED BY <1>1, <2>1 DEF Life!Next, statuses
  <1>4. CASE data[p].status = orders[p].status /\ s \in Life!Answered(orders[p].status)
    <2>1. p \in Order \ late /\ s \in Life!Answered(statuses[p])
      BY <1>4 DEF statuses
    <2>2. statuses' = [pulled EXCEPT ![p] = s]
      BY <1>2 DEF statuses
    <2>3. \E q \in Order \ late : \E t \in Life!Answered(statuses[q]) :
            statuses' = [pulled EXCEPT ![q] = t]
      BY <2>1, <2>2
    <2> HIDE DEF pulled
    <2> QED BY <1>1, <2>3 DEF Life!Next, statuses, pulled
  <1> QED BY <1>3, <1>4

\* Every step answers and overtakes as documented, or changes no status.
LEMMA OrdersRefine ==
  ASSUME OrdersInv, [Next]_orderVars
  PROVE  Life!Next \/ statuses' = statuses
  <1>0. TypeOK /\ orders \in [Order -> Records]
    BY DEF OrdersInv, TypeOK, Records
  <1>1. Reconciled \in [Order -> Records]
        /\ \A o \in Order : Reconciled[o].status = orders[o].status
             \/ (orders[o].status \in Open /\ Reconciled[o].status = "overtaken")
    BY <1>0, ReconciledMoves, ReconciledStatus
  <1>2. CASE Refresh
    <2>1. CASE Order = {}
      BY <2>1 DEF statuses
    <2>2. ASSUME NEW p \in Order
          PROVE  Life!Next
      BY <1>1, <1>2, LifeStep DEF Refresh
    <2> QED BY <2>1, <2>2
  <1>3. ASSUME NEW p \in Order, NEW yes \in BOOLEAN, Tap(p, yes)
        PROVE  Life!Next
    <2> DEFINE now == IF yes THEN Reconciled ELSE orders
    <2>1. /\ now \in [Order -> Records]
          /\ \A o \in Order : now[o].status = orders[o].status
               \/ (orders[o].status \in Open /\ now[o].status = "overtaken")
      BY <1>0, <1>1
    <2>2. CASE now[p].status # "proposed"
      BY <1>3, <2>1, <2>2, LifeStep DEF Tap
    <2>3. CASE now[p].status = "proposed"
      <3>1. orders[p].status = "proposed"
        BY <1>3 DEF Tap
      <3>2. \A o \in Order \ {p} : orders'[o].status = now[o].status
        BY <1>3, <2>1, <2>3 DEF Tap
      <3>3. orders'[p].status \in {"queued", "cancelled"}
        BY <1>3, <2>1, <2>3 DEF Tap, Records
      <3>4. orders'[p].status \in Life!Answered(orders[p].status)
        BY <3>1, <3>3 DEF Life!Answered, Life!Answers
      <3> HIDE DEF now
      <3> QED BY <2>1, <2>3, <3>1, <3>2, <3>4, LifeStep
    <2> QED BY <2>2, <2>3
  <1>4. ASSUME NEW p \in Order, NEW outcome \in Outcome, Ack(p, outcome)
        PROVE  Life!Next
    <2>1. orders[p].status = "queued"
      BY <1>4 DEF Ack
    <2>2. orders'[p].status = outcome /\ \A o \in Order \ {p} : orders'[o] = orders[o]
      BY <1>0, <1>4 DEF Ack, Records
    <2>3. outcome \in Life!Answered(orders[p].status)
      BY <2>1 DEF Life!Answered, Life!Answers, Outcome
    <2> QED BY <2>2, <2>3, LifeStep
  <1>5. ASSUME NEW p \in Order, NEW target \in Targets, Propose(p, target)
        PROVE  Life!Next
    <2>1. PICK data \in {orders, Reconciled} : orders' = [data EXCEPT ![p] = Proposed(target)]
      BY <1>5 DEF Propose
    <2>2. /\ data \in [Order -> Records]
          /\ \A o \in Order : data[o].status = orders[o].status
               \/ (orders[o].status \in Open /\ data[o].status = "overtaken")
      BY <1>0, <1>1, <2>1
    <2>3. orders[p].status = "none" /\ data[p].status = "none"
      BY <1>5, <2>2 DEF Propose, Open
    <2>4. \A o \in Order \ {p} : orders'[o].status = data[o].status
      BY <2>1, <2>2
    <2>5. orders'[p].status = "proposed"
      BY <2>1, <2>2 DEF Proposed
    <2>6. "proposed" \in Life!Answered(orders[p].status)
      BY <2>3 DEF Life!Answered, Life!Answers
    <2> QED BY <2>2, <2>3, <2>4, <2>5, <2>6, LifeStep
  <1>6. CASE Attach
    BY <1>0, <1>6 DEF Attach, Records, statuses
  <1>7. CASE Edited
    BY <1>0, <1>7 DEF Edited, OrdersInv, TypeOK, Records, statuses
  <1>8. CASE SendButtons \/ EditBegin \/ EditMessage \/ EditsUnavailable \/ Restart
             \/ (\E s \in Slice : Move(s)) \/ UNCHANGED orderVars
    BY <1>8 DEF SendButtons, EditBegin, EditMessage, EditsUnavailable, Restart, Move, orderVars,
                statuses
  <1> QED BY <1>2, <1>3, <1>4, <1>5, <1>6, <1>7, <1>8 DEF Next, BotStep

\* Orders implements OrderLife: an order moves as documented, and a closed one
\* never again, through repeated receipts, late taps, pulls and restarts.
THEOREM OrdersImplementLife == Spec => LifeSpec
  <1>1. Init => Life!Init
    BY DEF Init, NoOrder, Life!Init
  <1>2. OrdersInv /\ [Next]_orderVars => [Life!Next]_[o \in Order |-> orders[o].status]
    BY OrdersRefine DEF statuses
  <1> QED BY <1>1, <1>2, OrdersCorrect, PTL DEF Spec, LifeSpec, Life!Spec

=============================================================================

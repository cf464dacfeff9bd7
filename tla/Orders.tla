-------------------------------- MODULE Orders --------------------------------
(***************************************************************************)
(* Orders of the Telegram bot (orders.py, bot.py): proposals with buttons, *)
(* taps, receipts of the collector and edits of the messages, against      *)
(* scheduler state that moves.                                             *)
(*                                                                         *)
(* Every method of Orders is one action: it holds the planning lock, and   *)
(* its save replaces the file.  What lies between two of them (a message   *)
(* being sent, an edit in flight) is where the bot can be overtaken or     *)
(* die.  The scheduler's files move at any time; the methods that refresh  *)
(* twice read twice, which is a Refresh before the action.                 *)
(*                                                                         *)
(* An operator whose name begins with Mutant is a plausible bug in the     *)
(* definition that follows it, for testing the properties; nothing uses it.*)
(***************************************************************************)
EXTENDS Naturals, FiniteSets

CONSTANTS
  Order,     \* orders that may be proposed
  Slice,     \* slices of the scheduler
  Snapshot,  \* what snapshot() tells apart: state, pause and attention
  MaxMoves,  \* bound: changes of the scheduler's state
  MaxFaults  \* bound: deaths of the bot and messages that fail

ASSUME Bounds == MaxMoves \in Nat /\ MaxFaults \in Nat

Status  == {"none", "proposed", "queued", "cancelled", "overtaken", "done", "dropped", "failed"}
Open    == {"proposed", "queued"}
Outcome == {"done", "dropped", "failed"}

\* A slice as the scheduler exports it: its snapshot, and whether the action of
\* an order for it is permitted, which the snapshot does not decide (an answer
\* or an approval may be given while the attention stays the same).
View == [snap : Snapshot, permits : BOOLEAN]

Gone == [snap |-> "gone", permits |-> FALSE]

VARIABLES
  slices,  \* the scheduler's exported state
  orders,  \* orders.json
  phone,   \* what the owner's message for an order shows
  handler, \* the order whose message the update handler is sending, and how far
  todo,    \* orders the pass of edit_orders has still to edit, as it read them
  inFlight,\* the edit that succeeded and is not yet marked
  moves,   \* counted for the bound
  faults   \* counted for the bound

orderVars == <<slices, orders, phone, handler, todo, inFlight, moves, faults>>

\* An order of the main orchestrator or of a repository expects nothing.
Targets == Slice \cup {"orchestrator"}

NoOrder == [status |-> "none", target |-> "orchestrator", expect |-> "nothing",
            attached |-> FALSE, dirty |-> FALSE]

Idle == [at |-> "idle", order |-> "none"]

\* changed(): the slice is gone, its snapshot differs or its precondition does
\* not hold any more.
Changed(order) ==
  /\ order.target \in Slice
  /\ \/ slices[order.target].snap # order.expect
     \/ ~slices[order.target].permits

MutantOvertaken(order) == [order EXCEPT !.status = "overtaken"]

\* An open order that the scheduler has overtaken.
Overtaken(order) == [order EXCEPT !.status = "overtaken", !.dirty = TRUE]

\* reconcile: all open orders against the scheduler's state.
Reconciled ==
  [o \in Order |-> IF orders[o].status \in Open /\ Changed(orders[o])
                   THEN Overtaken(orders[o]) ELSE orders[o]]

Init ==
  /\ slices \in [Slice -> View]
  /\ orders = [o \in Order |-> NoOrder]
  /\ phone = [o \in Order |-> "nothing"]
  /\ handler = Idle /\ todo = {} /\ inFlight = {}
  /\ moves = 0 /\ faults = 0

Fault == faults < MaxFaults /\ faults' = faults + 1

-----------------------------------------------------------------------------
(* The update handler, one update at a time.                               *)

\* refresh: a pull, by a command or a poll for notices; when the scheduler's
\* data cannot be read reconciliation waits for the next.
Refresh ==
  /\ orders' = Reconciled
  /\ UNCHANGED <<slices, phone, handler, todo, inFlight, moves, faults>>

\* The order that a proposal becomes.
Proposed(target) ==
  [status |-> "proposed", target |-> target,
   expect |-> IF target \in Slice THEN slices[target].snap ELSE "nothing",
   attached |-> FALSE, dirty |-> FALSE]

\* propose: validated against the slice and saved.  The refresh before it read
\* the same state, or an earlier one that Refresh stands for, or could not read.
Propose(o, target) ==
  /\ handler = Idle /\ orders[o].status = "none"
  /\ target \in Slice => slices[target].permits
  /\ \E data \in {orders, Reconciled} : orders' = [data EXCEPT ![o] = Proposed(target)]
  /\ handler' = [at |-> "send", order |-> o]
  /\ UNCHANGED <<slices, phone, todo, inFlight, moves, faults>>

\* The message with the buttons arrives; its answer, or the message, may be
\* lost, and then the order is never attached to it.
SendButtons ==
  /\ handler.at = "send"
  /\ \/ /\ phone' = [phone EXCEPT ![handler.order] = "buttons"]
        /\ handler' = [handler EXCEPT !.at = "attach"]
        /\ UNCHANGED faults
     \/ /\ Fault
        /\ phone' \in {phone, [phone EXCEPT ![handler.order] = "buttons"]}
        /\ handler' = Idle
  /\ UNCHANGED <<slices, orders, todo, inFlight, moves>>

\* attach: an order that was overtaken meanwhile has its message to edit.
Attach ==
  /\ handler.at = "attach"
  /\ orders' = [orders EXCEPT ![handler.order].attached = TRUE,
                               ![handler.order].dirty = (orders[handler.order].status # "proposed")]
  /\ handler' = Idle
  /\ UNCHANGED <<slices, phone, todo, inFlight, moves, faults>>

MutantTap(o, yes) ==
  /\ handler = Idle /\ phone[o] = "buttons" /\ orders[o].status = "proposed"
  /\ orders' = [orders EXCEPT ![o] = [@ EXCEPT !.status = IF yes THEN "queued" ELSE "cancelled",
                                               !.dirty = TRUE]]
  /\ UNCHANGED <<slices, phone, handler, todo, inFlight, moves, faults>>

\* tap: No needs no pull; Yes queues what is still as it was shown.  A tap on a
\* closed order, or one whose pull fails, changes nothing.
Tap(o, yes) ==
  /\ handler = Idle /\ phone[o] = "buttons" /\ orders[o].status = "proposed"
  /\ LET now   == IF yes THEN Reconciled ELSE orders
         taken == [now[o] EXCEPT !.status = IF yes THEN "queued" ELSE "cancelled", !.dirty = TRUE]
     IN orders' = IF now[o].status = "proposed" THEN [now EXCEPT ![o] = taken] ELSE now
  /\ UNCHANGED <<slices, phone, handler, todo, inFlight, moves, faults>>

-----------------------------------------------------------------------------
(* The listener's thread.                                                  *)

MutantAck(o, outcome) ==
  /\ orders[o].status # "none"
  /\ orders' = [orders EXCEPT ![o] = [@ EXCEPT !.status = outcome, !.dirty = TRUE]]
  /\ UNCHANGED <<slices, phone, handler, todo, inFlight, moves, faults>>

\* ack: any receipt, repeated or late, of any order the store knows; one for an
\* order that is not queued is accepted and changes nothing.
Ack(o, outcome) ==
  /\ orders[o].status = "queued"
  /\ orders' = [orders EXCEPT ![o] = [@ EXCEPT !.status = outcome, !.dirty = TRUE]]
  /\ UNCHANGED <<slices, phone, handler, todo, inFlight, moves, faults>>

-----------------------------------------------------------------------------
(* edit_orders, one pass at a time; a tap's own pass is one of them.       *)

Pending == {o \in Order : orders[o].dirty /\ orders[o].attached}

\* pending_edits copies the orders, and the lock is gone.
EditBegin ==
  /\ todo = {} /\ inFlight = {} /\ Pending # {}
  /\ todo' = {<<o, orders[o].status>> : o \in Pending}
  /\ UNCHANGED <<slices, orders, phone, handler, inFlight, moves, faults>>

\* The edit succeeds or finds its text there already; it fails, or its answer
\* is lost, and is left to a later pass.
EditMessage ==
  /\ inFlight = {}
  /\ \E e \in todo :
       /\ todo' = todo \ {e}
       /\ \/ /\ phone' = [phone EXCEPT ![e[1]] = e[2]] /\ inFlight' = {e}
             /\ UNCHANGED faults
          \/ /\ Fault
             /\ phone' \in {phone, [phone EXCEPT ![e[1]] = e[2]]}
             /\ UNCHANGED inFlight
  /\ UNCHANGED <<slices, orders, handler, moves>>

MutantEdited ==
  /\ \E e \in inFlight : orders' = [orders EXCEPT ![e[1]].dirty = FALSE]
  /\ inFlight' = {}
  /\ UNCHANGED <<slices, phone, handler, todo, moves, faults>>

\* edited: marked only if the order is still what the message now says.
Edited ==
  /\ \E e \in inFlight :
       orders' = IF orders[e[1]].status = e[2] THEN [orders EXCEPT ![e[1]].dirty = FALSE]
                 ELSE orders
  /\ inFlight' = {}
  /\ UNCHANGED <<slices, phone, handler, todo, moves, faults>>

\* The store cannot be read or written: the pass ends where it is.
EditsUnavailable ==
  /\ Fault
  /\ inFlight # {}
  /\ todo' = {} /\ inFlight' = {}
  /\ UNCHANGED <<slices, orders, phone, handler, moves>>

-----------------------------------------------------------------------------
\* The bot dies, and what it holds in memory goes with it.
Restart ==
  /\ Fault
  /\ handler' = Idle /\ todo' = {} /\ inFlight' = {}
  /\ UNCHANGED <<slices, orders, phone, moves>>

\* The orchestrator works on a slice, answers it or removes it.
Move(s) ==
  /\ moves < MaxMoves
  /\ moves' = moves + 1
  /\ \E view \in View \cup {Gone} : slices' = [slices EXCEPT ![s] = view] /\ view # slices[s]
  /\ UNCHANGED <<orders, phone, handler, todo, inFlight, faults>>

BotStep ==
  \/ \E o \in Order, target \in Targets : Propose(o, target)
  \/ SendButtons \/ Attach
  \/ \E o \in Order, yes \in BOOLEAN : Tap(o, yes)
  \/ EditBegin \/ EditMessage \/ Edited \/ EditsUnavailable

Next ==
  \/ BotStep \/ Refresh \/ Restart
  \/ \E o \in Order, outcome \in Outcome : Ack(o, outcome)
  \/ \E s \in Slice : Move(s)

Spec == Init /\ [][Next]_orderVars

\* The edit loop runs every second and its requests are answered in the end.
EditFairness ==
  WF_orderVars(EditBegin) /\ WF_orderVars(EditMessage) /\ WF_orderVars(Edited)

FairSpec == Spec /\ EditFairness

-----------------------------------------------------------------------------
(* Properties.                                                             *)

TypeOK ==
  /\ slices \in [Slice -> View \cup {Gone}]
  /\ orders \in [Order -> [status : Status, target : Targets, expect : Snapshot \cup {"nothing"},
                           attached : BOOLEAN, dirty : BOOLEAN]]
  /\ phone \in [Order -> {"nothing", "buttons"} \cup Status]
  /\ handler \in [at : {"idle", "send", "attach"}, order : Order \cup {"none"}]
  /\ todo \subseteq Order \X Status
  /\ inFlight \subseteq Order \X Status /\ Cardinality(inFlight) <= 1
  /\ moves \in 0..MaxMoves /\ faults \in 0..MaxFaults

\* operations.md: what "leaves the queue" has its message edited; a message
\* whose order has nothing pending says what the order is, and buttons are
\* under a proposal only.
MessageAgrees ==
  \A o \in Order :
    orders[o].attached /\ ~orders[o].dirty =>
      phone[o] = IF orders[o].status = "proposed" THEN "buttons" ELSE orders[o].status

\* operations.md: "Yes refreshes before queuing": an order enters the queue
\* only while its slice is what its message showed and permits it.
QueuedAsShown ==
  [][\A o \in Order :
       orders[o].status # "queued" /\ orders'[o].status = "queued" /\ orders[o].target \in Slice
       => slices[orders[o].target] = [snap |-> orders[o].expect, permits |-> TRUE]]_orderVars

\* operations.md: "pending edits retry every second and survive restarts".
MessageFollows ==
  \A o \in Order :
    orders[o].attached /\ orders[o].status \notin Open ~> phone[o] = orders[o].status

\* operations.md: "Transitions are ...", and no others.
Life == INSTANCE OrderLife WITH status <- [o \in Order |-> orders[o].status]

LifeSpec == Life!Spec
=============================================================================

------------------------------ MODULE ImageCosts ------------------------------
(***************************************************************************)
(* What images cost: the LiteLLM hooks (litellm_hooks.py) take the charge  *)
(* of each image request from the provider's answer and add it to the      *)
(* month's total in the database, and image_costs.py tells the owner's     *)
(* phone once when a month's total reaches 80 and 100 percent of the       *)
(* budget.                                                                 *)
(*                                                                         *)
(* The charge is learnt before the answer is checked, and is recorded after*)
(* it: the proxy may die in between, the database may fail with or without *)
(* having committed, and the month may turn.  Alerts go out from inside a  *)
(* transaction that marks them as sent, by any number of senders.          *)
(*                                                                         *)
(* An operator whose name begins with Mutant is a plausible bug in the     *)
(* definition that follows it, for testing the properties; nothing uses it.*)
(***************************************************************************)
EXTENDS Naturals, FiniteSets, Functions

CONSTANTS
  Request,    \* image requests
  Upscale,    \* those among them that upscale an image
  Sender,     \* runs of the alerts: the timer's and the owner's
  Amount,     \* what a charge may be
  Budget,     \* HOMELAB_IMAGE_MONTHLY_BUDGET_USD
  MaxMonth,   \* bound: months
  MaxFaults   \* bound: failures of the database, the notifier or the proxy

ASSUME RequestAssumption == Upscale \subseteq Request /\ IsFiniteSet(Request)
ASSUME AmountAssumption  == Amount \subseteq Nat /\ Budget \in Nat \ {0}
ASSUME BoundAssumption   == MaxMonth \in Nat \ {0} /\ MaxFaults \in Nat

Month == 1..MaxMonth

Threshold == {80, 100}

VARIABLES
  month,  \* the calendar
  req,    \* the image requests
  total,  \* total_usd of each month
  sent,   \* sent_80, sent_100 of each month's sentinel row
  sender, \* where each run of send_alerts is
  told,   \* how often each month's alerts reached the phone
  failed, \* how often their sending or marking failed
  faults  \* counted for the bound

requestVars == <<req, total>>
alertVars   == <<sent, sender, told, failed>>
vars == <<month, requestVars, alertVars, faults>>

\* A charge the provider may make and name: an amount, or none that is known.
Unknown == [known |-> FALSE, usd |-> 0]
Charge  == {Unknown} \cup [known : {TRUE}, usd : Amount]

\* A request is asked for, sent to the provider, has its answer captured, its
\* charge settled, and is over, answered or lost with the proxy.
At == {"free", "asked", "sent", "captured", "settled", "answered", "lost"}

\* ok: the status the client will get is below 400.  named: what the provider
\* named as the debit.  cost: what is to be recorded.  shown: the client was
\* told the cost.  month: cost_month; 0 before it is fixed.
Free == [at |-> "free", ok |-> TRUE, named |-> Unknown, cost |-> Unknown,
         month |-> 0, shown |-> FALSE]

Idle == [at |-> "idle", month |-> 1, threshold |-> 80]

Init ==
  /\ month = 1
  /\ req = [r \in Request |-> Free]
  /\ total = [m \in Month |-> 0]
  /\ sent = [m \in Month |-> {}]
  /\ sender = [s \in Sender |-> Idle]
  /\ told = [m \in Month |-> [t \in Threshold |-> 0]]
  /\ failed = told /\ faults = 0

Fault == faults < MaxFaults /\ faults' = faults + 1

\* The month turns.
Turn ==
  /\ month < MaxMonth /\ month' = month + 1
  /\ UNCHANGED <<requestVars, alertVars, faults>>

-----------------------------------------------------------------------------
(* Image requests, in litellm_hooks.py.                                    *)

Set(r, record) == req' = [req EXCEPT ![r] = record]

\* A request that dispatch lets through: everything before is a refusal that
\* reaches neither the provider nor the database.
Ask(r) ==
  /\ req[r].at = "free"
  /\ Set(r, [Free EXCEPT !.at = "asked"])
  /\ UNCHANGED <<month, total, alertVars, faults>>

\* ensure_image_accounting: nothing is sent that could not be recorded.
Account(r) ==
  /\ req[r].at = "asked" /\ Set(r, [req[r] EXCEPT !.at = "sent"])
  /\ UNCHANGED <<month, total, alertVars, faults>>

AccountFails(r) ==
  /\ Fault /\ req[r].at = "asked"
  /\ Set(r, [req[r] EXCEPT !.at = "answered", !.ok = FALSE])
  /\ UNCHANGED <<month, total, alertVars>>

\* The provider's answer, seen before the library judges it: a debit in a header
\* or in the metadata, or none named; an image, or an error; and an answer that
\* the library rejects after all.  The month is fixed here.
Capture(r) ==
  /\ req[r].at = "sent" /\ r \notin Upscale
  /\ \E charge \in Charge, ok \in BOOLEAN :
       Set(r, [req[r] EXCEPT !.at = "captured", !.ok = ok, !.named = charge,
                             !.month = month])
  /\ UNCHANGED <<month, total, alertVars, faults>>

\* upscale_image asks the provider itself: its answer is looked at for a debit
\* and an image, and fixes no month.
Upscaled(r) ==
  /\ req[r].at = "sent" /\ r \in Upscale
  /\ \E charge \in Charge, ok \in BOOLEAN :
       Set(r, [req[r] EXCEPT !.at = "captured", !.ok = ok, !.named = charge])
  /\ UNCHANGED <<month, total, alertVars, faults>>

\* No answer: nothing is known of a charge.
NoAnswer(r) ==
  /\ req[r].at = "sent"
  /\ Set(r, [req[r] EXCEPT !.at = "captured", !.ok = FALSE])
  /\ UNCHANGED <<month, total, alertVars, faults>>

MutantSettled(rec, estimate) ==
  IF rec.ok THEN IF rec.named.known THEN rec.named ELSE estimate ELSE Unknown

\* The named debit counts, even of a failed request unless it is nothing; else,
\* for a success, the library's estimate if it is more than nothing.
Settled(rec, estimate) ==
  IF rec.named.known
  THEN IF rec.ok \/ rec.named.usd > 0 THEN rec.named ELSE Unknown
  ELSE IF rec.ok /\ estimate.usd > 0 THEN estimate ELSE Unknown

\* finish_image_response up to its save: the body may still prove unreadable,
\* which makes the request a failure.
Finish(r) ==
  /\ req[r].at = "captured"
  /\ \E readable \in BOOLEAN, estimate \in Charge :
       LET rec  == [req[r] EXCEPT !.ok = @ /\ readable,
                                  !.month = IF @ = 0 THEN month ELSE @]
           cost == Settled(rec, IF r \in Upscale THEN Unknown ELSE estimate)
       IN  Set(r, [rec EXCEPT !.at = IF cost.known THEN "settled" ELSE "answered",
                              !.cost = cost])
  /\ UNCHANGED <<month, total, alertVars, faults>>

\* persist_image_cost: one row for the month, added to.
Recorded(r) == total' = [total EXCEPT ![req[r].month] = @ + req[r].cost.usd]

Persist(r) ==
  /\ req[r].at = "settled" /\ Recorded(r)
  /\ Set(r, [req[r] EXCEPT !.at = "answered", !.shown = TRUE])
  /\ UNCHANGED <<month, alertVars, faults>>

MutantPersistFails(r) ==
  /\ Fault /\ req[r].at = "settled"
  /\ Recorded(r) \/ UNCHANGED total
  /\ Set(r, [req[r] EXCEPT !.at = "captured", !.ok = FALSE])
  /\ UNCHANGED <<month, alertVars>>

\* The save failed, or committed and its answer was lost: the client gets an
\* error, and the cost with it.
PersistFails(r) ==
  /\ Fault /\ req[r].at = "settled"
  /\ Recorded(r) \/ UNCHANGED total
  /\ Set(r, [req[r] EXCEPT !.at = "answered", !.ok = FALSE, !.shown = TRUE])
  /\ UNCHANGED <<month, alertVars>>

InFlight == {r \in Request : req[r].at \in {"asked", "sent", "captured", "settled"}}

\* The charges of a month's requests at some of their stages.
Charges(m, stage) ==
  SumFunctionOnSet([r \in Request |-> req[r].cost.usd], {r \in stage : req[r].month = m})

\* The proxy restarts: what was in flight is lost, charged or not.  Of those that
\* waited for their save, some had it committed.
Restart ==
  /\ Fault /\ InFlight # {}
  /\ req' = [r \in Request |-> IF r \in InFlight THEN [req[r] EXCEPT !.at = "lost"] ELSE req[r]]
  /\ \E through \in SUBSET {r \in Request : req[r].at = "settled"} :
       total' = [m \in Month |-> total[m] + Charges(m, through)]
  /\ UNCHANGED <<month, alertVars>>

-----------------------------------------------------------------------------
(* Alerts, in image_costs.py: one transaction for each threshold.          *)

\* The least total that is t percent of the budget.
Limit(t) == (Budget * t + 99) \div 100

Reached(m, t) == total[m] >= Limit(t)

Goto(s, at) == sender' = [sender EXCEPT ![s].at = at]

\* The timer, or the owner, starts a run; it is about the month of now.
Start(s) ==
  /\ sender[s].at = "idle"
  /\ sender' = [sender EXCEPT ![s] = [at |-> "look", month |-> month, threshold |-> 80]]
  /\ UNCHANGED <<month, requestVars, sent, told, failed, faults>>

MutantUnlocked(s) == TRUE

\* FOR UPDATE: the month's sentinel row is in no other transaction.
Unlocked(s) ==
  \A o \in Sender : sender[o].at \in {"send", "mark"} => sender[o].month # sender[s].month

\* A threshold is dealt with: the next one, or the end of the run.
Onward(s) ==
  sender' = [sender EXCEPT ![s] = IF @.threshold = 80
                                  THEN [@ EXCEPT !.at = "look", !.threshold = 100]
                                  ELSE Idle]

Due(s) ==
  /\ sender[s].threshold \notin sent[sender[s].month]
  /\ Reached(sender[s].month, sender[s].threshold)

\* Lock, look at the flag and the total, and decide.
Look(s) ==
  /\ sender[s].at = "look" /\ Unlocked(s)
  /\ IF Due(s) THEN Goto(s, "send") ELSE Onward(s)
  /\ UNCHANGED <<month, requestVars, sent, told, failed, faults>>

Rings(s) == told' = [told EXCEPT ![sender[s].month][sender[s].threshold] = @ + 1]

\* The notifier confirms that the message went out.
Deliver(s) ==
  /\ sender[s].at = "send" /\ Rings(s) /\ Goto(s, "mark")
  /\ UNCHANGED <<month, requestVars, sent, failed, faults>>

Marked(s) == sent' = [sent EXCEPT ![sender[s].month] = @ \cup {sender[s].threshold}]

Mark(s) ==
  /\ sender[s].at = "mark" /\ Marked(s) /\ Onward(s)
  /\ UNCHANGED <<month, requestVars, told, failed, faults>>

MutantSendFails(s) ==
  /\ Fault /\ sender[s].at \in {"send", "mark"}
  /\ sender' = [sender EXCEPT ![s] = Idle]
  /\ failed' = [failed EXCEPT ![sender[s].month][sender[s].threshold] = @ + 1]
  /\ Marked(s) /\ UNCHANGED <<month, requestVars, told>>

\* The notifier, the database or the run itself fails: the run is over and its
\* transaction undone, unless it had committed; the message may have gone out.
SendFails(s) ==
  /\ Fault /\ sender[s].at \in {"send", "mark"}
  /\ sender' = [sender EXCEPT ![s] = Idle]
  /\ failed' = [failed EXCEPT ![sender[s].month][sender[s].threshold] = @ + 1]
  /\ \/ UNCHANGED <<told, sent>>
     \/ sender[s].at = "send" /\ Rings(s) /\ UNCHANGED sent
     \/ sender[s].at = "mark" /\ Marked(s) /\ UNCHANGED told
  /\ UNCHANGED <<month, requestVars>>

RequestStep(r) ==
  \/ Ask(r) \/ Account(r) \/ AccountFails(r)
  \/ Capture(r) \/ Upscaled(r) \/ NoAnswer(r)
  \/ Finish(r) \/ Persist(r) \/ PersistFails(r)

Send(s) == Look(s) \/ Deliver(s) \/ Mark(s)

Next ==
  \/ Turn \/ Restart
  \/ \E r \in Request : RequestStep(r)
  \/ \E s \in Sender : Start(s) \/ Send(s) \/ SendFails(s)

Spec == Init /\ [][Next]_vars

\* The timer goes on, and a run of the alerts does not stop by itself.
FairSpec ==
  /\ Spec /\ WF_vars(\E s \in Sender : Start(s))
  /\ \A s \in Sender : WF_vars(Send(s))

-----------------------------------------------------------------------------
TypeOK ==
  /\ month \in Month
  /\ req \in [Request -> [at : At, ok : BOOLEAN, named : Charge, cost : Charge,
                         month : Month \cup {0}, shown : BOOLEAN]]
  /\ total \in [Month -> Nat]
  /\ sent \in [Month -> SUBSET Threshold]
  /\ sender \in [Sender -> [at : {"idle", "look", "send", "mark"}, month : Month,
                           threshold : Threshold]]
  /\ told \in [Month -> [Threshold -> Nat]] /\ failed \in [Month -> [Threshold -> Nat]]
  /\ faults \in Nat

\* Each month's total is the charges of its requests, each once.  One answered
\* well is counted; one whose save failed may have been counted or not, and its
\* client is then told so with the cost; one lost with the proxy may have been
\* counted or not.  Nothing is counted twice by an error after the save.
TotalIsExact ==
  \A m \in Month :
    LET kept == {r \in Request : req[r].at = "answered" /\ req[r].ok}
        over == {r \in Request : req[r].at \in {"answered", "lost"}}
    IN  Charges(m, kept) <= total[m] /\ total[m] <= Charges(m, over)

\* A debit the provider named is settled to the cent and shown to the client in
\* every answer, also when the image, the body or the save turn out bad.
NamedIsShown ==
  \A r \in Request : req[r].at = "answered" /\ req[r].named.usd > 0 =>
    req[r].cost = req[r].named /\ req[r].shown

\* However many runs overlap, an alert reaches the phone once, and once more
\* only for each failure between the message and its mark.
AlertOnce ==
  \A m \in Month, t \in Threshold : told[m][t] <= 1 + failed[m][t]

\* A month's total that reaches a threshold is told in the end, through failures
\* of the notifier and the database, unless the month is over before.
AlertComes ==
  \A m \in Month, t \in Threshold : Reached(m, t) ~> (told[m][t] > 0 \/ month > m)
=============================================================================

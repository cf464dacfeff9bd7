-------------------------------- MODULE Outbox --------------------------------
(***************************************************************************)
(* Planning notices of the Telegram bot (planning.py, bot.py): the         *)
(* scheduler's outbox grows and is exported, and the bot sends every new   *)
(* line to every allowlisted recipient, keeping in a marker file how far   *)
(* it got.  A send or a save may fail with or without having taken effect, *)
(* the bot may die between a send and the marker that records it, and the  *)
(* allowlist is read again at each start.                                  *)
(*                                                                         *)
(* An operator whose name begins with Mutant is a plausible bug in the     *)
(* definition that follows it, for testing the properties; nothing uses it.*)
(***************************************************************************)
EXTENDS Naturals, FiniteSets

CONSTANTS
  User,      \* numeric Telegram users that may be allowlisted
  MaxEvents, \* bound: lines of the outbox
  MaxCuts,   \* bound: exports that are behind what was read before
  MaxFaults  \* bound: sends and saves that fail, and deaths of the bot

ASSUME UserAssumption == User \subseteq Nat /\ IsFiniteSet(User)
ASSUME BoundAssumption == MaxEvents \in Nat /\ MaxCuts \in Nat /\ MaxFaults \in Nat

VARIABLES
  written,    \* lines the scheduler has written
  shown,      \* lines the exported copy shows
  recipients, \* the allowlist as this process read it
  begun,      \* the marker file exists
  marker,     \* the marker file: lines done, and who has the next one
  mem,        \* the marker as the pass holds it
  batch,      \* lines of the pass's snapshot of the outbox
  pc,         \* where notify_once is
  last,       \* the last line each user received
  repeats,    \* lines a user received again
  faults,     \* counted for OneRepeatPerFault and the bound
  cuts        \* counted for the bound

file == <<begun, marker>>
pass == <<mem, batch, pc>>
seen == <<last, repeats>>
outboxVars == <<written, shown, recipients, file, pass, seen, faults, cuts>>

Audience == (SUBSET User) \ {{}}

Marker == [line : Nat, sent : SUBSET User]

Least(users) == CHOOSE u \in users : \A v \in users : u <= v

Init ==
  /\ written \in 0..MaxEvents /\ shown = written
  /\ recipients \in Audience
  /\ begun = FALSE /\ marker = [line |-> 0, sent |-> {}]
  /\ mem = marker /\ batch = 0 /\ pc = "idle"
  /\ last = [u \in User |-> 0] /\ repeats = 0
  /\ faults = 0 /\ cuts = 0

\* The scheduler appends a line.
Write ==
  /\ written < MaxEvents /\ written' = written + 1
  /\ UNCHANGED <<shown, recipients, file, pass, seen, faults, cuts>>

\* The export that the bot reads follows.
Export ==
  /\ shown < written /\ shown' = written
  /\ UNCHANGED <<written, recipients, file, pass, seen, faults, cuts>>

\* An export that shows less than an earlier one.
Cut ==
  /\ cuts < MaxCuts /\ cuts' = cuts + 1
  /\ \E n \in 0..shown : n < shown /\ shown' = n
  /\ UNCHANGED <<written, recipients, file, pass, seen, faults>>

\* The first batch: no marker, so the history is skipped.  (Its save can fail
\* too; the file then is there or not.)
Begin ==
  /\ pc = "idle" /\ ~begun
  /\ begun' = TRUE /\ marker' = [line |-> shown, sent |-> {}]
  /\ UNCHANGED <<written, shown, recipients, pass, seen, faults, cuts>>

\* notification_batch: a snapshot of the lines and the marker.  A marker beyond
\* the lines shown, or at their end with recipients marked, raises before
\* anything is sent; one at their end leaves nothing to do.
Fetch ==
  /\ pc = "idle" /\ begun
  /\ marker.line < shown
  /\ mem' = marker /\ batch' = shown /\ pc' = "send"
  /\ UNCHANGED <<written, shown, recipients, file, seen, faults, cuts>>

\* Who has still to receive the line after mem.line.
Left == recipients \ mem.sent

MutantMarked(u) == [line |-> mem.line + 1, sent |-> {}]

\* The marker once u has received it.
Marked(u) ==
  IF recipients \subseteq mem.sent \cup {u}
  THEN [line |-> mem.line + 1, sent |-> {}]
  ELSE [line |-> mem.line, sent |-> mem.sent \cup {u}]

Receives(u) ==
  /\ last' = [last EXCEPT ![u] = mem.line + 1]
  /\ repeats' = IF last[u] = mem.line + 1 THEN repeats + 1 ELSE repeats

\* A send that Telegram confirmed.
Send ==
  /\ pc = "send" /\ Left # {}
  /\ Receives(Least(Left)) /\ mem' = Marked(Least(Left)) /\ pc' = "save"
  /\ UNCHANGED <<written, shown, recipients, file, batch, faults, cuts>>

MutantPass ==
  /\ pc = "send" /\ Left = {} /\ pc' = "idle"
  /\ UNCHANGED <<written, shown, recipients, file, mem, batch, seen, faults, cuts>>

\* Every recipient of now has the line: they received it before a restart that
\* changed the allowlist.
Pass ==
  /\ pc = "send" /\ Left = {}
  /\ mem' = [line |-> mem.line + 1, sent |-> {}] /\ pc' = "save"
  /\ UNCHANGED <<written, shown, recipients, file, batch, seen, faults, cuts>>

MutantSave ==
  /\ pc = "save" /\ marker' = IF mem.sent = {} THEN mem ELSE marker
  /\ pc' = IF mem.line < batch THEN "send" ELSE "idle"
  /\ UNCHANGED <<written, shown, recipients, begun, mem, batch, seen, faults, cuts>>

\* save_marker, and the next line or recipient of the batch.
Save ==
  /\ pc = "save" /\ marker' = mem
  /\ pc' = IF mem.line < batch THEN "send" ELSE "idle"
  /\ UNCHANGED <<written, shown, recipients, begun, mem, batch, seen, faults, cuts>>

Fault == faults < MaxFaults /\ faults' = faults + 1

\* A send that raised: the line may have arrived, and run() starts again.
SendFails ==
  /\ Fault /\ pc = "send" /\ Left # {} /\ pc' = "idle"
  /\ Receives(Least(Left)) \/ UNCHANGED seen
  /\ UNCHANGED <<written, shown, recipients, file, mem, batch, cuts>>

\* A save that raised: the file may have been replaced before.
SaveFails ==
  /\ Fault /\ pc = "save" /\ pc' = "idle"
  /\ marker' \in {marker, mem}
  /\ UNCHANGED <<written, shown, recipients, begun, mem, batch, seen, cuts>>

\* The bot dies during a send or a save, or between two of them.
Die ==
  /\ Fault /\ pc # "down" /\ pc' = "down"
  /\ \/ UNCHANGED <<marker, seen>>
     \/ pc = "send" /\ Left # {} /\ Receives(Least(Left)) /\ UNCHANGED marker
     \/ pc = "save" /\ marker' = mem /\ UNCHANGED seen
  /\ UNCHANGED <<written, shown, recipients, begun, mem, batch, cuts>>

\* systemd starts it again, with the allowlist of now, which is never empty.
Boot ==
  /\ pc = "down" /\ pc' = "idle"
  /\ recipients' \in Audience
  /\ UNCHANGED <<written, shown, file, mem, batch, seen, faults, cuts>>

Next ==
  \/ Write \/ Export \/ Cut
  \/ Begin \/ Fetch \/ Send \/ Pass \/ Save
  \/ SendFails \/ SaveFails \/ Die \/ Boot

Spec == Init /\ [][Next]_outboxVars

\* The exporter, the bot's poll and systemd's restart go on, and a pass is not
\* abandoned half way.
Fairness ==
  /\ WF_outboxVars(Export)
  /\ WF_outboxVars(Begin \/ Fetch)
  /\ WF_outboxVars(Send \/ Pass)
  /\ WF_outboxVars(Save)
  /\ WF_outboxVars(Boot)

FairSpec == Spec /\ Fairness

-----------------------------------------------------------------------------
TypeOK ==
  /\ written \in Nat /\ shown \in Nat /\ recipients \in Audience
  /\ begun \in BOOLEAN /\ marker \in Marker
  /\ mem \in Marker /\ batch \in Nat /\ pc \in {"idle", "send", "save", "down"}
  /\ last \in [User -> Nat] /\ repeats \in Nat /\ faults \in Nat /\ cuts \in Nat

\* Before the marker exists nothing is sent.
NothingBefore == ~begun => pc \in {"idle", "down"} /\ last = [u \in User |-> 0]

\* At a send the pass holds what the file says; while it saves, the file lags by
\* one recipient or by a line that every recipient has.
OneStepAhead ==
  /\ pc = "send" => mem = marker
  /\ pc = "save" =>
       \/ mem.line = marker.line
       \/ /\ mem.line = marker.line + 1 /\ mem.sent = {}
          /\ \A u \in recipients : last[u] = marker.line + 1

\* No one is marked who did not receive the line, and no one is ahead of it.
Told(m) == \A u \in m.sent : last[u] = m.line + 1

MarkedIsTold ==
  /\ Told(marker) /\ (pc = "save" => Told(mem))
  /\ \A u \in User : last[u] <= marker.line + 1

\* Who would receive the current line again under marker m.
Owed(m) == {u \in User \ m.sent : last[u] = m.line + 1}

\* Every line to be received again is paid for by a failure, except one between
\* a send and its save.
Paid ==
  /\ repeats + Cardinality(Owed(marker)) <= IF pc = "save" THEN faults + 1 ELSE faults
  /\ pc = "save" => repeats + Cardinality(Owed(mem)) <= faults

\* The inductive invariant of the outbox: the marker file, the marker a pass
\* holds and what people received never disagree by more than one step of
\* notify_once, whatever sends, saves and deaths came before.
OutboxInv == TypeOK /\ NothingBefore /\ OneStepAhead /\ MarkedIsTold /\ Paid

\* Whatever fails, the marker never runs ahead of what people received and
\* never leaves a line out for anyone: the notices of planning.py are the
\* deliveries in order that docs/operations.md promises.
Promise == INSTANCE Deliveries WITH done <- marker.line
DeliverySpec == Promise!Spec

\* A line is received again only because a send, a save or the process failed
\* before its marker was safe, and then only by one recipient for each failure:
\* the price of sending first and marking after.
OneRepeatPerFault == repeats <= faults

\* Every line written after the bot began is passed on to everyone in the end,
\* however sends, saves and the process fail meanwhile.
EveryoneHears ==
  \A n \in 1..MaxEvents : (begun /\ written >= n) ~> (begun /\ marker.line >= n)
=============================================================================

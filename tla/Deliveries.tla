------------------------------ MODULE Deliveries ------------------------------
(***************************************************************************)
(* What the planning notices promise their recipients: the lines of a log  *)
(* are told in order, a line may be told again while it is the current     *)
(* one, and the log moves on only when everyone has been told.             *)
(***************************************************************************)
EXTENDS Naturals

CONSTANT User

VARIABLES
  begun,      \* the log's current end has been taken as the start
  recipients, \* who is to be told
  done,       \* the lines everyone has been told, or that are skipped
  last        \* the last line each user was told

vars == <<begun, recipients, done, last>>

Audience == (SUBSET User) \ {{}}

Init ==
  /\ begun = FALSE /\ done = 0
  /\ recipients \in Audience
  /\ last = [u \in User |-> 0]

\* The first line to tell is the one after the log's end at that moment.
Start ==
  /\ ~begun /\ begun' = TRUE
  /\ done' \in Nat
  /\ UNCHANGED <<recipients, last>>

Tell(u) ==
  /\ begun /\ u \in recipients
  /\ last' = [last EXCEPT ![u] = done + 1]
  /\ UNCHANGED <<begun, recipients, done>>

MoveOn ==
  /\ begun /\ \A u \in recipients : last[u] = done + 1
  /\ done' = done + 1
  /\ UNCHANGED <<begun, recipients, last>>

\* Who is to be told may change only when the teller starts again.
Restart ==
  /\ recipients' \in Audience
  /\ UNCHANGED <<begun, done, last>>

Next == Start \/ (\E u \in User : Tell(u)) \/ MoveOn \/ Restart

Spec == Init /\ [][Next]_vars
=============================================================================

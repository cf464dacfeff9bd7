------------------------------ MODULE OrderLife ------------------------------
(***************************************************************************)
(* What an order promises the owner and the collector, as operations.md    *)
(* has it: proposed -> queued | cancelled | overtaken, and                 *)
(* queued -> done | dropped | failed | overtaken, each by one party.       *)
(***************************************************************************)
CONSTANT Order

VARIABLE status

Open == {"proposed", "queued"}

\* What the owner and the collector make of an order.
Answers == [none     |-> {"proposed"},
            proposed |-> {"queued", "cancelled"},
            queued   |-> {"done", "dropped", "failed"}]

Answered(s) == IF s \in DOMAIN Answers THEN Answers[s] ELSE {}

Init == status = [o \in Order |-> "none"]

\* A pull makes some open orders overtaken; at most one other order is answered.
Next ==
  \E late \in SUBSET {o \in Order : status[o] \in Open} :
    LET pulled == [o \in Order |-> IF o \in late THEN "overtaken" ELSE status[o]]
    IN \/ status' = pulled
       \/ \E o \in Order \ late : \E s \in Answered(status[o]) : status' = [pulled EXCEPT ![o] = s]

Spec == Init /\ [][Next]_status
=============================================================================

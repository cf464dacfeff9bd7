------------------------------ MODULE TaskTokens ------------------------------
(***************************************************************************)
(* Model tokens of a task run: homelab-task-run issues a token for each    *)
(* container, the LiteLLM hooks (litellm_hooks.py) admit the container's   *)
(* requests against it, count them and append what each one cost to the    *)
(* token's file, and the run sums the file when the container has ended.   *)
(*                                                                         *)
(* The proxy and the run share nothing but the two folders of files, and a *)
(* request outlives its container: the proxy hears of a client that is     *)
(* gone when it streams, or not at all.                                    *)
(*                                                                         *)
(* An operator whose name begins with Mutant is a plausible bug in the     *)
(* definition that follows it, for testing the properties; nothing uses it.*)
(***************************************************************************)
EXTENDS Naturals, FiniteSets

CONSTANTS
  Token,       \* tokens a run issues, one for each container
  NoToken,     \* none of them
  Request,     \* requests that reach the proxy from the task network
  MaxRequests, \* requests a token may make
  MaxRestarts, \* bound: restarts of the proxy
  MaxFaults    \* bound: lines that are not written

ASSUME TokenAssumption   == NoToken \notin Token
ASSUME RequestAssumption == IsFiniteSet(Request)
ASSUME BudgetAssumption  == MaxRequests \in Nat \ {0}
ASSUME FaultAssumption   == MaxRestarts \in Nat /\ MaxFaults \in Nat

VARIABLES
  phase,   \* the run's side: where each token's container is
  expired, \* the clock has passed the token's expires_at
  count,   \* task_requests: what the proxy remembers of each token
  req,     \* the requests, with the token each one carries
  lines,   \* the cost files: the requests each one has a line of, and if known
  cost,    \* what the run read: not yet, null, or the requests it adds up
  restarts,
  faults

vars == <<phase, expired, count, req, lines, cost, restarts, faults>>

Phase == {"new", "running", "left", "revoked", "read"}

\* A request waits for its body to be judged, is called upstream, has a reply
\* that is streamed, and ends refused, with a line, or with none.
At == {"free", "waiting", "called", "reply", "refused", "recorded", "unrecorded"}

\* What upstream told of the bill: usage.cost in the reply, or nothing usable.
Bill == {"none", "known", "unknown"}

Free == [at |-> "free", of |-> NoToken, bill |-> "none"]

Unread == [is |-> "unread", of |-> {}]
Null   == [is |-> "null", of |-> {}]

Init ==
  /\ phase = [t \in Token |-> "new"]
  /\ expired = [t \in Token |-> FALSE]
  /\ count = [t \in Token |-> 0]
  /\ req = [r \in Request |-> Free]
  /\ lines = [t \in Token |-> {}]
  /\ cost = [t \in Token |-> Unread]
  /\ restarts = 0 /\ faults = 0

-----------------------------------------------------------------------------
(* The run.                                                                *)

\* ask_model: containers of a run follow one another, each with a new token.
Issue(t) ==
  /\ phase[t] = "new" /\ \A u \in Token : phase[u] \in {"new", "read"}
  /\ phase' = [phase EXCEPT ![t] = "running"]
  /\ UNCHANGED <<expired, count, req, lines, cost, restarts, faults>>

\* The container ends by itself or is removed at its limit.
Leave(t) ==
  /\ phase[t] = "running" /\ phase' = [phase EXCEPT ![t] = "left"]
  /\ UNCHANGED <<expired, count, req, lines, cost, restarts, faults>>

Revoke(t) ==
  /\ phase[t] = "left" /\ phase' = [phase EXCEPT ![t] = "revoked"]
  /\ UNCHANGED <<expired, count, req, lines, cost, restarts, faults>>

MutantSum(t) == [is |-> "sum", of |-> {l[1] : l \in {m \in lines[t] : m[2]}}]

\* read_cost adds up the lines, if there are any and all of them are known.
Sum(t) ==
  IF lines[t] # {} /\ \A l \in lines[t] : l[2]
  THEN [is |-> "sum", of |-> {l[1] : l \in lines[t]}] ELSE Null

\* The file is removed whatever it held.
Read(t) ==
  /\ phase[t] = "revoked" /\ phase' = [phase EXCEPT ![t] = "read"]
  /\ cost' = [cost EXCEPT ![t] = Sum(t)]
  /\ lines' = [lines EXCEPT ![t] = {}]
  /\ UNCHANGED <<expired, count, req, restarts, faults>>

\* The token's time is longer than its container's, but the container may be
\* late to go.
Expire(t) ==
  /\ phase[t] # "new" /\ ~expired[t]
  /\ expired' = [expired EXCEPT ![t] = TRUE]
  /\ UNCHANGED <<phase, count, req, lines, cost, restarts, faults>>

-----------------------------------------------------------------------------
(* The proxy.                                                              *)

\* task_grant: the file is there and its time has not passed.
Grant(t) == phase[t] \in {"running", "left"} /\ ~expired[t]

\* A request arrives and its grant is read, before its body is awaited.
Arrive(r, t) ==
  /\ req[r] = Free /\ Grant(t)
  /\ req' = [req EXCEPT ![r] = [at |-> "waiting", of |-> t, bill |-> "none"]]
  /\ UNCHANGED <<phase, expired, count, lines, cost, restarts, faults>>

\* task_refusal for the body, its type or its purpose: not counted.
Reject(r) ==
  /\ req[r].at = "waiting" /\ req' = [req EXCEPT ![r].at = "refused"]
  /\ UNCHANGED <<phase, expired, count, lines, cost, restarts, faults>>

MutantCounted(t) ==
  [u \in Token |-> IF u = t THEN count[t] + 1 ELSE 0]

\* task_budget_spent: tokens past their time are forgotten, this one too, and
\* the request is counted, in one step.
Counted(t) ==
  [u \in Token |-> LET kept == IF expired[u] THEN 0 ELSE count[u]
                   IN  IF u = t THEN kept + 1 ELSE kept]

Judge(r) ==
  /\ req[r].at = "waiting"
  /\ LET t == req[r].of IN
       /\ count' = Counted(t)
       /\ req' = [req EXCEPT ![r].at = IF count'[t] > MaxRequests THEN "refused" ELSE "called"]
  /\ UNCHANGED <<phase, expired, lines, cost, restarts, faults>>

\* The reply's status and head are there; what it cost is at its end.  A reply
\* of 400 or more tells no cost.
Answer(r) ==
  /\ req[r].at = "called"
  /\ \E bill \in Bill : req' = [req EXCEPT ![r].at = "reply", ![r].bill = bill]
  /\ UNCHANGED <<phase, expired, count, lines, cost, restarts, faults>>

MutantLine(r) == {<<r, TRUE>>}

\* record_task_cost: a line for every reply, null unless its cost is known.
Line(r) == {<<r, req[r].bill = "known">>}

Append(r, line) == lines' = [lines EXCEPT ![req[r].of] = @ \cup line]

\* The whole reply has been streamed.
Record(r) ==
  /\ req[r].at = "reply" /\ req' = [req EXCEPT ![r].at = "recorded"]
  /\ Append(r, Line(r))
  /\ UNCHANGED <<phase, expired, count, cost, restarts, faults>>

\* The stream broke or its client left before the end was seen.
Break(r) ==
  /\ req[r].at = "reply" /\ req' = [req EXCEPT ![r].at = "recorded"]
  /\ Append(r, {<<r, FALSE>>})
  /\ UNCHANGED <<phase, expired, count, cost, restarts, faults>>

\* No line: the write failed, or the client left before the stream was begun,
\* so that observed() never ran.
LoseLine(r) ==
  /\ faults < MaxFaults /\ faults' = faults + 1
  /\ req[r].at = "reply" /\ req' = [req EXCEPT ![r].at = "unrecorded"]
  /\ UNCHANGED <<phase, expired, count, lines, cost, restarts>>

InFlight == {r \in Request : req[r].at \in {"waiting", "called", "reply"}}

\* A restart forgets the counts and what was in flight.
Restart ==
  /\ restarts < MaxRestarts /\ restarts' = restarts + 1
  /\ count' = [t \in Token |-> 0]
  /\ req' = [r \in Request |->
       IF r \in InFlight
       THEN [req[r] EXCEPT !.at = IF @ = "waiting" THEN "refused" ELSE "unrecorded"]
       ELSE req[r]]
  /\ UNCHANGED <<phase, expired, lines, cost, faults>>

Next ==
  \/ \E t \in Token : Issue(t) \/ Leave(t) \/ Revoke(t) \/ Read(t) \/ Expire(t)
  \/ \E r \in Request, t \in Token : Arrive(r, t)
  \/ \E r \in Request : \/ Reject(r) \/ Judge(r) \/ Answer(r)
                        \/ Record(r) \/ Break(r) \/ LoseLine(r)
  \/ Restart

Spec == Init /\ [][Next]_vars

-----------------------------------------------------------------------------
\* The requests of a token that were let through.
Admitted(t) ==
  {r \in Request : req[r].of = t /\ req[r].at \in {"called", "reply", "recorded", "unrecorded"}}

TypeOK ==
  /\ phase \in [Token -> Phase] /\ expired \in [Token -> BOOLEAN]
  /\ count \in [Token -> Nat]
  /\ req \in [Request -> [at : At, of : Token \cup {NoToken}, bill : Bill]]
  /\ lines \in [Token -> SUBSET (Request \X BOOLEAN)]
  /\ cost \in [Token -> [is : {"unread", "null", "sum"}, of : SUBSET Request]]
  /\ restarts \in Nat /\ faults \in Nat

\* While a token lives, however its requests overlap, no more of them are let
\* through than its budget for each life of the proxy, which forgives the count.
\* (A request that read its grant before the token's time passed and is judged
\* after is let through on a count begun anew.)
BudgetKept ==
  \A t \in Token : ~expired[t] => Cardinality(Admitted(t)) <= MaxRequests * (restarts + 1)

\* What the run reports is never more than what its container was billed: lines
\* of another container, of refused requests or of a broken reply add nothing.
NeverOverstated ==
  \A t \in Token : cost[t].is = "sum" =>
    /\ cost[t].of # {}
    /\ \A r \in cost[t].of : r \in Admitted(t) /\ req[r].bill = "known"

\* Every request of t has come to its end with a line.
Quiet(t) == \A r \in Admitted(t) : req[r].at = "recorded"

\* When nothing of the container is still under way and no line was lost, the
\* sum is of all its requests, or null if any of them is unknown: a partial sum
\* is never a cost.
QuietCostIsWhole ==
  [][\A t \in Token : cost[t] = Unread /\ cost'[t].is = "sum" /\ Quiet(t)
       => cost'[t].of = Admitted(t)]_vars
=============================================================================

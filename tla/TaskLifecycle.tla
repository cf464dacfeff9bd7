---------------------------- MODULE TaskLifecycle ----------------------------
(***************************************************************************)
(* What the task store promises a planner, with neither jobs nor locks:    *)
(* a task starts when everything it needs is done and its slice has not    *)
(* stopped, at most one of its runs is open, a done task stays done, and   *)
(* only the owner puts a stopped task back.  TaskStore implements this.    *)
(***************************************************************************)
CONSTANTS Task, SliceOf

VARIABLES
  state,  \* "absent", "waiting", "running", "done" or "stopped"
  needs   \* the tasks each task waits for

vars == <<state, needs>>

Init ==
  /\ state = [t \in Task |-> "absent"]
  /\ needs = [t \in Task |-> {}]

\* A file's tasks appear together, waiting for one another or for tasks that
\* were there before.
Plan(file) ==
  /\ file # {}
  /\ \A t \in file : state[t] = "absent"
  /\ state' = [t \in Task |-> IF t \in file THEN "waiting" ELSE state[t]]
  /\ needs' \in [Task -> SUBSET Task]
  /\ \A t \in Task \ file : needs'[t] = needs[t]
  /\ \A t \in file : \A d \in needs'[t] : SliceOf[d] = SliceOf[t] /\ state'[d] # "absent"

Start(t) ==
  /\ state[t] = "waiting"
  /\ \A d \in needs[t] : state[d] = "done"
  /\ \A u \in Task : SliceOf[u] = SliceOf[t] => state[u] # "stopped"
  /\ state' = [state EXCEPT ![t] = "running"]
  /\ UNCHANGED needs

End(t) ==
  /\ state[t] = "running"
  /\ \E end \in {"done", "stopped"} : state' = [state EXCEPT ![t] = end]
  /\ UNCHANGED needs

\* A runner that died gives back all it held.
GiveBack ==
  /\ state' = [t \in Task |-> IF state[t] = "running" THEN "waiting" ELSE state[t]]
  /\ UNCHANGED needs

Reopen(t) ==
  /\ state[t] = "stopped"
  /\ state' = [state EXCEPT ![t] = "waiting"]
  /\ UNCHANGED needs

Next ==
  \/ \E file \in SUBSET Task : Plan(file)
  \/ \E t \in Task : Start(t) \/ End(t) \/ Reopen(t)
  \/ GiveBack

Spec == Init /\ [][Next]_vars
=============================================================================

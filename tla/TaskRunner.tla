------------------------------ MODULE TaskRunner ------------------------------
(***************************************************************************)
(* homelab-task-runner, the host service that works the task queue, over   *)
(* the TaskStore it reaches by `docker exec`.  It runs one task at a time: *)
(* recover once, claim, then for every attempt begin_attempt, clone, run,  *)
(* push and end_attempt, and at last end_task.                             *)
(*                                                                         *)
(* Every store command is a process in a container.  The runner may lose   *)
(* its answer, and a command that outlives the runner's patience (the 120 s*)
(* timeout, or the runner's own death) goes on in the container and lands  *)
(* later: `late` holds those.  The service can die at any point.           *)
(***************************************************************************)
EXTENDS TaskStore

CONSTANTS
  MaxRoutes,   \* bound: usable routes of the worker role
  MaxFaults,   \* bound: store commands whose answer is lost
  LateOps,     \* the commands that may land after the runner gave up on them
  MaxLate,     \* bound: how many of them do
  MaxCrashes   \* bound: deaths of the service

ASSUME RunnerAssumption ==
  /\ MaxRoutes \in Nat \ {0}
  /\ MaxFaults \in Nat /\ MaxLate \in Nat /\ MaxCrashes \in Nat
  /\ LateOps \subseteq {"claim", "recover", "begin", "end", "close"}

VARIABLES
  pc,         \* "idle", or where run_task is: "start", "begin", "work", "end", "close"
  recovered,  \* state["recovered"]
  held,       \* the task and job being run, {<<t, k>>}, or {}
  run,        \* the runner's place in run_routes, and how the attempt ended
  late,       \* commands still running in the container
  pushes,     \* history: commits of each task that reached its branch
  faults, lates, crashes  \* counted for the bounds

runnerVars == <<pc, recovered, held, run>>
countVars  == <<faults, lates, crashes>>
vars       == <<storeVars, runnerVars, late, pushes, countVars>>

\* How an attempt ends, as far as run_routes tells endings apart: `retry` is
\* RETRIES (a failed check or a rejected review), `spent` any other failure.
AttemptEnd == {"pushed", "push_rejected", "push_failed", "retry", "spent"}

NoRun == [number |-> 0, routes |-> 0, route |-> 0, retried |-> FALSE, rerun |-> FALSE,
          ended |-> "none"]

\* The finish event the runner is trying to record.
Command(op, p, n, ending) ==
  [op |-> op, task |-> p[1], job |-> p[2], number |-> n, ending |-> ending]

MutantEventRaw(p) ==
  CASE pc = "begin" -> Command("begin", p, run.number, "none")
    [] pc = "end"   -> Command("end", p, run.number, run.ended)
    [] pc = "close" -> Command("close", p, 0, run.ended)

Event(p) ==
  CASE pc = "begin" -> Command("begin", p, run.number, "none")
    [] pc = "end"   -> Command("end", p, run.number,
                               IF run.ended = "pushed" THEN "done" ELSE "failed")
    [] pc = "close" -> Command("close", p, 0, run.ended)

\* The transaction a command performs when it gets to the database.
Perform(cmd) ==
  \/ cmd.op = "begin" /\ BeginAttempt(cmd.task, cmd.number)
  \/ cmd.op = "end"   /\ EndAttempt(cmd.task, cmd.number, cmd.ending)
  \/ cmd.op = "close" /\ EndTask(cmd.task, cmd.job, cmd.ending)

ClaimAny == ClaimNothing \/ \E p \in JobsIn("todo") : Claim(p[1], p[2])

-----------------------------------------------------------------------------
RunnerInit ==
  /\ Init
  /\ pc = "idle" /\ recovered = FALSE /\ held = {} /\ run = NoRun
  /\ late = {}
  /\ pushes = [t \in Task |-> 0]
  /\ faults = 0 /\ lates = 0 /\ crashes = 0

-----------------------------------------------------------------------------
(* turn: recover once, then claim.                                         *)

\* A turn in the middle of a task, as a timer would make it.
MutantTurnRecoverAlways ==
  /\ Recover
  /\ recovered' = TRUE
  /\ UNCHANGED <<pc, held, run, late, pushes, countVars>>

TurnRecover ==
  /\ pc = "idle" /\ ~recovered
  /\ \/ Recover /\ UNCHANGED late
     \/ \E cmd \in late, p \in JobsIn("todo") :  \* a lost claim lands in the middle of it
          /\ cmd.op = "claim" /\ late' = late \ {cmd}
          /\ ClaimDuringRecover(p[1], p[2])
  /\ recovered' = TRUE
  /\ UNCHANGED <<pc, held, run, pushes, countVars>>

TurnClaim ==
  /\ pc = "idle" /\ recovered
  /\ \E p \in JobsIn("todo") :
       /\ \/ Claim(p[1], p[2]) /\ UNCHANGED late
          \/ \E cmd \in late :  \* a lost recovery is in the middle of its work
               /\ cmd.op = "recover" /\ late' = late \ {cmd}
               /\ ClaimDuringRecover(p[1], p[2])
       /\ held' = {p}
       /\ run' = [NoRun EXCEPT !.number = NextAttempt(p[1])]
  /\ pc' = "start"
  /\ UNCHANGED <<recovered, pushes, countVars>>

\* The queue has nothing to run; whatever it held was discarded.
TurnEmpty ==
  /\ pc = "idle" /\ recovered
  /\ ClaimNothing
  /\ UNCHANGED <<runnerVars, late, pushes, countVars>>

MutantTurnUnavailable ==
  /\ pc = "idle" /\ faults < MaxFaults
  /\ faults' = faults + 1
  /\ IF recovered THEN ClaimAny ELSE Recover
  /\ UNCHANGED <<runnerVars, late, pushes, lates, crashes>>

\* recover or claim raises StoreUnavailable: the command landed and its answer
\* was lost, it never landed, or it is still running.  Recover again.
TurnUnavailable ==
  /\ pc = "idle"
  /\ recovered' = FALSE
  /\ \/ /\ faults < MaxFaults
        /\ faults' = faults + 1
        /\ \/ ~recovered /\ Recover
           \/ recovered /\ ClaimAny
           \/ recovered /\ UNCHANGED storeVars
        /\ UNCHANGED <<late, lates>>
     \/ \E op \in LateOps :
          /\ op = IF recovered THEN "claim" ELSE "recover"
          /\ lates < MaxLate
          /\ lates' = lates + 1
          /\ late' = late \cup {Command(op, <<0, 0>>, 0, "none")}
          /\ UNCHANGED <<storeVars, faults>>
  /\ UNCHANGED <<pc, held, run, pushes, crashes>>

-----------------------------------------------------------------------------
(* run_task                                                                *)

Close(ending) ==
  /\ pc' = "close"
  /\ run' = [run EXCEPT !.ended = ending]

\* Refused repository or branch: failed.  No usable route for the worker or
\* the reviewer: escalated.  Otherwise the first attempt on the first route.
RunTask ==
  /\ pc = "start"
  /\ \/ Close("failed")
     \/ Close("escalated")
     \/ /\ run.number \in Number
        /\ pc' = "begin"
        /\ \E routes \in 1..MaxRoutes : run' = [run EXCEPT !.routes = routes, !.route = 1]
  /\ UNCHANGED <<storeVars, recovered, held, late, pushes, countVars>>

\* attempt, between its two records: a clone, a run, a push.  A push that
\* fails or times out may have reached the branch all the same.
Work ==
  /\ pc = "work"
  /\ \E end \in AttemptEnd :
       /\ run' = [run EXCEPT !.ended = end]
       /\ \/ /\ end \in {"pushed", "push_failed"}
             /\ pushes' = [t \in Task |-> IF \E p \in held : p[1] = t THEN pushes[t] + 1
                                                                     ELSE pushes[t]]
          \/ end # "pushed" /\ UNCHANGED pushes
  /\ pc' = "end"
  /\ UNCHANGED <<storeVars, recovered, held, late, countVars>>

\* An exception between the two records: run_task ends the task as failed and
\* leaves the attempt open.
RunnerError ==
  /\ pc = "work"
  /\ Close("failed")
  /\ UNCHANGED <<storeVars, recovered, held, late, pushes, countVars>>

NextTry(route, retried, rerun) ==
  /\ run.number + 1 \in Number
  /\ pc' = "begin"
  /\ run' = [run EXCEPT !.number = @ + 1, !.route = route, !.retried = retried,
                        !.rerun = rerun, !.ended = "none"]

\* A branch that moved taken for a push.
MutantRejectedIsDone ==
  \/ run.ended \in {"pushed", "push_rejected"} /\ Close("done")
  \/ run.ended \notin {"pushed", "push_rejected"} /\ Close("escalated")

\* run_routes and work: what follows an attempt.  Every push ends the pass
\* over the routes; a branch that moved is worth one more pass.
AfterAttempt ==
  \/ run.ended = "pushed" /\ Close("done")
  \/ run.ended = "push_failed" /\ Close("escalated")
  \/ run.ended = "push_rejected" /\ ~run.rerun /\ NextTry(1, FALSE, TRUE)
  \/ run.ended = "push_rejected" /\ run.rerun /\ Close("escalated")
  \/ run.ended = "retry" /\ ~run.retried /\ NextTry(run.route, TRUE, run.rerun)
  \/ /\ run.ended = "spent" \/ (run.ended = "retry" /\ run.retried)
     /\ \/ run.route < run.routes /\ NextTry(run.route + 1, FALSE, run.rerun)
        \/ run.route = run.routes /\ Close("escalated")
  \/ run.ended = "retry" /\ Close("failed")  \* its check log cannot be read

\* record: the event lands and is answered.
Recorded ==
  /\ pc \in {"begin", "end", "close"}
  /\ \E p \in held : Perform(Event(p))
  /\ \/ pc = "begin" /\ pc' = "work" /\ UNCHANGED <<held, run>>
     \/ pc = "end" /\ AfterAttempt /\ UNCHANGED held
     \/ pc = "close" /\ pc' = "idle" /\ held' = {} /\ run' = NoRun
  /\ UNCHANGED <<recovered, late, pushes, countVars>>

MutantGiveUpOnRecord ==
  /\ pc \in {"begin", "end", "close"} /\ faults < MaxFaults
  /\ faults' = faults + 1
  /\ pc' = "idle" /\ recovered' = FALSE /\ held' = {} /\ run' = NoRun
  /\ UNCHANGED <<storeVars, late, pushes, lates, crashes>>

\* record: the event lands but its answer is lost, or it is still running.
\* Either way record sends the same event again.
Unrecorded ==
  /\ pc \in {"begin", "end", "close"}
  /\ \E p \in held :
       \/ /\ faults < MaxFaults
          /\ faults' = faults + 1
          /\ Perform(Event(p))
          /\ UNCHANGED <<late, lates>>
       \/ /\ lates < MaxLate /\ Event(p).op \in LateOps
          /\ lates' = lates + 1
          /\ late' = late \cup {Event(p)}
          /\ UNCHANGED <<storeVars, faults>>
  /\ UNCHANGED <<runnerVars, pushes, crashes>>

-----------------------------------------------------------------------------
\* The service dies and systemd starts it again: main begins unrecovered.
Crash ==
  /\ crashes < MaxCrashes
  /\ crashes' = crashes + 1
  /\ pc' = "idle" /\ recovered' = FALSE /\ held' = {} /\ run' = NoRun
  /\ UNCHANGED <<storeVars, late, pushes, faults, lates>>

\* A command the runner gave up on reaches the database after all.
LateLands ==
  \E cmd \in late :
    /\ late' = late \ {cmd}
    /\ \/ Perform(cmd)
       \/ cmd.op = "claim" /\ ClaimAny
       \/ cmd.op = "recover" /\ Recover
    /\ UNCHANGED <<runnerVars, pushes, countVars>>

\* What the planner and the owner do meanwhile.
Others ==
  /\ SubmitStep \/ OwnerStep
  /\ UNCHANGED <<runnerVars, late, pushes, countVars>>

RunnerNext ==
  \/ TurnRecover \/ TurnClaim \/ TurnEmpty \/ TurnUnavailable
  \/ RunTask \/ Work \/ RunnerError \/ Recorded \/ Unrecorded
  \/ Crash \/ LateLands \/ Others

RunnerSpec == RunnerInit /\ [][RunnerNext]_vars

\* systemd restarts the service and main loops for ever; record repeats its
\* event until one lands.  Locks are passing, so what waits for one gets it:
\* strong fairness.  An open submission commits or is rolled back, and a
\* command left in the container runs.
Fairness ==
  /\ WF_vars(RunTask) /\ WF_vars(Work \/ RunnerError)
  /\ SF_vars(TurnRecover) /\ SF_vars(TurnClaim) /\ SF_vars(Recorded)
  /\ WF_vars(LateLands)
  /\ \A c \in Client : WF_vars(Others /\ writing'[c] = NoFile)

FairSpec == RunnerSpec /\ Fairness

-----------------------------------------------------------------------------
(* Properties.                                                             *)

RunnerTypeOK ==
  /\ pc \in {"idle", "start", "begin", "work", "end", "close"}
  /\ recovered \in BOOLEAN
  /\ held \subseteq handed
  /\ run.number \in 0..MaxAttempts + 1 /\ run.route \in 0..run.routes
  /\ pc = "idle" <=> held = {}
  /\ pushes \in [Task -> Nat]

\* homelab-task-runner, turn: "A lost answer may have claimed a task no one
\* holds ... recover again."  Once the runner has recovered, no task is
\* running that it does not hold: nothing waits for ever for a dead runner.
RunningIsHeld ==
  recovered => \A t \in Task : status[t] = "running" => \E p \in held : p[1] = t

\* While the runner works on a task, the store says it is running, by the job
\* the runner will report: nothing closes it or gives it away behind its back.
HeldIsRunning ==
  \A p \in held : pc # "close" => status[p[1]] = "running" /\ jobs[p[1]][p[2]] = "doing"

\* homelab-task-runner, record: "A result must land, or the task would run
\* again".  When the runner lets go of a task it finished, the task has ended
\* the way the runner says it did, unless the owner has cleared it since, and
\* its job is over.
ResultLands ==
  [][\A p \in held : pc = "close" /\ held' = {} /\ crashes' = crashes
       => /\ \/ status'[p[1]] = run.ended
             \/ status'[p[1]] = "queued" /\ run.ended # "done"
          /\ jobs'[p[1]][p[2]] \in {"succeeded", "failed"}]_vars

\* A task is worked on once for each time it is queued: unless the service
\* dies in between, no two commits of it reach the branch from one job.
PushedOncePerJob == \A t \in Task : pushes[t] <= Len(jobs[t]) + crashes

\* A dead runner's attempts are numbered on from: a task's attempts have no
\* gap, and a done task is done by the last of them.
DoneByLastAttempt ==
  \A t \in Task :
    /\ \A n \in Number \ {1} : attempts[t][n] # "absent" => attempts[t][n - 1] # "absent"
    /\ status[t] = "done" =>
         \E n \in Number : /\ attempts[t][n] = "done"
                           /\ \A m \in Number : m > n => attempts[t][m] = "absent"

\* A task is done, and its dependents start, only once a commit of its own is
\* on the branch, whatever was lost, landed late or died on the way.
DoneIsPushed == \A t \in Task : status[t] = "done" => pushes[t] > 0

\* A job in the queue is not forgotten: its task ends, or its slice stops.
QueuedJobEnds ==
  \A t \in Task : HasJobIn(t, {"todo"})
    ~> status[t] \in {"done", "failed", "escalated"} \/ SliceStopped(SliceOf[t])

\* A claimed task does not stay running, whoever claimed it.
RunningEnds == \A t \in Task : status[t] = "running" ~> status[t] # "running"

\* However the runner and its lost commands behave, the store sees only
\* transactions it allows: what holds of TaskStore holds with the runner.
StoreSpec == Spec
=============================================================================

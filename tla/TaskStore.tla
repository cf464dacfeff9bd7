------------------------------ MODULE TaskStore ------------------------------
(***************************************************************************)
(* The Postgres record of coding tasks (src/homelab/tasks): the rows of    *)
(* homelab_tasks and homelab_task_attempts, the Procrastinate jobs that    *)
(* make a task claimable, and the transactions that move them:  submit,    *)
(* claim, claim --recover and the three finish events.                     *)
(*                                                                         *)
(* One action is one committed transaction.  A submission is the exception *)
(* and takes two, because what protects it is the share lock it holds      *)
(* between reading its dependencies and committing.  Any transaction may   *)
(* run at any time and a finish event may arrive any number of times and   *)
(* arbitrarily late: who calls, and when, is TaskRunner's matter, and so   *)
(* is the one pair of transactions that do harm when they overlap          *)
(* (ClaimDuringRecover).                                                   *)
(*                                                                         *)
(* An operator whose name begins with Mutant is a plausible bug in the     *)
(* definition that follows it, for testing the properties; nothing uses it.*)
(***************************************************************************)
EXTENDS Naturals, Sequences, FiniteSets

CONSTANTS
  Task,         \* (slice, position): what UNIQUE (slice, position) identifies
  Slice,        \* names of slices
  SliceOf,      \* the slice each task belongs to
  Client,       \* submissions that can be open at one time
  MaxAttempts,  \* bound: attempt numbers run from 1 to this
  MaxJobs       \* bound: the owner defers no job beyond this many for each task

ASSUME StoreAssumption ==
  /\ SliceOf \in [Task -> Slice]
  /\ MaxAttempts \in Nat
  /\ MaxJobs \in [Task -> Nat]

Number == 1..MaxAttempts

TaskStatus    == {"absent", "queued", "running", "done", "failed", "escalated"}
JobStatus     == {"todo", "doing", "succeeded", "failed", "aborted"}
AttemptStatus == {"absent", "running", "done", "failed", "died"}

Submission == [file : SUBSET Task, deps : [Task -> SUBSET Task], done : SUBSET Task]

VARIABLES
  status,    \* homelab_tasks.status; "absent" while there is no row
  depends,   \* homelab_tasks.depends_on
  jobs,      \* jobs[t][k]: status of the k-th job deferred for task t
  attempts,  \* homelab_task_attempts.status; "died" is failed, runner_died
  leads,     \* how many `lead` traces each attempt has
  writing,   \* what each open submission read and will insert
  handed,    \* history: <<t, k>> some claim handed out as task_id and job_id
  stopped    \* history: slices in which a task ever ended failed or escalated

storeVars ==
  <<status, depends, jobs, attempts, leads, writing, handed, stopped>>

NoFile == [file |-> {}, deps |-> [t \in Task |-> {}], done |-> {}]

-----------------------------------------------------------------------------
(* What the transactions look at.                                          *)

\* The positions a file names that it does not bring itself.
Earlier(w) == (UNION {w.deps[t] : t \in w.file}) \ w.file

MutantNothingLocked == {}

\* Rows an open submission holds FOR SHARE until it commits or rolls back.
Locked == UNION {Earlier(writing[c]) : c \in Client}

SliceStopped(s) ==
  \E t \in Task : SliceOf[t] = s /\ status[t] \in {"failed", "escalated"}

DepsDone(t) == \A d \in depends[t] : status[d] = "done"

\* A task that nothing but the runner's attention keeps from starting.
Ready(t) == status[t] = "queued" /\ DepsDone(t)

JobsIn(s) == UNION {{<<t, k>> : k \in {i \in DOMAIN jobs[t] : jobs[t][i] = s}} : t \in Task}

HasJobIn(t, S) == \E k \in DOMAIN jobs[t] : jobs[t][k] \in S

\* parse: dependencies are positions of the file's slice and the file's own
\* graph has no cycle: every part of it has a task waiting for none of it.
ValidFile(file, deps) ==
  /\ file # {}
  /\ \A t \in file : \A u \in file \cup deps[t] : SliceOf[u] = SliceOf[t]
  /\ \A part \in SUBSET file \ {{}} : \E t \in part : deps[t] \cap part = {}

\* What parse lets through as the dependencies of a file.
Graphs(file, within) == {deps \in [file -> SUBSET within] : ValidFile(file, deps)}

-----------------------------------------------------------------------------
Init ==
  /\ status   = [t \in Task |-> "absent"]
  /\ depends  = [t \in Task |-> {}]
  /\ jobs     = [t \in Task |-> <<>>]
  /\ attempts = [t \in Task |-> [n \in Number |-> "absent"]]
  /\ leads    = [t \in Task |-> [n \in Number |-> 0]]
  /\ writing  = [c \in Client |-> NoFile]
  /\ handed   = {}
  /\ stopped  = {}

-----------------------------------------------------------------------------
(* submit                                                                  *)

\* earlier_tasks: read and share-lock the dependencies already in the table.
\* A position that is not there refuses the file, which changes nothing.
SubmitBegin(c, file, deps) ==
  LET w == [file |-> file,
            deps |-> [t \in Task |-> IF t \in file THEN deps[t] ELSE {}],
            done |-> {}]
  IN  /\ writing[c] = NoFile
      /\ \A d \in Earlier(w) : status[d] # "absent"
      /\ writing' = [writing EXCEPT ![c] =
                       [w EXCEPT !.done = {d \in Earlier(w) : status[d] = "done"}]]
      /\ UNCHANGED <<status, depends, jobs, attempts, leads, handed, stopped>>

\* Rows and jobs commit together.  A position someone else committed first
\* is a UniqueViolation: the whole file is refused.
SubmitCommit(c) ==
  LET w     == writing[c]
      ready == {t \in w.file : w.deps[t] \subseteq w.done}
  IN  /\ w # NoFile
      /\ \/ /\ \A t \in w.file : status[t] = "absent"
            /\ status'  = [t \in Task |-> IF t \in w.file THEN "queued" ELSE status[t]]
            /\ depends' = [t \in Task |-> IF t \in w.file THEN w.deps[t] ELSE depends[t]]
            /\ jobs'    = [t \in Task |-> IF t \in ready THEN Append(jobs[t], "todo")
                                                         ELSE jobs[t]]
         \/ /\ \E t \in w.file : status[t] # "absent"
            /\ UNCHANGED <<status, depends, jobs>>
      /\ writing' = [writing EXCEPT ![c] = NoFile]
      /\ UNCHANGED <<attempts, leads, handed, stopped>>

\* The submitting process dies or its defer fails: nothing was written.
SubmitAbort(c) ==
  /\ writing[c] # NoFile
  /\ writing' = [writing EXCEPT ![c] = NoFile]
  /\ UNCHANGED <<status, depends, jobs, attempts, leads, handed, stopped>>

-----------------------------------------------------------------------------
(* claim                                                                   *)

MutantDiscardable ==
  {p \in JobsIn("todo") : /\ p[1] \notin Locked
                          /\ \/ status[p[1]] # "queued"
                             \/ \E s \in Slice : SliceStopped(s)}

\* The jobs the claim's loop discards: their task is not queued any more, or
\* its slice stopped.  FOR UPDATE waits for a submission's share lock.
Discardable ==
  {p \in JobsIn("todo") : /\ p[1] \notin Locked
                          /\ \/ status[p[1]] # "queued"
                             \/ SliceStopped(SliceOf[p[1]])}

AfterDiscard(D) ==
  [t \in Task |-> [k \in DOMAIN jobs[t] |-> IF <<t, k>> \in D THEN "aborted" ELSE jobs[t][k]]]

MutantClaimStoppedSlice(t, k) ==
  /\ <<t, k>> \in JobsIn("todo") /\ t \notin Locked /\ status[t] = "queued"
  /\ jobs' = [jobs EXCEPT ![t][k] = "doing"]
  /\ status' = [status EXCEPT ![t] = "running"]
  /\ handed' = handed \cup {<<t, k>>}
  /\ UNCHANGED <<depends, attempts, leads, writing, stopped>>

\* Fetching goes by priority and then by age, so any of the jobs that must be
\* discarded may have come before the one that is handed out.
Claim(t, k) ==
  /\ <<t, k>> \in JobsIn("todo")
  /\ t \notin Locked
  /\ status[t] = "queued"
  /\ ~SliceStopped(SliceOf[t])
  /\ \E D \in SUBSET Discardable : jobs' = [AfterDiscard(D) EXCEPT ![t][k] = "doing"]
  /\ status' = [status EXCEPT ![t] = "running"]
  /\ handed' = handed \cup {<<t, k>>}
  /\ UNCHANGED <<depends, attempts, leads, writing, stopped>>

\* The loop reaches the end of the queue: everything in it was discarded.
ClaimNothing ==
  /\ JobsIn("todo") = Discardable
  /\ jobs' = AfterDiscard(Discardable)
  /\ UNCHANGED <<status, depends, attempts, leads, writing, handed, stopped>>

MutantFirstAttempt(t) == 1

\* max(number) + 1 of the task's attempts, as the claim reports it.
NextAttempt(t) ==
  CHOOSE n \in 1..MaxAttempts + 1 :
    /\ \A m \in Number : attempts[t][m] # "absent" => m < n
    /\ n = 1 \/ attempts[t][n - 1] # "absent"

Returned(js) ==
  [t \in Task |-> [k \in DOMAIN js[t] |-> IF js[t][k] = "doing" THEN "todo" ELSE js[t][k]]]

\* Every running attempt ends as runner_died and every running task is queued.
TasksReturned ==
  /\ attempts' = [t \in Task |-> [n \in Number |->
                    IF attempts[t][n] = "running" THEN "died" ELSE attempts[t][n]]]
  /\ status'   = [t \in Task |-> IF status[t] = "running" THEN "queued" ELSE status[t]]
  /\ \A t \in Locked : status[t] # "running"

MutantRecoverJobsOnly ==
  /\ jobs' = Returned(jobs)
  /\ UNCHANGED <<status, depends, attempts, leads, writing, handed, stopped>>

\* claim --recover: every doing job goes back to todo, and its task with it.
Recover ==
  /\ jobs' = Returned(jobs)
  /\ TasksReturned
  /\ UNCHANGED <<depends, leads, writing, handed, stopped>>

\* A claim that commits after a claim --recover has read the doing jobs and
\* before it updates the tasks (READ COMMITTED shows each statement what has
\* committed by then).  "Only a starting runner calls this", so Next leaves it
\* out: it takes a claim that outlived the runner that made it.
ClaimDuringRecover(t, k) ==
  /\ <<t, k>> \in JobsIn("todo")
  /\ t \notin Locked
  /\ status[t] = "queued"
  /\ ~SliceStopped(SliceOf[t])
  /\ \E D \in SUBSET Discardable :
       jobs' = [Returned(AfterDiscard(D)) EXCEPT ![t][k] = "doing"]
  /\ TasksReturned
  /\ handed' = handed \cup {<<t, k>>}
  /\ UNCHANGED <<depends, leads, writing, stopped>>

-----------------------------------------------------------------------------
(* finish                                                                  *)

\* INSERT ... ON CONFLICT DO NOTHING.
BeginAttempt(t, n) ==
  /\ attempts' = [attempts EXCEPT ![t][n] = IF @ = "absent" THEN "running" ELSE @]
  /\ UNCHANGED <<status, depends, jobs, leads, writing, handed, stopped>>

MutantEndAttemptAgain(t, n, result) ==
  /\ attempts[t][n] # "absent"
  /\ attempts' = [attempts EXCEPT ![t][n] = result]
  /\ leads'    = [leads EXCEPT ![t][n] = @ + 1]
  /\ UNCHANGED <<status, depends, jobs, writing, handed, stopped>>

\* The lead trace rides on the update that closed a row.
EndAttempt(t, n, result) ==
  /\ \/ /\ attempts[t][n] = "running"
        /\ attempts' = [attempts EXCEPT ![t][n] = result]
        /\ leads'    = [leads EXCEPT ![t][n] = @ + 1]
     \/ /\ attempts[t][n] # "running"
        /\ UNCHANGED <<attempts, leads>>
  /\ UNCHANGED <<status, depends, jobs, writing, handed, stopped>>

MutantReleasedEarly(t) == {u \in Task : status[u] = "queued" /\ t \in depends[u]}

\* Dependents that ending t as done leaves with nothing unmet.
Released(t) ==
  {u \in Task : /\ status[u] = "queued"
                /\ t \in depends[u]
                /\ \A d \in depends[u] : d = t \/ status[d] = "done"}

JobEnding(ending) == IF ending = "done" THEN "succeeded" ELSE "failed"

\* end_task on a running task.  Its update waits for a share lock on the row;
\* finish_job refuses a job that has already finished, undoing all of it.
CloseTask(t, k, ending) ==
  /\ status[t] = "running"
  /\ t \notin Locked
  /\ k \in DOMAIN jobs[t]
  /\ jobs[t][k] \in {"todo", "doing"}
  /\ status' = [status EXCEPT ![t] = ending]
  /\ LET closed == [jobs EXCEPT ![t][k] = JobEnding(ending)]
     IN  jobs' = [u \in Task |-> IF ending = "done" /\ u \in Released(t)
                                   THEN Append(closed[u], "todo") ELSE closed[u]]
  /\ stopped' = IF ending = "done" THEN stopped ELSE stopped \cup {SliceOf[t]}
  /\ UNCHANGED <<depends, attempts, leads, writing, handed>>

\* A repeated end_task finds no running row and returns.
EndTask(t, k, ending) ==
  \/ CloseTask(t, k, ending)
  \/ status[t] # "running" /\ UNCHANGED storeVars

-----------------------------------------------------------------------------
(* The owner's requeue procedure (docs/operations.md): clear the status of *)
(* the slice's stopped tasks, then defer a job for each task that lost its *)
(* own.                                                                    *)

OwnerClear(t) ==
  /\ status[t] \in {"failed", "escalated"}
  /\ t \notin Locked
  /\ status' = [status EXCEPT ![t] = "queued"]
  /\ UNCHANGED <<depends, jobs, attempts, leads, writing, handed, stopped>>

OwnerDefer(t) ==
  /\ Ready(t)
  /\ ~SliceStopped(SliceOf[t])
  /\ ~HasJobIn(t, {"todo", "doing"})
  /\ Len(jobs[t]) < MaxJobs[t]
  /\ jobs' = [jobs EXCEPT ![t] = Append(@, "todo")]
  /\ UNCHANGED <<status, depends, attempts, leads, writing, handed, stopped>>

-----------------------------------------------------------------------------
SubmitStep ==
  \E c \in Client :
    \/ \E s \in Slice :
         LET within == {t \in Task : SliceOf[t] = s}
         IN  \E file \in SUBSET within : \E deps \in Graphs(file, within) :
               SubmitBegin(c, file, deps)
    \/ SubmitCommit(c)
    \/ SubmitAbort(c)

OwnerStep == \E t \in Task : OwnerClear(t) \/ OwnerDefer(t)

\* Finish events, each for a task some claim handed out.
FinishStep ==
  \E p \in handed :
    \/ \E n \in Number : BeginAttempt(p[1], n)
    \/ \E n \in Number, result \in {"done", "failed"} : EndAttempt(p[1], n, result)
    \/ \E ending \in {"done", "failed", "escalated"} : EndTask(p[1], p[2], ending)

Next ==
  \/ SubmitStep
  \/ \E p \in JobsIn("todo") : Claim(p[1], p[2])
  \/ ClaimNothing
  \/ Recover
  \/ FinishStep
  \/ OwnerStep

Spec == Init /\ [][Next]_storeVars

-----------------------------------------------------------------------------
(* Properties.                                                             *)

TypeOK ==
  /\ status   \in [Task -> TaskStatus]
  /\ depends  \in [Task -> SUBSET Task]
  /\ jobs     \in [Task -> Seq(JobStatus)]
  /\ attempts \in [Task -> [Number -> AttemptStatus]]
  /\ leads    \in [Task -> [Number -> Nat]]
  /\ writing  \in [Client -> Submission]
  /\ handed   \subseteq Task \X (Nat \ {0})
  /\ stopped  \subseteq Slice

\* claim.py: "there is never a doing job with a queued task, or the reverse".
\* Whatever the order of claims, recoveries and repeated or late finish
\* events, the tasks that are running are the tasks that have a doing job.
JobTaskAgree ==
  \A t \in Task : status[t] = "running" <=> HasJobIn(t, {"doing"})

\* No task ever has two jobs that could still run it, so it is never started
\* twice from one release.
OneLiveJob ==
  \A t \in Task : \A i, j \in DOMAIN jobs[t] :
    jobs[t][i] \in {"todo", "doing"} /\ jobs[t][j] \in {"todo", "doing"} => i = j

\* store.py: "none is left without a job".  While its slice has never
\* stopped, a task whose dependencies are all done has a job in the queue,
\* however a submission and the ends of its dependencies interleave.
NoTaskStranded ==
  \A t \in Task : Ready(t) /\ SliceOf[t] \notin stopped => HasJobIn(t, {"todo"})

\* "only depends_on gates a task": no job is ever queued, and no task ever
\* runs or has run, before every task it depends on is done.
DependenciesFirst ==
  \A t \in Task :
    \/ status[t] \in {"running", "done", "failed", "escalated"}
    \/ HasJobIn(t, {"todo", "doing"})
    => DepsDone(t)

\* "a repeated event writes nothing twice": an attempt has one lead trace if
\* the runner closed it and none otherwise, however often it was reported.
OneLeadTrace ==
  \A t \in Task, n \in Number :
    leads[t][n] = (IF attempts[t][n] \in {"done", "failed"} THEN 1 ELSE 0)

\* A claim throws a job away only because the slice has stopped: the other
\* reason the loop checks for, a task that is not queued, never arises.
DiscardOnlyWhenStopped ==
  [][\A t \in Task : \A k \in DOMAIN jobs[t] :
       jobs[t][k] # "aborted" /\ jobs'[t][k] = "aborted" => SliceStopped(SliceOf[t])]_storeVars

\* What is over stays over: a done task is never run again and a closed
\* attempt keeps its result, whatever late event or recovery comes.
ClosedStaysClosed ==
  [][/\ \A t \in Task : status[t] = "done" => status'[t] = "done"
     /\ \A t \in Task, n \in Number :
          attempts[t][n] \in {"done", "failed", "died"} => attempts'[t][n] = attempts[t][n]
    ]_storeVars

\* What the properties above rest on.  A submission still open has seen its
\* dependencies truly: they exist, and it knows of every one that is done,
\* because its share lock keeps the others from ending meanwhile.
OpenSubmissions ==
  \A c \in Client :
    /\ \A d \in Earlier(writing[c]) : status[d] # "absent"
    /\ writing[c].done = {d \in Earlier(writing[c]) : status[d] = "done"}
    /\ \A t \in writing[c].file : \A d \in writing[c].deps[t] : SliceOf[d] = SliceOf[t]

\* A job in the queue belongs to a queued task, a row depends on rows, and a
\* slice that is stopped has been recorded as such.
TablesFit ==
  \A t \in Task :
    /\ HasJobIn(t, {"todo"}) => status[t] = "queued"
    /\ status[t] = "absent" => jobs[t] = <<>> /\ depends[t] = {}
    /\ \A d \in depends[t] : status[d] # "absent"
    /\ status[t] \in {"failed", "escalated"} => SliceOf[t] \in stopped

\* The inductive invariant.
StoreInv ==
  /\ TypeOK
  /\ JobTaskAgree
  /\ OneLiveJob
  /\ NoTaskStranded
  /\ DependenciesFirst
  /\ OpenSubmissions
  /\ TablesFit

-----------------------------------------------------------------------------
\* The refinement: without its jobs, locks and attempts, this is the life of
\* a task as TaskLifecycle states it.
StateOf(t) ==
  CASE status[t] = "queued"                  -> "waiting"
    [] status[t] \in {"failed", "escalated"} -> "stopped"
    [] OTHER                                 -> status[t]

Lifecycle == INSTANCE TaskLifecycle
  WITH state <- [t \in Task |-> StateOf(t)], needs <- depends

\* Every behaviour of the store is a behaviour of TaskLifecycle.
LifecycleSpec == Lifecycle!Spec
=============================================================================

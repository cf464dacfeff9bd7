----------------------------- MODULE ProfileQueue -----------------------------
(***************************************************************************)
(* The Mac job queue (mac/profile_queue.py): the launchd worker and the    *)
(* owner's commands share queue.json under one lock, and the worker runs   *)
(* one command at a time as a process group of its own.                    *)
(*                                                                         *)
(* The lock serialises whole sections, but anything may die inside one, so *)
(* a section is cut where something outside memory changes: a write of     *)
(* queue.json, a process started, acknowledged, signalled or gone.  A      *)
(* command whose section only writes files is one action that may die      *)
(* half way.  Processes, power and launchd move at any time.               *)
(*                                                                         *)
(* An operator whose name begins with Mutant is a plausible bug in the     *)
(* definition that follows it, for testing the properties; nothing uses it.*)
(***************************************************************************)
EXTENDS Naturals, Sequences, FiniteSets

CONSTANTS
  Name,      \* names of queue jobs
  Pid,       \* process groups that can exist at one time
  MaxDeaths  \* bound: deaths and exceptions of the worker and of commands

ASSUME QueueAssumption == 0 \notin Pid /\ MaxDeaths \in Nat

Phase    == {"gone", "gated", "live", "left"}
JobState == {"absent", "waiting", "running", "finished", "failed"}
Step     == {"idle", "stop", "signal", "wait", "put_back",
             "step", "reap", "finish", "next", "spawn", "record", "gate", "exit"}

VARIABLES
  job,      \* queue.json: each name's record; "absent" when it is not listed
  order,    \* queue.json: the order of the list
  play,     \* queue.json: play
  paused,   \* queue.json: paused_on_battery
  source,   \* queue.json: power_source, TRUE for AC
  settled,  \* BATTERY_GRACE_SECONDS have passed since power_since
  files,    \* the log and progress files on disk
  lock,     \* who holds command.lock: "free", "cli" or "worker"
  pc,       \* where the holder is
  after,    \* where stop returns to
  child,    \* the process start is starting
  worker,   \* "up", "leaving" (in the finally of worker) or "down"
  children, \* the worker's handles on its processes
  phase,    \* of each process group; "left": the leader is gone, not the group
  code,     \* exit status of each leader that is gone
  ran,      \* history: processes whose command was let run
  told,     \* history: processes that were told to stop while they ran
  sched,    \* the scheduled jobs of homelab-profile: "idle", "pending" or "live"
  ac,       \* the Mac is on AC power
  deaths    \* counted for the bound

powerVars  == <<paused, source, settled>>
fileVars   == <<job, order, play, powerVars, files>>
holderVars == <<lock, pc, after, child>>
workerVars == <<worker, children>>
procVars   == <<phase, code, ran, told>>
outerVars  == <<sched, ac, deaths>>
restVars   == <<workerVars, procVars, outerVars>>
vars       == <<fileVars, holderVars, restVars>>

JobRecord == [state : JobState, attempt : 0..2, stopped : BOOLEAN, stopping : BOOLEAN,
              pid : Pid \cup {0}]

NoJob == [state |-> "absent", attempt |-> 0, stopped |-> FALSE, stopping |-> FALSE, pid |-> 0]

NewJob == [NoJob EXCEPT !.state = "waiting"]

\* What start makes of the job it starts.
StartedJob(record) ==
  [record EXCEPT !.state = "running", !.attempt = @ + 1, !.stopped = FALSE]

\* What stop makes of the running job.
StoppedJob(record) == [NewJob EXCEPT !.stopped = TRUE]

\* What finish makes of a job whose attempt ended with this status.
EndedJob(record, status) ==
  [record EXCEPT !.state = IF status = 0 THEN "finished"
                           ELSE IF record.attempt < 2 THEN "waiting" ELSE "failed",
                 !.pid = 0, !.stopping = FALSE]

Paths(n) == {n} \X {"log", "progress"}

Running == {n \in Name : job[n].state = "running"}
Waiting == {n \in Name : job[n].state = "waiting"}

\* Process groups that can execute work or hold models.
Alive == {p \in Pid : phase[p] \in {"live", "left"}}

Recorded(p) == \E n \in Name : job[n].pid = p

\* The list without the job, which is in it.
Without(n) ==
  LET i == CHOOSE j \in DOMAIN order : order[j] = n
  IN SubSeq(order, 1, i - 1) \o SubSeq(order, i + 1, Len(order))

PutFirst(n) == <<n>> \o Without(n)

\* The first waiting job of the list.
IsNext(n) ==
  \E i \in DOMAIN order :
    /\ order[i] = n /\ n \in Waiting
    /\ \A j \in 1..i - 1 : order[j] \notin Waiting

\* What power has returned to this step.
Ready == source /\ ~paused

\* Someone takes the lock, or sends its section to stop, which returns to `then`.
Enter(who, step, then) ==
  lock' = who /\ pc' = step /\ after' = then /\ UNCHANGED child

LockGoes == lock' = "free" /\ pc' = "idle" /\ after' = "idle" /\ child' = 0

\* The holder goes on, or lets the lock go.
Goto(step) ==
  \/ step = "idle" /\ LockGoes
  \/ step # "idle" /\ pc' = step /\ UNCHANGED <<lock, after, child>>

MutantKill(p) == phase' = [phase EXCEPT ![p] = IF @ = "left" THEN @ ELSE "gone"]

\* terminate's signals: a group that is still there goes.
Kill(p) == phase' = [phase EXCEPT ![p] = "gone"]

\* Nothing refers to the process any more.
Forget(p) == code' = [code EXCEPT ![p] = 0] /\ ran' = ran \ {p} /\ told' = told \ {p}

-----------------------------------------------------------------------------
Init ==
  /\ job = [n \in Name |-> NoJob] /\ order = <<>>
  /\ play = FALSE /\ paused = FALSE /\ source = TRUE /\ settled = FALSE
  /\ files = {}
  /\ lock = "free" /\ pc = "idle" /\ after = "idle" /\ child = 0
  /\ worker = "up" /\ children = {}
  /\ phase = [p \in Pid |-> "gone"] /\ code = [p \in Pid |-> 0]
  /\ ran = {} /\ told = {}
  /\ sched = "idle" /\ ac = TRUE /\ deaths = 0

-----------------------------------------------------------------------------
(* command: each takes the lock, and only `stop` does more than write.     *)

Dies == deaths < MaxDeaths /\ deaths' = deaths + 1

\* Both files are created before the job is listed; one that is in the way, or
\* a death, leaves what was created.
Add(n) ==
  /\ job[n].state = "absent" /\ <<n, "log">> \notin files
  /\ \/ /\ <<n, "progress">> \notin files
        /\ files' = files \cup Paths(n)
        /\ job' = [job EXCEPT ![n] = NewJob] /\ order' = Append(order, n)
        /\ UNCHANGED deaths
     \/ /\ <<n, "progress">> \in files
        /\ files' = files \cup Paths(n)
        /\ UNCHANGED <<job, order, deaths>>
     \/ /\ Dies
        /\ files' \in {files \cup {<<n, "log">>}, files \cup Paths(n)}
        /\ UNCHANGED <<job, order>>
  /\ UNCHANGED play

Delist(n) == job' = [job EXCEPT ![n] = NoJob] /\ order' = Without(n)

\* The job is off the list before its files go.
Remove(n) ==
  /\ job[n].state \in {"waiting", "failed", "finished"}
  /\ Delist(n)
  /\ \/ files' = files \ Paths(n) /\ UNCHANGED deaths
     \/ Dies /\ files' \in {files, files \ {<<n, "log">>}}
  /\ UNCHANGED play

Top(n) ==
  /\ job[n].state = "waiting"
  /\ order' = PutFirst(n)
  /\ UNCHANGED <<job, play, files, deaths>>

Requeue(n) ==
  /\ job[n].state = "failed" \/ (job[n].state = "waiting" /\ job[n].stopped)
  /\ job' = [job EXCEPT ![n] = NewJob] /\ order' = Append(Without(n), n)
  /\ UNCHANGED <<play, files, deaths>>

Play == play' = TRUE /\ UNCHANGED <<job, order, files, deaths>>

Command ==
  /\ lock = "free"
  /\ Play \/ \E n \in Name : Add(n) \/ Remove(n) \/ Top(n) \/ Requeue(n)
  /\ UNCHANGED <<powerVars, holderVars, workerVars, procVars, sched, ac>>

\* Persist the intent, then stop what runs.
StopCommand ==
  /\ lock = "free"
  /\ play' = FALSE
  /\ Enter("cli", "stop", "idle")
  /\ UNCHANGED <<job, order, powerVars, files, restVars>>

-----------------------------------------------------------------------------
(* stop: by the command, by the battery, in a step or at the worker's end  *)

StopMark ==
  /\ pc = "stop"
  /\ \/ Running = {} /\ Goto(after) /\ UNCHANGED job
     \/ \E n \in Running : job' = [job EXCEPT ![n].stopping = TRUE] /\ Goto("signal")
  /\ UNCHANGED <<order, play, powerVars, files, restVars>>

\* terminate.  The identity that is recorded with a pid keeps it from meaning
\* a later process, so a pid here is the group that was started.
Signal ==
  /\ pc = "signal"
  /\ \E n \in Running :
       \/ job[n].pid = 0 /\ Goto("put_back") /\ UNCHANGED told
       \/ /\ job[n].pid # 0 /\ Goto("wait")
          /\ told' = told \cup ({job[n].pid} \cap {p \in Pid : phase[p] = "live"})
  /\ UNCHANGED <<fileVars, workerVars, phase, code, ran, outerVars>>

\* The group has gone by itself or is killed.  A group that survives SIGKILL
\* is the TimeoutError of WorkerRaises or CommandDies.
Wait ==
  /\ pc = "wait"
  /\ \E n \in Running :
       /\ Kill(job[n].pid) /\ Forget(job[n].pid)
       /\ children' = IF lock = "worker" THEN children \ {job[n].pid} ELSE children
  /\ Goto("put_back")
  /\ UNCHANGED <<fileVars, worker, outerVars>>

PutBack ==
  /\ pc = "put_back"
  /\ \E n \in Running : job' = [job EXCEPT ![n] = StoppedJob(@)] /\ order' = PutFirst(n)
  /\ Goto(after)
  /\ UNCHANGED <<play, powerVars, files, restVars>>

-----------------------------------------------------------------------------
(* step: one locked iteration of the worker                                *)

\* Forget children that are over and unrecorded, then power: ten minutes on
\* battery pause the queue, stopping what runs, and ten on AC release it.
Tick ==
  /\ worker = "up" /\ lock = "free"
  /\ children' = {p \in children : phase[p] \in {"gated", "live"} \/ Recorded(p)}
  /\ source' = ac
  /\ settled' = (settled /\ source = ac)
  /\ paused' = IF settled' THEN ~ac ELSE paused
  /\ IF paused' /\ ~paused THEN Enter("worker", "stop", "step")
                           ELSE Enter("worker", "step", "idle")
  /\ UNCHANGED <<job, order, play, files, worker, procVars, outerVars>>

MutantUnwanted(n) == FALSE

Unwanted(n) == job[n].stopping \/ ~play

\* A worker that has started since knows nothing of the attempt.
Orphan(n) == job[n].pid \notin children

MutantOver(p) == FALSE

\* poll has an exit status: the leader is gone.
Over(p) == phase[p] \in {"left", "gone"}

\* The running job is stopped, cleared away, left alone or reaped.
StepRunning ==
  /\ pc = "step"
  /\ \/ Running = {} /\ Goto("next")
     \/ \E n \in Running :
          \/ Unwanted(n) /\ Enter("worker", "stop", "next")
          \/ ~Unwanted(n) /\ Orphan(n) /\ Enter("worker", "stop", "idle")
          \/ ~Unwanted(n) /\ ~Orphan(n) /\ Goto(IF Over(job[n].pid) THEN "reap" ELSE "idle")
  /\ UNCHANGED <<fileVars, restVars>>

\* The whole group is released before the next job.
Reap ==
  /\ pc = "reap"
  /\ \E n \in Running : Kill(job[n].pid) /\ children' = children \ {job[n].pid}
  /\ Goto("finish")
  /\ UNCHANGED <<fileVars, worker, code, ran, told, outerVars>>

\* A retry goes to the front of the list.
Finish ==
  /\ pc = "finish"
  /\ \E n \in Running :
       /\ job' = [job EXCEPT ![n] = EndedJob(@, code[job[n].pid])]
       /\ order' = IF job'[n].state = "waiting" THEN PutFirst(n) ELSE order
       /\ Forget(job[n].pid)
  /\ Goto("next")
  /\ UNCHANGED <<play, powerVars, files, workerVars, phase, outerVars>>

-----------------------------------------------------------------------------
(* start                                                                   *)

\* The intent is durable before the spawn.
StartIntent(n) ==
  /\ pc = "next"
  /\ play /\ Ready /\ sched = "idle" /\ IsNext(n)
  /\ job' = [job EXCEPT ![n] = StartedJob(@)]
  /\ files' = files \cup {<<n, "progress">>}
  /\ Goto("spawn")
  /\ UNCHANGED <<order, play, powerVars, restVars>>

NothingToStart ==
  /\ pc = "next"
  /\ ~play \/ ~Ready \/ sched # "idle" \/ Waiting = {}
  /\ Goto("idle")
  /\ UNCHANGED <<fileVars, restVars>>

\* A process that waits at its gate for an acknowledgement.
Spawn ==
  /\ pc = "spawn"
  /\ \E p \in Pid :
       /\ phase[p] = "gone" /\ p \notin children /\ ~Recorded(p)
       /\ child' = p
       /\ phase' = [phase EXCEPT ![p] = "gated"]
       /\ children' = children \cup {p}
  /\ \E n \in Running : files' = files \cup {<<n, "log">>}
  /\ pc' = "record"
  /\ UNCHANGED <<job, order, play, powerVars, lock, after, worker, code, ran, told, outerVars>>

\* The executable or its directory cannot be used, or the identity of what was
\* spawned cannot be had: the attempt ends with 127 and the gate stays shut.
SpawnFails ==
  /\ pc \in {"spawn", "record"}
  /\ \E n \in Running : job' = [job EXCEPT ![n] = EndedJob(@, 127)]
  /\ Goto("idle")
  /\ UNCHANGED <<order, play, powerVars, files, restVars>>

RecordPid ==
  /\ pc = "record"
  /\ \E n \in Running : job' = [job EXCEPT ![n].pid = child]
  /\ Goto("gate")
  /\ UNCHANGED <<order, play, powerVars, files, restVars>>

\* The acknowledgement: the command runs only now.
OpenGate ==
  /\ pc = "gate"
  /\ phase' = [phase EXCEPT ![child] = "live"]
  /\ ran' = ran \cup {child}
  /\ Goto("idle")
  /\ UNCHANGED <<fileVars, workerVars, code, told, outerVars>>

-----------------------------------------------------------------------------
(* Deaths                                                                  *)

\* A section of the worker that does not come to its end stays as it is on disk.
WorkerLetsGo ==
  /\ IF lock = "worker" THEN LockGoes ELSE UNCHANGED holderVars
  /\ UNCHANGED <<fileVars, procVars, sched, ac>>

\* SIGTERM or an exception anywhere in the worker: an OSError while starting,
\* the TimeoutError of a group that survives SIGKILL.
WorkerRaises ==
  /\ worker = "up" /\ Dies /\ WorkerLetsGo
  /\ worker' = "leaving" /\ UNCHANGED children

\* Killed outright, or an exception in its last stop.
WorkerDies ==
  /\ worker # "down" /\ Dies /\ WorkerLetsGo
  /\ worker' = "down" /\ children' = {}

\* The finally of worker: stop, once it has the lock, and end.
LastStop ==
  /\ worker = "leaving" /\ lock = "free"
  /\ Enter("worker", "stop", "exit")
  /\ UNCHANGED <<fileVars, restVars>>

Exit ==
  /\ pc = "exit"
  /\ worker' = "down" /\ children' = {}
  /\ Goto("idle")
  /\ UNCHANGED <<fileVars, procVars, outerVars>>

\* launchd's KeepAlive.
WorkerStarts ==
  /\ worker = "down"
  /\ worker' = "up"
  /\ UNCHANGED <<fileVars, holderVars, children, procVars, outerVars>>

\* `queue stop` is interrupted or gives up.
CommandDies ==
  /\ lock = "cli" /\ Dies /\ LockGoes
  /\ UNCHANGED <<fileVars, workerVars, procVars, sched, ac>>

-----------------------------------------------------------------------------
(* What happens outside                                                    *)

\* The leader ends by itself, with or without its descendants; they end; and
\* when the starter has let go of the pipe, what waited at the gate ends with
\* status 0 and has not run.
ProcessEnds(p) ==
  /\ \/ /\ phase[p] = "live"
        /\ \E end \in {"left", "gone"} : phase' = [phase EXCEPT ![p] = end]
        /\ \E status \in {0, 1} : code' = [code EXCEPT ![p] = status]
     \/ phase[p] = "left" /\ phase' = [phase EXCEPT ![p] = "gone"] /\ UNCHANGED code
     \/ /\ phase[p] = "gated" /\ ~(pc \in {"record", "gate"} /\ child = p)
        /\ phase' = [phase EXCEPT ![p] = "gone"] /\ UNCHANGED code
  /\ UNCHANGED <<fileVars, holderVars, workerVars, ran, told, outerVars>>

Power ==
  /\ ac' = ~ac
  /\ UNCHANGED <<fileVars, holderVars, workerVars, procVars, sched, deaths>>

\* Ten minutes since the source last changed.
Settle ==
  /\ ~settled
  /\ settled' = TRUE
  /\ UNCHANGED <<job, order, play, paused, source, files, holderVars, restVars>>

MutantQueueActive == Alive # {}

QueueActive == Running # {}

\* job_worker of homelab-profile: a scheduled job that is due, or that a
\* dispatch kicks, waits while the queue is active or it is not eligible.
ScheduledWorker ==
  /\ lock = "free" /\ sched # "live"
  /\ sched' \in {"pending", "live"}
  /\ QueueActive => sched' = "pending"
  /\ UNCHANGED <<fileVars, holderVars, workerVars, procVars, ac, deaths>>

\* Its command ends, or the owner removes it.
ScheduledEnds ==
  /\ sched = "live" \/ (sched = "pending" /\ lock = "free")
  /\ sched' = "idle"
  /\ UNCHANGED <<fileVars, holderVars, workerVars, procVars, ac, deaths>>

-----------------------------------------------------------------------------
HolderStep ==
  \/ StopMark \/ Signal \/ Wait \/ PutBack
  \/ StepRunning \/ Reap \/ Finish
  \/ (\E n \in Name : StartIntent(n)) \/ NothingToStart
  \/ Spawn \/ SpawnFails \/ RecordPid \/ OpenGate \/ Exit

OutsideStep ==
  \/ WorkerStarts \/ Power \/ Settle \/ ScheduledWorker \/ ScheduledEnds
  \/ \E p \in Pid : ProcessEnds(p)

Next ==
  \/ Command \/ StopCommand \/ Tick \/ LastStop \/ HolderStep
  \/ WorkerRaises \/ WorkerDies \/ CommandDies \/ OutsideStep

Spec == Init /\ [][Next]_vars

\* launchd restarts the worker, which ticks every second and gets the lock in
\* the end; a section goes on, and what waits at a closed gate ends.
Fairness ==
  /\ WF_vars(HolderStep) /\ WF_vars(WorkerStarts)
  /\ SF_vars(Tick) /\ SF_vars(LastStop)
  /\ \A p \in Pid : WF_vars(phase[p] = "gated" /\ ProcessEnds(p))

FairSpec == Spec /\ Fairness

-----------------------------------------------------------------------------
(* Properties.                                                             *)

TypeOK ==
  /\ job \in [Name -> JobRecord]
  /\ order \in Seq(Name)
  /\ {play, paused, source, settled, ac} \subseteq BOOLEAN
  /\ files \subseteq Name \X {"log", "progress"}
  /\ lock \in {"free", "cli", "worker"} /\ pc \in Step /\ after \in Step
  /\ child \in Pid \cup {0}
  /\ worker \in {"up", "leaving", "down"} /\ children \subseteq Pid
  /\ phase \in [Pid -> Phase] /\ code \in [Pid -> {0, 1}]
  /\ ran \subseteq Pid /\ told \subseteq Pid
  /\ sched \in {"idle", "pending", "live"}
  /\ deaths \in 0..MaxDeaths

\* README: "runs resumable commands one at a time"; the gate: "no unrecorded
\* command runs".  Whatever has died, every group that can still execute work
\* is the one the file records as the running job.
AliveIsRunning ==
  /\ Cardinality(Running) <= 1
  /\ \A p \in Alive : \E n \in Running : job[n].pid = p

\* homelab-profile: a scheduled job and a queue job never run together, and
\* the scheduled one is not overtaken: each looks for the other first.
ScheduledAlone == sched = "live" => Running = {} /\ Alive = {}

\* README: "Remove ... to delete their local logs": a listed job has its files,
\* whichever write a command died before.
ListedHasFiles ==
  \A n \in Name : job[n].state # "absent" => Paths(n) \subseteq files

\* An attempt ends in one of two ways.  Its command was let run and not told to
\* stop, and its own exit status says whether the job is finished: a process
\* that ended with 0 at a closed gate, or on a signal of stop, finishes nothing.
\* Or its spawn failed, status 127: then no process is recorded, nothing at all
\* executes, and the attempt counts as failed although its command never ran.
EndingIsItsOwn ==
  [][\A n \in Name :
       job[n].state = "running" /\ job'[n].state # "running" /\ ~job'[n].stopped
       => \/ /\ job[n].pid \in ran \ told
             /\ job'[n].state = "finished" <=> code[job[n].pid] = 0
          \/ /\ job[n].pid = 0 /\ ran = {} /\ Alive = {}
             /\ job'[n].state # "finished"]_vars

\* README: "A nonzero exit retries once, then stays failed": a failed job has
\* had exactly two attempts end, a waiting one that was not stopped one at most.
RetriedOnce ==
  \A n \in Name :
    /\ job[n].state = "failed" => job[n].attempt = 2
    /\ job[n].state = "waiting" => job[n].attempt <= 1
    /\ job[n].stopped => job[n].state = "waiting" /\ job[n].attempt = 0

\* README: "Nothing starts on battery", nor before the queue is released after
\* a battery pause, nor once a scheduled job waits for the slot.  start looks at
\* these before it writes its intent; when the gate opens, three steps later and
\* with owners, timers and scheduled jobs moving, they still hold, the process
\* is in the file and nothing else executes.
CommandsRunOnPower ==
  [][\A p \in ran' \ ran :
       source /\ ~paused /\ play /\ sched = "idle" /\ Recorded(p) /\ Alive = {}]_vars

\* README: "`stop` terminates the whole process group", and so do ten minutes on
\* battery: while either holds the queue, what runs is stopped, through any
\* death of the command or of the worker.
HeldStops == ~play \/ paused ~> (play /\ ~paused) \/ Alive = {}

\* A job recorded as running with nothing left of it is put back or ended.
NothingStaysClaimed ==
  \A n \in Name : n \in Running /\ Alive = {} ~> n \notin Running \/ Alive # {}
=============================================================================

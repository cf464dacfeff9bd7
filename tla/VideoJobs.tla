------------------------------ MODULE VideoJobs ------------------------------
(***************************************************************************)
(* Background video jobs of the media gateway (video_jobs.py): rows and    *)
(* debits in Postgres, a task for each job in memory, restarts.            *)
(*                                                                         *)
(* A transaction is one action; a task is cut at each of its awaits.  The  *)
(* gateway may die, or be told to stop, anywhere, and any database call    *)
(* may fail with its transaction committed or not.                         *)
(*                                                                         *)
(* An operator whose name begins with Mutant is a plausible bug in the     *)
(* definition that follows it, for testing the properties; nothing uses it.*)
(***************************************************************************)
EXTENDS Naturals, FiniteSets

CONSTANTS
  Job,        \* jobs that may be asked for
  Reader,     \* requests that may retry charges at the same time
  MaxActive,  \* MAX_ACTIVE
  MaxFaults,  \* bound: database calls that fail
  MaxStops    \* bound: deaths and shutdowns of the gateway

ASSUME VideoAssumption == MaxActive \in Nat /\ MaxFaults \in Nat /\ MaxStops \in Nat

Ended   == {"completed", "failed"}
Live    == {"queued", "running"}
Failure == {"none", "provider", "gateway", "restart"}
Kind    == {"async", "single", "resume"}

\* A job is attended once, and again when its recovery is cut short by a fault.
Copy == 1..(MaxFaults + 1)
Task == Job \X Copy

VARIABLES
  row,        \* homelab_video_jobs
  debits,     \* debits of each job in homelab_image_costs
  task,       \* what each task is doing
  active,     \* keys of self.tasks
  pending,    \* self.pending_charge
  copied,     \* what each request has still to retry, as it copied it
  saved,      \* the retries that are recorded and not yet deleted from pending
  recovered,  \* self.recovered
  rows,       \* rows that a recovery has still to deal with, as it read them
  recovering, \* whether a recovery holds the lock
  up,         \* whether the gateway is running or shutting down
  spawned,    \* history: tasks made for each job since the gateway started
  known,      \* history: jobs whose cost was learnt since the gateway started
  paid,       \* history: paid requests made for each job
  faults, stops

dbVars   == <<row, debits>>
flushVars == <<copied, saved>>
lockVars == <<recovered, rows, recovering>>
bounds   == <<faults, stops>>
videoVars == <<row, debits, task, active, pending, copied, saved, recovered, rows, recovering, up,
               spawned, known, paid, faults, stops>>

NoRow  == [status |-> "none", ref |-> FALSE, cost |-> FALSE, failure |-> "none"]
NoTask == [at |-> "none", kind |-> "async", status |-> "failed", cost |-> FALSE, failure |-> "none"]
NoCharge == [status |-> "none", cost |-> FALSE, failure |-> "none"]
NoCharges == [j \in Job |-> NoCharge]

\* run: a job has failed until it completes.
Begun(kind) == [NoTask EXCEPT !.at = "begin", !.kind = kind]

Init ==
  /\ row = [j \in Job |-> NoRow] /\ debits = [j \in Job |-> 0]
  /\ task = [t \in Task |-> NoTask] /\ active = {}
  /\ pending = NoCharges /\ copied = [r \in Reader |-> NoCharges] /\ saved = {}
  /\ recovered = FALSE /\ rows = {} /\ recovering = FALSE
  /\ up = TRUE
  /\ spawned = [j \in Job |-> 0] /\ known = {} /\ paid = [j \in Job |-> 0]
  /\ faults = 0 /\ stops = 0

-----------------------------------------------------------------------------
(* PostgresStore.                                                          *)

MutantDebit(j, cost) == debits' = IF cost THEN [debits EXCEPT ![j] = @ + 1] ELSE debits

\* The first known cost of a job is debited with it.
Debit(j, cost) ==
  debits' = IF cost /\ ~row[j].cost THEN [debits EXCEPT ![j] = @ + 1] ELSE debits

\* update: what is given is written and the rest stays.
Update(j, status, ref, cost, failure) ==
  /\ row' = [row EXCEPT ![j] =
               [status |-> status, ref |-> @.ref \/ ref, cost |-> @.cost \/ cost,
                failure |-> IF failure = "none" THEN @.failure ELSE failure]]
  /\ Debit(j, cost)

Answered == UNCHANGED bounds

\* The call raises, and its transaction may have committed.
Raises == faults < MaxFaults /\ faults' = faults + 1 /\ UNCHANGED stops

-----------------------------------------------------------------------------
(* run, one task of one job.                                               *)

\* The task t goes on to what.
Goes(t, what) == task' = [task EXCEPT ![t] = what]

\* It comes to its finally with this ending.
Ends(t, status, cost, failure) ==
  Goes(t, [task[t] EXCEPT !.at = "finish", !.status = status, !.cost = cost, !.failure = failure])

Learns(t, cost) == known' = IF cost THEN known \cup {t[1]} ELSE known

\* The job is marked as running, and the request it calls for is next.
Begin(t) ==
  /\ up /\ task[t].at = "begin"
  /\ \/ /\ Update(t[1], "running", FALSE, FALSE, "none")
        /\ Goes(t, [task[t] EXCEPT !.at = IF task[t].kind = "resume" THEN "poll" ELSE "send"])
        /\ Answered
     \/ /\ Raises
        /\ Update(t[1], "running", FALSE, FALSE, "none") \/ UNCHANGED dbVars
        /\ Ends(t, "failed", FALSE, "gateway")
  /\ UNCHANGED <<active, pending, flushVars, lockVars, up, spawned, known, paid>>

\* The paid request leaves, to /video-model/start or to /video-model.
Send(t) ==
  /\ up /\ task[t].at = "send"
  /\ Goes(t, [task[t] EXCEPT !.at = "sent"])
  /\ paid' = [paid EXCEPT ![t[1]] = @ + 1]
  /\ UNCHANGED <<dbVars, active, pending, flushVars, lockVars, up, spawned, known, bounds>>

\* Its answer, with or without a cost: a reference, a result, a failure, or none.
Answer(t) ==
  /\ up /\ task[t].at = "sent"
  /\ \E cost \in BOOLEAN :
       /\ Learns(t, cost)
       /\ \/ /\ task[t].kind = "async"
             /\ Goes(t, [task[t] EXCEPT !.at = "save", !.cost = cost])
          \/ /\ task[t].kind = "single"
             /\ Ends(t, "completed", cost, "none")
          \/ Ends(t, "failed", cost, "provider")
  /\ UNCHANGED <<dbVars, active, pending, flushVars, lockVars, up, spawned, paid, bounds>>

\* The reference is stored before the first poll.
Save(t) ==
  /\ up /\ task[t].at = "save"
  /\ \/ /\ Update(t[1], row[t[1]].status, TRUE, FALSE, "none")
        /\ Goes(t, [task[t] EXCEPT !.at = "poll"])
        /\ Answered
     \/ /\ Raises
        /\ Update(t[1], row[t[1]].status, TRUE, FALSE, "none") \/ UNCHANGED dbVars
        /\ Ends(t, "failed", task[t].cost, "gateway")
  /\ UNCHANGED <<active, pending, flushVars, lockVars, up, spawned, known, paid>>

\* The last poll: completed, an error, no answer, or an hour is over.
Poll(t) ==
  /\ up /\ task[t].at = "poll"
  /\ \E cost \in {task[t].cost, TRUE}, status \in Ended :
       /\ Learns(t, cost)
       /\ Ends(t, status, cost, IF status = "completed" THEN "none" ELSE "provider")
  /\ UNCHANGED <<dbVars, active, pending, flushVars, lockVars, up, spawned, paid, bounds>>

\* add_done_callback: the key goes, whichever task of the job it was.
Gone(t) == Goes(t, NoTask) /\ active' = active \ {t[1]}

Outcome(t) == Update(t[1], task[t].status, FALSE, task[t].cost, task[t].failure)

\* The finally of run: the ending and its cost in one transaction, or kept for
\* the next request.
Finish(t) ==
  /\ task[t].at = "finish"
  /\ \/ Outcome(t) /\ Answered /\ UNCHANGED pending
     \/ /\ Raises
        /\ Outcome(t) \/ UNCHANGED dbVars
        /\ pending' = [pending EXCEPT ![t[1]] = [status |-> task[t].status, cost |-> task[t].cost,
                                                failure |-> task[t].failure]]
  /\ Gone(t)
  /\ UNCHANGED <<flushVars, lockVars, up, spawned, known, paid>>

-----------------------------------------------------------------------------
(* handle: a request of a client.  Requests overlap at their awaits.       *)

\* A request takes a copy of the charges that could not be recorded.
FlushRead(r) ==
  /\ up /\ copied[r] = NoCharges /\ pending # NoCharges
  /\ copied' = [copied EXCEPT ![r] = pending]
  /\ UNCHANGED <<dbVars, task, active, pending, saved, lockVars, up, spawned, known, paid, bounds>>

Retry(r, j) == Update(j, copied[r][j].status, FALSE, copied[r][j].cost, copied[r][j].failure)

MutantFlushWrite(r, j) ==
  /\ copied[r][j] # NoCharge /\ \A k \in Job : <<r, k>> \notin saved
  /\ \/ Retry(r, j) /\ Answered /\ saved' = saved \cup {<<r, j>>} /\ UNCHANGED <<copied, pending>>
     \/ /\ Raises
        /\ Retry(r, j) \/ UNCHANGED dbVars
        /\ copied' = [copied EXCEPT ![r] = NoCharges] /\ UNCHANGED saved
        /\ pending' = [pending EXCEPT ![j] = NoCharge]
  /\ UNCHANGED <<task, active, lockVars, up, spawned, known, paid>>

\* It records them one by one, in some order; when that raises it is over.
FlushWrite(r, j) ==
  /\ copied[r][j] # NoCharge /\ \A k \in Job : <<r, k>> \notin saved
  /\ \/ Retry(r, j) /\ Answered /\ saved' = saved \cup {<<r, j>>} /\ UNCHANGED copied
     \/ /\ Raises
        /\ Retry(r, j) \/ UNCHANGED dbVars
        /\ copied' = [copied EXCEPT ![r] = NoCharges] /\ UNCHANGED saved
  /\ UNCHANGED <<task, active, pending, lockVars, up, spawned, known, paid>>

\* One that is recorded is deleted after the await; when another request has
\* done so already the KeyError ends this one.
FlushForget(r, j) ==
  /\ <<r, j>> \in saved /\ saved' = saved \ {<<r, j>>}
  /\ pending' = [pending EXCEPT ![j] = NoCharge]
  /\ copied' = [copied EXCEPT ![r] = IF pending[j] = NoCharge THEN NoCharges
                                     ELSE [@ EXCEPT ![j] = NoCharge]]
  /\ UNCHANGED <<dbVars, task, active, lockVars, up, spawned, known, paid, bounds>>

Flush(r) == FlushRead(r) \/ \E j \in Job : FlushWrite(r, j) \/ FlushForget(r, j)

\* spawn, a task under the job's key.
Spawn(j, kind) ==
  /\ spawned' = [spawned EXCEPT ![j] = @ + 1]
  /\ Goes(<<j, spawned[j] + 1>>, Begun(kind))
  /\ active' = active \cup {j}

\* recover: the first request after a start reads what an earlier gateway left.
RecoverBegin ==
  /\ up /\ ~recovered /\ ~recovering
  /\ recovering' = TRUE
  /\ rows' = {<<j, row[j].ref>> : j \in {k \in Job : row[k].status \in Live}}
  /\ UNCHANGED <<dbVars, task, active, pending, flushVars, recovered, up, spawned, known, paid,
                 bounds>>

\* A job with a reference is polled again.
Resume(j) ==
  /\ recovering /\ <<j, TRUE>> \in rows
  /\ Spawn(j, "resume")
  /\ rows' = rows \ {<<j, TRUE>>}
  /\ UNCHANGED <<dbVars, pending, flushVars, recovered, recovering, up, known, paid, bounds>>

Interrupted(j) == Update(j, "failed", FALSE, FALSE, "restart")

MutantGiveUp(j) ==
  /\ recovering /\ <<j, FALSE>> \in rows
  /\ Spawn(j, "async")
  /\ rows' = rows \ {<<j, FALSE>>}
  /\ UNCHANGED <<dbVars, pending, flushVars, recovered, recovering, up, known, paid, bounds>>

MutantLeaveAlone(j) ==
  /\ recovering /\ <<j, FALSE>> \in rows
  /\ rows' = rows \ {<<j, FALSE>>}
  /\ UNCHANGED <<dbVars, task, active, pending, flushVars, recovered, recovering, up, spawned,
                 known, paid, bounds>>

\* One without is failed; when that raises the recovery is over, and is begun
\* again by a later request.
GiveUp(j) ==
  /\ recovering /\ <<j, FALSE>> \in rows
  /\ \/ Interrupted(j) /\ rows' = rows \ {<<j, FALSE>>} /\ UNCHANGED recovering /\ Answered
     \/ /\ Raises
        /\ Interrupted(j) \/ UNCHANGED dbVars
        /\ rows' = {} /\ recovering' = FALSE
  /\ UNCHANGED <<task, active, pending, flushVars, recovered, up, spawned, known, paid>>

RecoverEnd ==
  /\ recovering /\ rows = {}
  /\ recovering' = FALSE /\ recovered' = TRUE
  /\ UNCHANGED <<dbVars, task, active, pending, flushVars, rows, up, spawned, known, paid, bounds>>

\* POST /v1/videos: a new job under the lock, unless MAX_ACTIVE are active.
Create(j, kind) ==
  /\ up /\ recovered /\ row[j] = NoRow
  /\ Cardinality(active) < MaxActive
  /\ \/ /\ row' = [row EXCEPT ![j].status = "queued"]
        /\ Spawn(j, kind)
        /\ Answered
     \/ /\ Raises
        /\ row' \in {row, [row EXCEPT ![j].status = "queued"]}
        /\ UNCHANGED <<task, active, spawned>>
  /\ UNCHANGED <<debits, pending, flushVars, lockVars, up, known, paid>>

\* A start repeated with its key finds the row, and a read does too.
Repeat(j) == up /\ recovered /\ row[j] # NoRow /\ UNCHANGED videoVars

-----------------------------------------------------------------------------
(* The end of the gateway.                                                 *)

Stop == stops < MaxStops /\ stops' = stops + 1 /\ UNCHANGED faults

\* A new gateway knows nothing.
Restarted ==
  /\ task' = [t \in Task |-> NoTask] /\ active' = {} /\ pending' = NoCharges
  /\ copied' = [r \in Reader |-> NoCharges] /\ saved' = {}
  /\ recovered' = FALSE /\ rows' = {} /\ recovering' = FALSE
  /\ up' = TRUE /\ spawned' = [j \in Job |-> 0] /\ known' = {}
  /\ UNCHANGED <<dbVars, paid>>

Crash == Stop /\ Restarted

\* It is told to stop: requests end first, then every task is cancelled.
Shutdown ==
  /\ Stop /\ up /\ ~recovering /\ \A r \in Reader : copied[r] = NoCharges
  /\ up' = FALSE
  /\ UNCHANGED <<dbVars, task, active, pending, flushVars, lockVars, spawned, known, paid>>

\* The task's await raises CancelledError.  One that has not begun just goes;
\* one in its finally goes too, since only an Exception is caught there; any
\* other comes to its finally.
Cancel(t) ==
  /\ ~up /\ task[t].at # "none" /\ task[t].failure # "restart"
  /\ \/ task[t].at = "begin" /\ Gone(t) /\ UNCHANGED dbVars
     \/ task[t].at = "finish" /\ Gone(t) /\ (Outcome(t) \/ UNCHANGED dbVars)
     \/ /\ task[t].at # "finish"
        /\ Ends(t, "failed", task[t].cost, "restart")
        /\ \/ UNCHANGED dbVars
           \/ task[t].at = "begin" /\ Update(t[1], "running", FALSE, FALSE, "none")
           \/ task[t].at = "save" /\ Update(t[1], row[t[1]].status, TRUE, FALSE, "none")
        /\ UNCHANGED active
  /\ UNCHANGED <<pending, flushVars, lockVars, up, spawned, known, paid, bounds>>

Exit ==
  /\ ~up /\ \A t \in Task : task[t].at = "none"
  /\ Restarted /\ UNCHANGED bounds

-----------------------------------------------------------------------------
Step(t)  == Begin(t) \/ Send(t) \/ Answer(t) \/ Save(t) \/ Poll(t) \/ Cancel(t)
            \/ ((up \/ task[t].failure = "restart") /\ Finish(t))
Recovery == RecoverBegin \/ (\E j \in Job : Resume(j) \/ GiveUp(j)) \/ RecoverEnd

Next ==
  \/ \E t \in Task : Step(t)
  \/ Recovery
  \/ \E r \in Reader : Flush(r)
  \/ \E j \in Job : Create(j, "async") \/ Create(j, "single") \/ Repeat(j)
  \/ Crash \/ Shutdown \/ Exit

Spec == Init /\ [][Next]_videoVars

\* asyncio runs every task, an await ends within its hour, and clients go on
\* asking for their jobs, which records charges and recovers.
VideoFairness ==
  /\ \A t \in Task : WF_videoVars(Step(t))
  /\ WF_videoVars(Recovery) /\ WF_videoVars(Exit)
  /\ \A r \in Reader : WF_videoVars(Flush(r))

FairSpec == Spec /\ VideoFairness

-----------------------------------------------------------------------------
(* Properties.                                                             *)

JobsOK ==
  /\ row \in [Job -> [status : Ended \cup Live \cup {"none"}, ref : BOOLEAN, cost : BOOLEAN,
                      failure : Failure]]
  /\ debits \in [Job -> Nat] /\ paid \in [Job -> Nat]
  /\ task \in [Task -> [at : {"none", "begin", "send", "sent", "save", "poll", "finish"},
                        kind : Kind, status : Ended, cost : BOOLEAN, failure : Failure]]
  /\ active \subseteq Job /\ known \subseteq Job
  /\ pending \in [Job -> [status : Ended \cup {"none"}, cost : BOOLEAN, failure : Failure]]
  /\ recovered \in BOOLEAN /\ recovering \in BOOLEAN /\ up \in BOOLEAN
  /\ rows \subseteq Job \X BOOLEAN
  /\ spawned \in [Job -> 0..(MaxFaults + 1)]
  /\ faults \in 0..MaxFaults /\ stops \in 0..MaxStops

TypeOK ==
  /\ JobsOK
  /\ copied \in [Reader -> [Job -> [status : Ended \cup {"none"}, cost : BOOLEAN, failure : Failure]]]
  /\ saved \subseteq Reader \X Job

\* README.md: charges "add once per job", whatever is retried, resumed, flushed
\* or attended twice.
DebitedOnce == \A j \in Job : debits[j] = IF row[j].cost THEN 1 ELSE 0

\* README.md: a paid request is never repeated automatically.
PaidOnce == \A j \in Job : paid[j] <= 1

\* ARCHITECTURE.md: a confirmed charge is retained until it is recorded; only
\* the end of the gateway, or a job attended twice, can lose one.
CostKept ==
  up => \A j \in known : spawned[j] <= 1 =>
    \/ row[j].cost \/ pending[j].cost
    \/ \E t \in Task : t[1] = j /\ task[t].at # "none" /\ task[t].cost

\* A job that has ended stays as it ended, unless it is attended twice.
EndedStays ==
  [][\A j \in Job : row[j].status \in Ended /\ spawned[j] <= 1
                      => row'[j].status = row[j].status]_videoVars

\* A job that a gateway has attended ends, through faults and restarts.
AttendedEnds ==
  \A j \in Job : row[j].status \in Live /\ (spawned[j] > 0 \/ pending[j] # NoCharge)
                   ~> row[j].status \in Ended

\* README.md: "Async jobs with a saved Vercel reference resume when the gateway
\* next receives a video request": a restart fails none of them.
SavedResume == \A j \in Job : row[j].ref => row[j].failure # "restart"
=============================================================================

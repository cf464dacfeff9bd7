# Home Lab v2 in TLA+

This directory is a verification project for the repository beside it: TLA+
models of its stateful parts, configurations that check them on small instances
with TLC, and theorems about them checked by TLAPS. Every definition is
translated from the code it names in `PROJECT.json` ("map"). The database's own
functions, `docker exec`, launchd, systemd and the owner are outside the
repository and are modelled from how the code uses them.

## The system

| component | state it keeps | operations | talks to |
|---|---|---|---|
| Task store (`src/homelab/tasks`) | Postgres rows of tasks, attempts, traces; Procrastinate jobs | submit, claim, claim --recover, begin/end_attempt, end_task | runner (docker exec), planner (submit) |
| Task runner (`homelab-task-runner`) | one task held, `recovered`, its place in the routes | turn, run_task, attempt, push, record | store, task run, git |
| Task run (`homelab-task-run`) | one ticket's steps and reviews; a token file and a cost file for each container | run a ticket in containers, issue and revoke tokens, add up costs | gateway, through the two folders of files |
| Gateway hooks (`config/litellm_hooks.py`) | requests counted for each token, in memory; a charge on its way to the database | admit, count, record a task's cost; settle and record an image's charge | task run, provider, Postgres |
| Image costs (`image_costs.py`) | a row for each month and purpose, flags of the alerts sent | add, alert | gateway hooks, host notifier |
| Video jobs (`src/homelab/api/video_jobs.py`) | rows of jobs and debits; results and pending charges in memory | create, run, recover, charge | provider, clients |
| Bot orders (`orders.py`) | orders.json on the data volume, under one lock | propose, tap, reconcile, ack, edit | Telegram, git mirror |
| Bot notices (`planning.py`) | a marker file: how far the outbox was passed on | batch, send, mark | Telegram, the scheduler's export |
| Bot conversation and keeping (`conversation.py`, `keeping.py`, `inbox.py`) | episodes, replies and drafts in memory; the inbox's files | route a message, answer, ask, keep | Telegram, models, inbox |
| Mac job queue (`mac/profile_queue.py`) | queue.json under one flock; a child process | add, play, stop, remove, top, requeue; worker tick | launchd, homelab-profile |
| Mac profiles (`mac/homelab-profile`) | profile, session and job files under the same flock | switch, tick, schedule, jobs | launchd, router |
| Router, registration, listener, menu bar, benches, copies, knowledge, API glue | little or none | | |

What is hard about them: transactions that interleave (a submission against the
end of a dependency); commands that outlive their caller and land late; answers
that are lost and requests repeated; services that die between two durable
steps; results that must be recorded once; and, on the Mac, a process tree that
has to agree with a file whatever dies. `PROJECT.json` lists each of these
hazards with its line and with the properties that would notice.

## Modules

| module | models |
|---|---|
| `TaskStore` | the tables and their transactions, any client calling them at any time |
| `TaskLifecycle` | what the store promises a planner, without jobs, locks or attempts |
| `TaskRunner` | the service, over `TaskStore`, with lost answers, late commands and deaths |
| `ProfileQueue` | the Mac job queue: queue.json, its worker and commands, the process groups |
| `Orders` | the Telegram bot's orders: orders.json, the messages, the passes that edit them |
| `OrderLife` | the transitions of an order, as docs/operations.md gives them |
| `VideoJobs` | the media gateway's background video jobs: rows, debits, tasks, recovery, restarts |
| `Outbox` | the bot's planning notices: the marker file, a pass over the new lines, failures and restarts |
| `Deliveries` | what the notices promise: every line in order to everyone, before the next |
| `TaskTokens` | the tokens of a task run's containers: grants, budgets and costs, between the run and the proxy |
| `ImageCosts` | what images cost: charges from the answer to the month's total, and the alerts about it |
| `Conversation` | the bot's conversations: episodes, replies, drafts, and what reaches the inbox |
| `MC...` | instances of the above for TLC |
| `TaskProofs` | theorems and proofs about `TaskStore`, `TaskLifecycle` and `TaskRunner` |
| `ProfileQueueProofs`, `OrdersProofs`, `VideoJobsProofs`, `OutboxProofs`, `TaskTokensProofs`, `ImageCostsProofs`, `ConversationProofs` | theorems and proofs about the module of that name |

### TaskStore

One action is one committed transaction. `SubmitBegin` and `SubmitCommit` are
the two halves of `submit`: it reads the dependencies FOR SHARE, and what it has
read (`writing[c].done`) decides which jobs it queues when it commits. `Locked`
are the rows under such a lock; every update of a task row (`Claim`, `Recover`,
`CloseTask`, `OwnerClear`) waits for it. `Claim` is the whole loop of claim.py:
it discards any jobs that come before the one it hands out and have to be
discarded. `Recover` is both statements of `claim --recover`; the one
transaction that does harm between them is `ClaimDuringRecover`, which takes a
claim that outlived its runner and is therefore only reached in `TaskRunner`.
`EndTask` is end_task with the jobs it queues for released dependents, or the
silent return when the task is not running.

A task is identified by (slice, position), as the table's unique constraint has
it; a file is a set of tasks of one slice with an acyclic graph. Tokens, costs,
reasons and review traces are left out. `handed` and `stopped` are history
variables.

A finish event may come any number of times, arbitrarily late, for any task and
job a claim ever handed out. That covers every retry of the runner and every
command left in a container.

Procrastinate's `finish_job` refuses a job that is over, which undoes the whole
end_task: `CloseTask` has that as a guard. The owner's requeue follows
docs/operations.md and is external.

### TaskRunner

`pc` is where the runner is; `held` what it holds; `run` its place in
`run_routes`. `Recorded` is one successful `record`, together with what the
runner decides next (`AfterAttempt`: retry once, next route, one more pass for a
moved branch, done or escalated). `Unrecorded` and `TurnUnavailable` are the ways
a command can end for a runner that gets no answer: it landed, it did not, or it
is still running (`late`, until `LateLands`). `Crash` is any death of the
service, at any point; systemd starts it again at `pc = "idle"`, unrecovered.
Cloning, running the ticket and pushing is one action, `Work`, that chooses the
ending; a push that failed may have reached the branch.

Bounds: `MaxAttempts` (attempt numbers), `MaxJobs` (the owner's requeues),
`MaxRoutes`, `MaxFaults`, `MaxLate`, `MaxCrashes`. `LateOps` says which commands
may land late, so that a run can isolate one cause.

### ProfileQueue

`command.lock` serialises every section of the worker and of the owner's
commands, so what interleaves are the deaths: a section is cut at each write of
queue.json and at each thing done to a process, and between any two the worker
can be killed (`WorkerDies`), raise or be told to end (`WorkerRaises`, then
`LastStop`, the `finally` of `worker`), or the command that holds the lock can
die (`CommandDies`). `pc` and `after` are the place in that section; `stop` is
called from four places and `after` is where it returns to. `Command` holds the
commands that only write files, each one action with its half-done outcomes.

A process group is `gated` until the worker acknowledges it, `live` while its
command runs, `left` when the leader is gone and descendants are not, and `gone`.
`children` are the worker's handles, lost with it, which is how a restarted
worker knows an attempt for an orphan. `ran` and `told` are history variables:
which attempts were let go, which were signalled while they ran.

A spawn that fails is an attempt too (`finish(job, 127)`): it counts and, the second
time, ends the job as failed although its command never ran. `EndingIsItsOwn` has both
ways an attempt can end, and `CommandsRunOnPower` says of the gate, which opens three
steps after `start` looked, that all `start` found still holds.

Abstractions: time is `settled` (ten minutes since the source of power changed);
the scheduled jobs of homelab-profile are one variable, `sched`, since the queue
only asks whether any is pending or live; the identity recorded beside a pid
makes a pid that is used again harmless, so a group is its pid until nothing
refers to it. `save` replaces the file, so a write is atomic. A job that is to
be retried is written twice in one section, and only its place in the list
differs between the two, so `Finish` is one action. Notices and the report are
left out.

### Orders

A method of `Orders` holds the planning lock to its end and its `save` replaces
the file, so each is one action. What happens between two methods is in
`handler` (the update handler has proposed and is sending the buttons) and in
`todo` and `inFlight` (a pass of `edit_orders`, which works from a copy it took
under the lock; `edit_lock` allows one pass at a time). The bot takes updates
one after another, so a tap finds `handler` idle; receipts, pulls for notices
and edits come from other tasks and threads, at any time. `phone` is what the
owner's message shows, whether or not the bot ever learnt that it got there.

The scheduler's export may change between any two reads (`Move`). `Tap` and
`Propose` pull first, which reconciles every open order, and read again for
their own check: `Refresh` before the action is the first read, the action has
the second. A slice is its snapshot and whether it permits the order's action,
because an answer or an approval leaves the snapshot as it was. Orders of the
main orchestrator or of a repository expect nothing and are never overtaken.
Texts, audit lines and who owns an order are left out.

### VideoJobs

A transaction of `PostgresStore` is one action (`Update` with its debit, `Create`),
because it locks the job's row. A task of `run` is cut at each of its awaits:
`task[t].at` says which it has reached, and the rest of the record is what the
coroutine's local variables hold. A database call that raises may have committed
(`Raises`); it is counted in `faults`. `Poll` is the last answer of the polling
loop, whose earlier answers change nothing.

What a request does first, retrying the kept charges, is cut at its await: `FlushRead`
is the copy of the entries it goes through, `FlushWrite` the update of one, `FlushForget`
the `del` after it. Two requests (`Reader`) may be at the same entry; the second `del`
finds it gone, which its `except` takes for a charge that could not be recorded. A
request in it keeps `Shutdown` waiting.

`recover` is one row at a time (`Resume` has no await in it, `GiveUp` has one),
under the lock that creating a job takes too, and works from the rows as it read
them. When it raises it is over and begins again with a later request, so a job
may be attended by two tasks: `Task` is a job and a number, `spawned` counts them,
and `active` is `self.tasks`, from which whichever task ends first takes the key.

The gateway ends in two ways. `Crash` loses everything in memory. `Shutdown` lets
requests end and then cancels every task, each at the await it has reached
(`Cancel`): the `CancelledError` branch of `run` takes that for a failure, and its
`finally` still writes. Left out: request validation, amounts of money (a cost is
known or not), and the memory cache of finished videos.

### Outbox

A pass of `notify_once` works from a snapshot of the outbox's lines (`batch`) and
of the marker (`mem`): `Fetch`. Then sends and saves alternate, each an await at
which the bot may fail or die, so each is an action, with the ways in which it can
raise after it took effect (`SendFails`, `SaveFails`, `Die`). A failure ends the
pass and `run` begins another from the file. The outbox grows and is exported by
others (`Write`, `Export`); an export that shows less than an earlier one is `Cut`,
and `Fetch` waits until it has caught up, as `notification_batch` raises. A start
reads the allowlist anew (`Boot`), which may leave a line's recipients all marked
(`Pass`). The text of a notice is left out.

### TaskTokens

`phase` is where a container is on the run's side: its token file is there from
`Issue` to `Revoke`, and `Read` adds up the cost file and removes it. A request is
cut where the hooks await: `Arrive` reads the grant, the body is awaited, `Judge`
counts it (that and its refusal are one step, without an await), and the reply is
streamed until `Record` or `Break` appends its line. `LoseLine` is a reply without a
line: the write failed, or the client left before the stream was begun. `Restart`
empties what the proxy remembers. A cost is the set of requests it adds up, so a sum
that misses one, or has one too many, is told apart from the right one whatever the
amounts are. A proxy that restarts forgives the counts; `BudgetKept` says so.

### ImageCosts

A request of the image routes is cut where another step can come between: before the
provider is asked (`Account`), when its answer is captured, when the answer has been
read (`Finish`), and when the charge is saved (`Persist`, `PersistFails`). The month is
fixed when the answer is captured, or when it is read for an upscale. A run of the
alerts is one transaction for each threshold, with the month's sentinel row locked from
`Look` to `Mark`; the message goes out in between. When the proxy dies (`Restart`), a
charge that waited for its save may have been committed or not, so what is lost with the
proxy may be in a total: `TotalIsExact` bounds it by all requests that were answered or
lost. Amounts are numbers of cents; what the images are is left out.

### Conversation

The bot takes updates one after another, so a message is one action: `Found` is
which episode it is led to, with what that evicts, and `Excuse`, `Answer`, `Clarify`,
`Question`, `Keep`, `KeepHalfway` are what becomes of it. Whether a message follows on
from an answer, is to be kept or needs a question is the owner's and the model's
choice. `Wait`, `Lock` and `Restart` come between any two. The limits are constants
with small values, since nothing depends on them but which episode is the next to go;
`TurnLimit` closes an episode, `EpisodeLimit` and `ReplyLimit` forget the oldest.

An episode's time is 0 until an answer or a question sets it, and the clock counts from
the host's boot: `young` says that it is under 30 minutes, and a new episode is `fresh`
only then. A draft that stays in memory may therefore be of no use to its owner; what
the owner's next message can go on with is `Reach`. `DraftStaysInReach` is about that,
and the run `conversation_failed_call` about the draft that never gets there.

## Runs

| run | instance | asks |
|---|---|---|
| `store` | 3 tasks of a slice with every graph, 1 of another slice with a requeue, 1 open submission | stranded or early starts, agreement, discards, refinement of `TaskLifecycle` |
| `runner` | 1 route, 9 attempts, 1 lost answer, 1 late attempt event, 1 death, fair | traces, nothing left running, pushes, results, the refinement of `TaskStore`; a queued job ends |
| `runner_zombies` | 2 routes, any 2 late commands, 1 death, one requeue | what survives even a command that lands anywhere |
| `queue` | 1 job, 2 process groups, 2 deaths, fair | file and processes agree; stops and endings are told apart and carried through |
| `orders` | 2 orders, 1 slice, 2 changes of it, 1 fault, fair | what is queued was shown; transitions; messages follow their orders |
| `outbox` | 3 recipients, 3 lines, 2 failures, 1 export cut, fair | refinement of `Deliveries`; repeats; everyone hears |
| `tokens` | 2 containers, 3 requests, a budget of 1, 1 restart, 1 lost line | budgets, and costs neither over- nor understated |
| `images` | an image and an upscale, 2 months, 2 runs of the alerts, 2 failures, fair | totals, named debits, alerts told once and in the end |
| `conversation` | 2 owners, 4 messages, limits of 2, 1 fault | owners apart, nothing kept twice, drafts whole and in reach |
| `conversation_failed_call` | the same | a statement of a test that a failed first call does not keep |
| `video` | 2 jobs, 2 overlapping requests, 2 failed database calls, 2 deaths or shutdowns, fair | paid once, debited once, a learnt cost kept, an attended job ends |
| `video_restart` | 1 job, 1 shutdown | a statement of the repository's README that a shutdown does not keep |

Three tasks are the fewest with a diamond's two sides (a task with two dependencies, a
chain, two dependents of one); the fourth, in the other slice, goes on when the first
slice stops, and must not lose its job to that; it is also the one the owner gives
another job (`MaxJobs` is a bound for each task), so that late finish events meet a
requeued task. One open submission is where the `store` run ends; that two of them
change nothing is left to the proofs, which hold for any number; attempts are begun and
traced in `runner` (`OneLeadTrace`), not in `store`. Two late commands and a death are
the fewest where a stale command meets a rerun. Nine attempts are more than a route
costs with its retry and its second pass, twice over for a death. Two process groups are
what an orphan and its successor need, and two deaths let a recovery die too. Two orders
let one pull overtake both, or one while the other is tapped; two changes of a slice let
it go and come back. Three recipients are the fewest where one has the line, one is
being sent it and one waits; three lines the fewest with one skipped, one under way and
one to come. Three requests on a budget of one let two overlap the one that is counted,
and two containers let one's stragglers meet the other's file. An image in each of two
months, and amounts below, at and above a threshold of the budget, reach every alert.
Two failed calls let a recovery be cut short and the ending of what it resumed be lost
as well, and two jobs let one recovery treat both kinds; the limit on active jobs
(`MaxActive`) is as large as their number and refuses none of them, and no property
rests on it. Two requests are the fewest that retry the same charge. Four messages and
two episodes of two owners are the fewest where an eviction, a late reply and a draft
meet. What the proofs show holds for any of these numbers.

CHECK_DEADLOCK is off where the bounds let everything come to rest (`outbox`,
`tokens`, `images`, the two of `Conversation`) and on everywhere else: both queues, the orders and
the video jobs can always be asked again. Symmetry is used for safety only.

Two runs show a disagreement between the code and what the repository says of it:

* `video_restart`: README.md (236) says that async jobs with a saved reference resume
  when the gateway next receives a video request. A gateway that is told to stop writes
  them as failed.
* `conversation_failed_call`: tests/test_telegram_bot.py (2555) says that the known draft
  can still be kept without a model call after a failure, docs/operations.md (75,
  121-122) that 30 minutes of silence close an episode and that `just save it` saves what
  is known. On a host that has been up for more than 30 minutes, a draft whose first call
  failed is too old at once (`now - previous.at` in conversation.py, 119, with `at` still
  0): `just save it` opens another episode and keeps itself, and there is no bot message
  to reply to. The test passes because it only looks for "Kept".

Three more were met while modelling and are in the hazards list, without a run of their
own:

* A claim that outlives its 120 seconds may commit after the recovery that was meant
  to undo it. The task is then running, nobody holds it, and the runner, which
  believes that it has recovered, never looks again until it is restarted. The same
  claim may commit between the recovery's two statements (`ClaimDuringRecover`), and
  then job and task disagree, which claim.py (37) excludes. `JobTaskAgree` and
  `StoreSpec` are about instances without it, so no property watches that hazard.
* An end_task left behind by a killed runner may land while its successor works on the
  same task and job. It closes the task with the older result, and the newer one is
  dropped as a repeat. Both need a command that `docker exec` leaves running.
* A task's cost is summed when its container has ended, and a request of it that the
  proxy is still at then is not in the sum: docs/operations.md (1571-1573) calls the cost
  unknown when a reply did not report it, and `read_cost` (homelab-task-run, 421) sees
  lines, not replies. `QuietCostIsWhole` is about containers with nothing under way.

Each property has a mutant (an operator named `Mutant...` placed before the
definition it changes): a plausible bug in that definition that breaks the
property in the same run.

## Fairness

`FairSpec` assumes of the code what systemd and its loops give: `Restart=always`
and `while True` in main (recovery and claims are tried for ever), the loop in
`record`, run_task going on to its end. Recovery, claims and records wait for
share locks, which are passing but may come again: strong fairness. A command
left in a container runs in the end, and an open submission commits or is rolled
back. The data volume is mounted and no manual run holds the lock for ever.
Crashes and faults are bounded, so they end.

The queue's `FairSpec` assumes launchd's `KeepAlive`, the worker's `while True`
with its one-second sleep, and that `flock` is obtained in the end though others
take it in between (strong fairness of `Tick` and `LastStop`); a section that
holds the lock goes on, and a process at a gate whose pipe has closed ends. It
assumes nothing of the commands: they may run for ever, and the owner may press
play or stop, or the power come and go, at any time.

The orders' `FairSpec` assumes the edit loop (`while True`, one second apart) and
that Telegram answers in the end, with at most `MaxFaults` failures. Nothing is
assumed of the owner, the collector or the orchestrator. `MessageFollows` is
about orders attached to their message: one whose buttons were sent and never
attached keeps them, which the hazards list.

The notices' `FairSpec` assumes that the exporter and the poll go on, that a send or a save
ends, and that systemd starts the bot again; a recipient who can never be reached is
outside it, as the hazards say. The alerts' `FairSpec` assumes their timer and that a run
does not stop by itself. `TaskTokens` and `Conversation` promise nothing in the end and
have no fairness.

The video jobs' `FairSpec` assumes that asyncio runs every task, that an await ends
(the code gives a job an hour), that a gateway told to stop is started again, and
that clients go on asking for their jobs: their requests are what recovers and what
records a kept charge. `CostKept` and `AttendedEnds` exclude what the
hazards list: jobs attended twice, and rows inserted by a call whose answer was lost.

## What is proved

For every set of tasks and slices and every bound, and for every number of open
submissions:

* `TaskProofs`, the store: `StoreInv` is inductive. The properties alone are not:
  `NoTaskStranded` needs what an open submission knows (`OpenSubmissions`: it has
  seen every done dependency, because its lock keeps the others from ending), and
  `OneLiveJob` and `JobTaskAgree` need that a todo job's task is queued
  (`TablesFit`). From it follow the safety properties, and with it the action
  properties `DiscardOnlyWhenStopped` and `ClosedStaysClosed`; `OneLeadTrace` has
  an invariant of its own.
* `TaskProofs`, the refinement: every step of the store is a step of `TaskLifecycle` or
  changes nothing there.
* `TaskProofs`, the runner. Each theorem says which commands may outlive the runner that
  sent them. Whatever they are, `DoneIsPushed`: what says done, the runner or a late
  end_task, has been pushed (`PushedInv`). If only finish events land late, every step
  of the runner is a step of the store, so all of the above holds with it; what runs is
  held (`HoldInv`); and every push is paid for by a job or a death (`BudgetInv`: a job
  that may still push counts as one that will). If only attempt events do,
  `HeldIsRunning`, `ResultLands` (`ResultInv`: a held task is running, or its end_task
  has landed) and `DoneByLastAttempt`. That last one needs that attempts have no gap,
  that the runner's number is the last begun or the next (`RunFits`), and that a late
  event can only begin what is next or end what was begun before, or the attempt being
  run the way it ended (`LateFits`); and that `NextAttempt` exists at all, which is an
  argument on a well-founded order (`NextIsNext`).
* `TaskTokensProofs`: `BudgetKept` from an invariant about each life of the proxy (a
  token has let through at most its budget for each restart, and its count since),
  `NeverOverstated` and `QuietCostIsWhole` from what a line in a cost file means
  (`CostInv`).
* `OutboxProofs`: `OutboxInv` is inductive, `Outbox` implements `Deliveries`, and
  repeats are paid for by failures: the file lags behind what was received by one
  recipient at most (`OneStepAhead`), and a line that will be received again has
  already cost a failure (`Paid`).
* `ProfileQueueProofs`: `QueueInv` is inductive, and every invariant and action
  property of `queue` follows, for any number of jobs, process groups and
  deaths. `AliveIsRunning` alone is not inductive: that a stop or a reap has left
  nothing alive before the record lets go of the pid, that a pid is recorded
  before its gate opens, and that there is a running job wherever a section acts
  on one, depend on where the holder of the lock is (`Places`, `OneAtATime`).
  `EndingIsItsOwn` needs `Own`: a job the worker leaves alone, because it is in
  `children` and nothing is stopping it, was let run and was not signalled; this
  rests on handles being lost with the worker (`Holder`) and on the stopping mark
  being durable before the signal. Where a spawn failed, it needs that a
  section about to spawn has recorded no pid and that nothing executes unrecorded.
  `CommandsRunOnPower` needs what start has read to stay true to the gate
  (`Starting`), which the lock and the order of the steps give it.
* `OrdersProofs`: `OrdersInv` is inductive, and every safety property of `orders`
  follows; `Orders` implements `OrderLife`. `MessageAgrees` needs that an edit a
  pass still holds belongs to an order that is still dirty and is held once
  (`Editing`), and that an order on its way to the phone has no message yet
  (`Sending`). The refinement and `QueuedAsShown` rest on what one reconciliation
  does to an order (`ReconciledStatus`).
* `VideoJobsProofs`: `VideoInv` is inductive, and every safety property of `video`
  follows. `DebitedOnce` is inductive by itself, which is what one transaction for
  the row and its debit is for. `PaidOnce` needs that only a new job's first task
  sends the paid request (`Paying`). `CostKept` and `EndedStays` need that a job
  attended once has its task, its kept charge or its ending but never two of them
  (`AttendedOnce`), and that recovery's copy of the rows is still true of jobs
  nobody attends (`Unattended`). A request that retries works from a copy: `CopyInv`
  says that what it copied of a job attended once is still the kept charge, or was
  recorded meanwhile as the same ending, so that a second retry alters nothing.
* `ImageCostsProofs`: `TotalIsExact` and `NamedIsShown` from `TotalInv`, `AlertOnce`
  from `AlertInv`. `TotalInv` knows which requests each total has counted: those whose
  save went through, of those whose save failed any, and no other; a step adds one
  request to one month's sum, and the proxy's death any of those it was saving.
  `AlertInv` is about the lock on the month's row: one run
  of the alerts at most holds it, a run about to send found no mark, and where an alert
  is neither marked nor about to be, every message of it has cost a failure.
* `ConversationProofs`: `TypeOK` from `MemoryInv` (the order of use is the live episodes,
  each once; every key that is still remembered anywhere has been given). `FoundFacts`
  says what a lookup finds, and what it evicts: the least recently used, and only when
  there are exactly as many as fit; from it and from what a message can do to the owner's
  active episode and replies follows `DraftStaysInReach`. `OwnersApart` needs
  more than what is in reach now: that every key ever given has one owner (`OwnerInv`),
  because a reply may come long after its episode went. `KeptOnce` needs that drafts
  share no message (`DraftInv`), and that what a live draft holds has only copies that
  a failed store has paid for (`ItemInv`), since keeping it adds one more.

Two of these rest on operators that are recursive: a sum over a set, and what is left
of a sequence. An induction theorem cannot be cited for them here, but a least
counterexample can (a well-founded order has a minimal element in every non-empty set),
which is how `SumWithout`, `SumGrows` and `WithoutFacts` are proved.

The proofs also hold what no run repeats: types, and properties such as `OneLiveJob`,
`ClosedStaysClosed`, `ListedHasFiles`, `CommandsRunOnPower`, `RetriedOnce` or `EndedStays`,
which are stated in their modules and proved for every instance.

The proofs assume the named assumptions on constants, which TLC evaluates, and
finiteness of nothing but the outbox's recipients, the proxy's requests and those for
images. Every invariant and action property of a passing run is a theorem. Only
model-checked is liveness, which with ENABLED is beyond the prover.

## What is not modelled

`PROJECT.json` lists every component with its reason. Of the hooks: what is forwarded,
and how bodies and answers are judged. Of the task run: steps, reviews and the
containers themselves; `TaskRunner` takes their ending as given. Of the bot: the texts,
the pull of the mirror as git commands, reading the inbox on the host. Left out for
good: host configuration, installers, the menu bar, benches, retrieval, HTTP glue and
reports, which are input and output with no protocol of their own.

## Plan

Done: `TaskStore`, `TaskLifecycle`, `TaskRunner`, `ProfileQueue`, `Orders`, `OrderLife`,
`VideoJobs`, `Outbox`, `Deliveries`, `TaskTokens`, `ImageCosts`, `Conversation`, with
proofs of every safety property. What would add most next:

1. `TaskRun`: the steps and review rounds of a ticket, which would replace the choice of
   an ending in `TaskRunner`'s `Work`.
2. `MacProfile`: a switch with its roll-back, the return of a session, the schedule; and
   with it the scheduled jobs that `ProfileQueue` has as one variable.
3. The inbox's receipts between the bot and the host.

------------------------- MODULE ProfileQueueProofs -------------------------
(***************************************************************************)
(* ProfileQueue's theorems, for every set of jobs and process groups.      *)
(*                                                                         *)
(* The section that holds the lock has a place, pc, and what may be said   *)
(* of the file and of the processes depends on it: Places says what the    *)
(* job records hold there, Own what the history of the running attempt is. *)
(***************************************************************************)
EXTENDS ProfileQueue, SequenceTheorems, FiniteSetTheorems, TLAPS

Booked == {"signal", "wait", "put_back", "reap", "finish", "spawn", "record", "gate"}

\* What the records of queue.json hold, whatever happens.
Records ==
  /\ RetriedOnce
  /\ \A n \in Name :
       /\ job[n].state # "running" => job[n].pid = 0 /\ ~job[n].stopping
       /\ job[n].state = "running" => job[n].attempt >= 1

\* Where the holder of the lock can be, and what it has found or done there.
Places ==
  /\ lock = "free" => pc = "idle"
  /\ after \in {"idle", "step", "next", "exit"}
  /\ pc \in Booked => Running # {}
  /\ pc = "next" => Running = {}
  /\ pc \in {"record", "gate"} => child \in Pid
  /\ \A n \in Running :
       /\ pc \in {"spawn", "record"} => job[n].pid = 0
       /\ pc = "gate" => job[n].pid = child
       /\ pc = "wait" => job[n].pid # 0
       /\ pc \in {"signal", "wait", "put_back"} => job[n].stopping

\* One job at a time, and nothing executes beside it.
OneAtATime ==
  /\ \A n, m \in Running : n = m
  /\ \A p \in Alive : \E n \in Running : job[n].pid = p
  /\ pc \in {"put_back", "finish"} => Alive = {}
  /\ sched = "live" => Running = {}

\* A listed job has its place in the list.
Ordered == \A n \in Name : job[n].state # "absent" => \E i \in DOMAIN order : order[i] = n

\* Whose steps those are.
Holder ==
  /\ lock = "cli" => pc \in {"stop", "signal", "wait", "put_back"} /\ after = "idle"
  /\ \/ pc \in {"step", "reap", "finish", "next", "spawn", "record", "gate"}
     \/ after \in {"step", "next"}
     => lock = "worker" /\ worker = "up"
  /\ worker = "down" => children = {}

\* What was let run and what was told to stop belong to the running job; the
\* worker lets alone only what was let run and was not told to stop, and that
\* is what it reaps.
Own ==
  /\ \A p \in ran \cup told : \E n \in Running : job[n].pid = p
  /\ pc = "put_back" => ran = {} /\ told = {}
  /\ pc = "gate" => told = {}
  /\ pc \in {"reap", "finish"} => \A n \in Running : job[n].pid \in ran \ told
  /\ \A n \in Running :
       job[n].pid \in children /\ worker = "up" /\ ~job[n].stopping /\ pc # "gate"
       => job[n].pid \in ran \ told

QueueInv ==
  /\ TypeOK /\ Records /\ Places /\ OneAtATime /\ ListedHasFiles /\ Ordered /\ Holder /\ Own

-----------------------------------------------------------------------------
(* Lemmas about the records and the list.                                  *)

LEMMA RecordTypes ==
  ASSUME NEW r \in JobRecord
  PROVE  /\ NoJob \in JobRecord /\ NewJob \in JobRecord /\ StoppedJob(r) \in JobRecord
         /\ \A status : EndedJob(r, status) \in JobRecord
         /\ \A p \in Pid \cup {0} : [r EXCEPT !.pid = p] \in JobRecord
         /\ [r EXCEPT !.stopping = TRUE] \in JobRecord
         /\ r.attempt <= 1 =>
              [r EXCEPT !.state = "running", !.attempt = @ + 1, !.stopped = FALSE] \in JobRecord
  <1>1. NoJob \in JobRecord
    BY DEF JobRecord, JobState, NoJob
  <1>2. NewJob \in JobRecord /\ StoppedJob(r) \in JobRecord
    BY <1>1 DEF JobRecord, JobState, NewJob, StoppedJob
  <1>3. \A status : EndedJob(r, status) \in JobRecord
    BY DEF JobRecord, JobState, EndedJob
  <1>4. \A p \in Pid \cup {0} : [r EXCEPT !.pid = p] \in JobRecord
    BY DEF JobRecord
  <1>5. [r EXCEPT !.stopping = TRUE] \in JobRecord
    BY DEF JobRecord
  <1>6. ASSUME r.attempt <= 1
        PROVE  [r EXCEPT !.state = "running", !.attempt = @ + 1, !.stopped = FALSE] \in JobRecord
    <2>1. r.attempt + 1 \in 0..2 /\ "running" \in JobState
      BY <1>6 DEF JobRecord, JobState
    <2> QED BY <2>1 DEF JobRecord
  <1> QED BY <1>1, <1>2, <1>3, <1>4, <1>5, <1>6

\* Taking one place out of a list keeps what was in the others.
LEMMA RemovePlace ==
  ASSUME NEW S, NEW s \in Seq(S), NEW i \in DOMAIN s
  PROVE  /\ SubSeq(s, 1, i - 1) \o SubSeq(s, i + 1, Len(s)) \in Seq(S)
         /\ \A j \in DOMAIN s : j # i =>
              \E k \in DOMAIN (SubSeq(s, 1, i - 1) \o SubSeq(s, i + 1, Len(s))) :
                (SubSeq(s, 1, i - 1) \o SubSeq(s, i + 1, Len(s)))[k] = s[j]
  <1> DEFINE a == SubSeq(s, 1, i - 1)
             b == SubSeq(s, i + 1, Len(s))
  <1>1. i \in 1..Len(s) /\ Len(s) \in Nat
    OBVIOUS
  <1>2. a \in Seq(S) /\ Len(a) = i - 1 /\ \A k \in 1..i - 1 : a[k] = s[k]
    BY <1>1, SubSeqProperties
  <1>3. /\ b \in Seq(S) /\ Len(b) = Len(s) - i
        /\ \A k \in 1..Len(s) - i : b[k] = s[i + k]
    BY <1>1, SubSeqProperties
  <1> HIDE DEF a, b
  <1>4. a \o b \in Seq(S) /\ Len(a \o b) = Len(s) - 1
    BY <1>1, <1>2, <1>3, ConcatProperties
  <1>5. ASSUME NEW j \in DOMAIN s, j # i
        PROVE  \E k \in DOMAIN (a \o b) : (a \o b)[k] = s[j]
    <2>1. CASE j < i
      <3>1. j \in DOMAIN (a \o b) /\ (a \o b)[j] = a[j]
        BY <1>1, <1>2, <1>3, <1>4, <2>1, ConcatProperties
      <3> QED BY <1>1, <1>2, <2>1, <3>1
    <2>2. CASE j > i
      <3>1. j - 1 \in DOMAIN (a \o b) /\ (a \o b)[j - 1] = b[j - i]
        BY <1>1, <1>2, <1>3, <1>4, <2>2, ConcatProperties
      <3> QED BY <1>1, <1>3, <2>2, <3>1
    <2> QED BY <1>1, <1>5, <2>1, <2>2
  <1> QED BY <1>4, <1>5 DEF a, b

Listed(n) == \E i \in DOMAIN order : order[i] = n

LEMMA WithoutList ==
  ASSUME order \in Seq(Name), NEW n, Listed(n)
  PROVE  /\ Without(n) \in Seq(Name)
         /\ \A m : m # n /\ Listed(m) => \E i \in DOMAIN Without(n) : Without(n)[i] = m
  <1> DEFINE i == CHOOSE j \in DOMAIN order : order[j] = n
  <1>1. i \in DOMAIN order /\ order[i] = n
    BY DEF Listed
  <1> DEFINE w == SubSeq(order, 1, i - 1) \o SubSeq(order, i + 1, Len(order))
  <1>2. Without(n) = w
    BY DEF Without
  <1> HIDE DEF i
  <1>3. w \in Seq(Name) /\ \A j \in DOMAIN order : j # i => \E k \in DOMAIN w : w[k] = order[j]
    BY <1>1, RemovePlace
  <1> HIDE DEF w
  <1>4. ASSUME NEW m, m # n, Listed(m)
        PROVE  \E k \in DOMAIN w : w[k] = m
    BY <1>1, <1>3, <1>4 DEF Listed
  <1> QED BY <1>2, <1>3, <1>4

LEMMA FirstList ==
  ASSUME order \in Seq(Name), NEW n \in Name, Listed(n)
  PROVE  /\ PutFirst(n) \in Seq(Name)
         /\ \A m : Listed(m) => \E i \in DOMAIN PutFirst(n) : PutFirst(n)[i] = m
  <1> DEFINE w == Without(n)
  <1>1. w \in Seq(Name) /\ <<n>> \in Seq(Name) /\ Len(<<n>>) = 1 /\ <<n>>[1] = n
    BY WithoutList
  <1>2. \A m : m # n /\ Listed(m) => \E i \in DOMAIN w : w[i] = m
    BY WithoutList
  <1>3. PutFirst(n) = <<n>> \o w
    BY DEF PutFirst
  <1> HIDE DEF w
  <1>4. /\ <<n>> \o w \in Seq(Name) /\ DOMAIN (<<n>> \o w) = 1..Len(w) + 1
        /\ (<<n>> \o w)[1] = n
        /\ \A i \in DOMAIN w : (<<n>> \o w)[i + 1] = w[i] /\ i + 1 \in 1..Len(w) + 1
    BY <1>1, ConcatProperties
  <1>5. 1 \in 1..Len(w) + 1
    BY <1>1
  <1>6. ASSUME NEW m, Listed(m), m # n
        PROVE  \E i \in DOMAIN (<<n>> \o w) : (<<n>> \o w)[i] = m
    <2>1. PICK i \in DOMAIN w : w[i] = m
      BY <1>2, <1>6
    <2>2. i + 1 \in DOMAIN (<<n>> \o w) /\ (<<n>> \o w)[i + 1] = m
      BY <1>4, <2>1
    <2> QED BY <2>2
  <1> QED BY <1>3, <1>4, <1>5, <1>6

LEMMA LastList ==
  ASSUME NEW s \in Seq(Name), NEW n \in Name
  PROVE  /\ Append(s, n) \in Seq(Name)
         /\ \E i \in DOMAIN Append(s, n) : Append(s, n)[i] = n
         /\ \A j \in DOMAIN s : \E i \in DOMAIN Append(s, n) : Append(s, n)[i] = s[j]
  <1>1. /\ Append(s, n) \in Seq(Name) /\ DOMAIN Append(s, n) = DOMAIN s \cup {Len(s) + 1}
        /\ Append(s, n)[Len(s) + 1] = n
        /\ \A j \in DOMAIN s : Append(s, n)[j] = s[j]
    OBVIOUS
  <1> QED BY <1>1

LEMMA StartedRecord ==
  ASSUME NEW r \in JobRecord, r.attempt <= 1
  PROVE  /\ StartedJob(r) \in JobRecord /\ StartedJob(r).state = "running"
         /\ StartedJob(r).attempt = r.attempt + 1 /\ StartedJob(r).pid = r.pid
         /\ StartedJob(r).stopping = r.stopping /\ ~StartedJob(r).stopped
  <1>1. r.attempt + 1 \in 0..2 /\ "running" \in JobState
    BY DEF JobRecord, JobState
  <1> QED BY <1>1 DEF JobRecord, StartedJob

\* The job that StartIntent starts.
LEMMA Started ==
  ASSUME QueueInv, NEW n \in Name, StartIntent(n)
  PROVE  /\ job' = [job EXCEPT ![n] = job'[n]] /\ job'[n] \in JobRecord
         /\ job'[n].state = "running" /\ job'[n].attempt \in 1..2 /\ job'[n].pid = 0
         /\ ~job'[n].stopping /\ ~job'[n].stopped
  <1>1. /\ job[n] \in JobRecord /\ job[n].attempt \in 0..1 /\ job[n].pid = 0 /\ ~job[n].stopping
    BY DEF QueueInv, TypeOK, JobRecord, Records, RetriedOnce, StartIntent, IsNext, Waiting
  <1>2. job' = [job EXCEPT ![n] = StartedJob(job[n])]
    BY DEF StartIntent
  <1>3. job'[n] = StartedJob(job[n])
    BY <1>2 DEF QueueInv, TypeOK
  <1>4. /\ StartedJob(job[n]) \in JobRecord /\ StartedJob(job[n]).state = "running"
        /\ StartedJob(job[n]).attempt = job[n].attempt + 1 /\ StartedJob(job[n]).pid = job[n].pid
        /\ StartedJob(job[n]).stopping = job[n].stopping /\ ~StartedJob(job[n]).stopped
    BY <1>1, StartedRecord
  <1>5. job[n].attempt + 1 \in 1..2
    BY <1>1
  <1> QED BY <1>1, <1>2, <1>3, <1>4, <1>5, Zenon

-----------------------------------------------------------------------------
(* The rest of TypeOK, in three parts.                                     *)

OuterType ==
  /\ {play, paused, source, settled, ac} \subseteq BOOLEAN
  /\ sched \in {"idle", "pending", "live"} /\ deaths \in 0..MaxDeaths

HolderType ==
  /\ files \subseteq Name \X {"log", "progress"}
  /\ lock \in {"free", "cli", "worker"} /\ pc \in Step /\ after \in Step
  /\ child \in Pid \cup {0}
  /\ worker \in {"up", "leaving", "down"} /\ children \subseteq Pid

ProcessType ==
  /\ phase \in [Pid -> Phase] /\ code \in [Pid -> {0, 1}]
  /\ ran \subseteq Pid /\ told \subseteq Pid

-----------------------------------------------------------------------------
(* The invariant, step by step, in its parts.                              *)

\* Every record of queue.json keeps its form.
LEMMA JobTypes ==
  ASSUME QueueInv, [Next]_vars
  PROVE  (job \in [Name -> JobRecord])'
  <1>1. CASE UNCHANGED <<job>>
    BY <1>1 DEF QueueInv, TypeOK
  <1>2. ASSUME NEW n \in Name, Add(n), Command
        PROVE  (job \in [Name -> JobRecord])'
    BY <1>2, RecordTypes DEF QueueInv, TypeOK, Running, Add, Command, Paths, Enter
  <1>3. ASSUME NEW n \in Name, Remove(n), Command
        PROVE  (job \in [Name -> JobRecord])'
    BY <1>3, RecordTypes DEF QueueInv, TypeOK, Running, Remove, Command, Delist, Paths, Enter
  <1>4. ASSUME NEW n \in Name, Requeue(n), Command
        PROVE  (job \in [Name -> JobRecord])'
    BY <1>4, RecordTypes DEF QueueInv, TypeOK, Running, Requeue, Command, Enter
  <1>5. CASE StopMark
    <2>1. CASE UNCHANGED job
      BY <2>1 DEF QueueInv, TypeOK
    <2>2. ASSUME NEW n \in Name, job' = [job EXCEPT ![n].stopping = TRUE]
          PROVE  job' \in [Name -> JobRecord]
      <3>1. job \in [Name -> JobRecord]
        BY DEF QueueInv, TypeOK
      <3>2. [job[n] EXCEPT !.stopping = TRUE] \in JobRecord
        BY <3>1 DEF JobRecord
      <3> QED BY <2>2, <3>1, <3>2
    <2> QED BY <1>5, <2>1, <2>2 DEF StopMark, Running
  <1>6. CASE PutBack
    <2>1. PICK n \in Name : job' = [job EXCEPT ![n] = StoppedJob(job[n])]
      BY <1>6 DEF PutBack, Running
    <2>2. StoppedJob(job[n]) \in JobRecord
      BY RecordTypes DEF QueueInv, TypeOK
    <2> QED BY <2>1, <2>2 DEF QueueInv, TypeOK
  <1>7. CASE Finish
    <2>1. PICK n \in Name : job' = [job EXCEPT ![n] = EndedJob(job[n], code[job[n].pid])]
      BY <1>7 DEF Finish, Running
    <2>2. EndedJob(job[n], code[job[n].pid]) \in JobRecord
      BY RecordTypes DEF QueueInv, TypeOK
    <2> QED BY <2>1, <2>2 DEF QueueInv, TypeOK
  <1>8. ASSUME NEW n \in Name, StartIntent(n)
        PROVE  (job \in [Name -> JobRecord])'
    <2>1. CASE job' = [job EXCEPT ![n] = job'[n]] /\ job'[n] \in JobRecord
      BY <2>1 DEF QueueInv, TypeOK
    <2> QED BY <1>8, <2>1, Started
  <1>9. CASE SpawnFails
    <2>1. PICK n \in Name : job' = [job EXCEPT ![n] = EndedJob(job[n], 127)]
      BY <1>9 DEF SpawnFails, Running
    <2>2. EndedJob(job[n], 127) \in JobRecord
      BY RecordTypes DEF QueueInv, TypeOK
    <2> QED BY <2>1, <2>2 DEF QueueInv, TypeOK
  <1>10. CASE RecordPid
    BY <1>10 DEF QueueInv, TypeOK, Running, RecordPid, JobRecord
  <1> QED BY <1>1, <1>2, <1>3, <1>4, <1>5, <1>6, <1>7, <1>8, <1>9, <1>10 DEF Next, HolderStep,
             OutsideStep, Command, Play, Top, StopCommand, Tick, LastStop, Signal, Wait,
             StepRunning, Reap, NothingToStart, Spawn, OpenGate, Exit, WorkerRaises, WorkerDies,
             CommandDies, WorkerStarts, Power, Settle, ScheduledWorker, ScheduledEnds, ProcessEnds,
             Dies, WorkerLetsGo, Enter, vars, fileVars

\* The list holds names, and every listed job is in it.
LEMMA Lists ==
  ASSUME QueueInv, [Next]_vars
  PROVE  (order \in Seq(Name) /\ Ordered)'
  <1>1. CASE UNCHANGED <<job, order>>
    BY <1>1 DEF QueueInv, TypeOK, Ordered
  <1>2. ASSUME NEW n \in Name, Add(n), Command
        PROVE  (order \in Seq(Name) /\ Ordered)'
    <2>1. CASE UNCHANGED <<job, order>>
      BY <2>1 DEF QueueInv, TypeOK, Ordered
    <2>2. CASE job' = [job EXCEPT ![n] = NewJob] /\ order' = Append(order, n)
      <3>1. /\ order' \in Seq(Name) /\ \E i \in DOMAIN order' : order'[i] = n
            /\ \A j \in DOMAIN order : \E i \in DOMAIN order' : order'[i] = order[j]
        BY <2>2, LastList DEF QueueInv, TypeOK
      <3>2. \A m \in Name : m # n => job'[m] = job[m]
        BY <2>2
      <3> QED BY <3>1, <3>2 DEF QueueInv, Ordered
    <2> QED BY <1>2, <2>1, <2>2 DEF Add
  <1>3. ASSUME NEW n \in Name, Remove(n), Command
        PROVE  (order \in Seq(Name) /\ Ordered)'
    <2>1. Listed(n) /\ job' = [job EXCEPT ![n] = NoJob] /\ order' = Without(n)
      BY <1>3 DEF QueueInv, Ordered, Listed, Remove, Delist
    <2>2. /\ order' \in Seq(Name)
          /\ \A m : m # n /\ Listed(m) => \E i \in DOMAIN order' : order'[i] = m
      BY <2>1, WithoutList DEF QueueInv, TypeOK
    <2>3. \A m \in Name : job'[m].state # "absent" => m # n /\ Listed(m)
      BY <2>1 DEF QueueInv, TypeOK, Ordered, Listed, NoJob
    <2> QED BY <2>2, <2>3 DEF Ordered
  <1>4. ASSUME NEW n \in Name, Requeue(n), Command
        PROVE  (order \in Seq(Name) /\ Ordered)'
    <2>1. Listed(n) /\ job' = [job EXCEPT ![n] = NewJob] /\ order' = Append(Without(n), n)
      BY <1>4 DEF QueueInv, Ordered, Listed, Requeue
    <2> DEFINE w == Without(n)
    <2>2. w \in Seq(Name) /\ \A m : m # n /\ Listed(m) => \E i \in DOMAIN w : w[i] = m
      BY <2>1, WithoutList DEF QueueInv, TypeOK
    <2>3. order' = Append(w, n)
      BY <2>1
    <2> HIDE DEF w
    <2>4. /\ order' \in Seq(Name) /\ \E i \in DOMAIN order' : order'[i] = n
          /\ \A j \in DOMAIN w : \E i \in DOMAIN order' : order'[i] = w[j]
      BY <2>2, <2>3, LastList
    <2>5. \A m \in Name : job'[m].state # "absent" => m = n \/ Listed(m)
      BY <2>1 DEF QueueInv, Ordered, Listed
    <2> QED BY <2>2, <2>4, <2>5 DEF Ordered
  <1>5. ASSUME NEW n \in Name, Top(n), Command
        PROVE  (order \in Seq(Name) /\ Ordered)'
    <2>1. order' = PutFirst(n) /\ job' = job /\ Listed(n)
      BY <1>5 DEF QueueInv, Ordered, Listed, Top
    <2>2. order' \in Seq(Name) /\ \A m : Listed(m) => \E i \in DOMAIN order' : order'[i] = m
      BY <2>1, FirstList DEF QueueInv, TypeOK
    <2> QED BY <2>1, <2>2 DEF QueueInv, Ordered, Listed
  <1>6. CASE StopMark
    BY <1>6 DEF QueueInv, TypeOK, Running, Ordered, StopMark
  <1>7. CASE PutBack
    <2>1. PICK n \in Running : /\ order' \in {order, PutFirst(n)}
                              /\ \E r : job' = [job EXCEPT ![n] = r]
      BY <1>7 DEF PutBack
    <2>2. Listed(n) /\ n \in Name
      BY DEF QueueInv, Ordered, Listed, Running
    <2>3. order' \in Seq(Name) /\ \A m : Listed(m) => \E i \in DOMAIN order' : order'[i] = m
      <3>1. CASE order' = order
        BY <3>1 DEF QueueInv, TypeOK, Listed
      <3>2. CASE order' = PutFirst(n)
        BY <2>2, <3>2, FirstList DEF QueueInv, TypeOK
      <3> QED BY <2>1, <3>1, <3>2
    <2>4. \A m \in Name : job'[m].state # "absent" => Listed(m)
      BY <2>1, <2>2 DEF QueueInv, Ordered, Listed
    <2> QED BY <2>3, <2>4 DEF Ordered
  <1>8. CASE Finish
    <2>1. PICK n \in Running : /\ order' \in {order, PutFirst(n)}
                              /\ \E r : job' = [job EXCEPT ![n] = r]
      BY <1>8 DEF Finish
    <2>2. Listed(n) /\ n \in Name
      BY DEF QueueInv, Ordered, Listed, Running
    <2>3. order' \in Seq(Name) /\ \A m : Listed(m) => \E i \in DOMAIN order' : order'[i] = m
      <3>1. CASE order' = order
        BY <3>1 DEF QueueInv, TypeOK, Listed
      <3>2. CASE order' = PutFirst(n)
        BY <2>2, <3>2, FirstList DEF QueueInv, TypeOK
      <3> QED BY <2>1, <3>1, <3>2
    <2>4. \A m \in Name : job'[m].state # "absent" => Listed(m)
      BY <2>1, <2>2 DEF QueueInv, Ordered, Listed
    <2> QED BY <2>3, <2>4 DEF Ordered
  <1>9. ASSUME NEW n \in Name, StartIntent(n)
        PROVE  (order \in Seq(Name) /\ Ordered)'
    BY <1>9 DEF QueueInv, TypeOK, Running, Ordered, StartIntent, IsNext
  <1>10. CASE SpawnFails
    BY <1>10 DEF QueueInv, TypeOK, Running, Ordered, SpawnFails
  <1>11. CASE RecordPid
    BY <1>11 DEF QueueInv, TypeOK, Ordered, RecordPid
  <1> QED BY <1>1, <1>2, <1>3, <1>4, <1>5, <1>6, <1>7, <1>8, <1>9, <1>10, <1>11 DEF Next,
             HolderStep, OutsideStep, Command, Play, StopCommand, Tick, LastStop, Signal, Wait,
             StepRunning, Reap, NothingToStart, Spawn, OpenGate, Exit, WorkerRaises, WorkerDies,
             CommandDies, WorkerStarts, Power, Settle, ScheduledWorker, ScheduledEnds, ProcessEnds,
             Dies, WorkerLetsGo, Enter, vars, fileVars

\* RetriedOnce and what it needs of the running job.
LEMMA RecordsStep ==
  ASSUME QueueInv, [Next]_vars
  PROVE  Records'
  <1>1. CASE UNCHANGED <<job>>
    BY <1>1 DEF QueueInv, Records, RetriedOnce
  <1>2. ASSUME NEW n \in Name, Add(n), Command
        PROVE  Records'
    <2>1. CASE UNCHANGED job
      BY <2>1 DEF QueueInv, Records, RetriedOnce
    <2>2. CASE job' = [job EXCEPT ![n] = NewJob]
      BY <2>2 DEF QueueInv, Records, RetriedOnce, NewJob, NoJob
    <2> QED BY <1>2, <2>1, <2>2 DEF Add
  <1>3. ASSUME NEW n \in Name, Remove(n), Command
        PROVE  Records'
    BY <1>3 DEF QueueInv, TypeOK, Running, Records, RetriedOnce, Places, JobRecord, Remove, Delist,
       NoJob
  <1>4. ASSUME NEW n \in Name, Requeue(n), Command
        PROVE  Records'
    BY <1>4 DEF QueueInv, TypeOK, Running, Records, RetriedOnce, Places, Requeue, NoJob, NewJob
  <1>5. CASE StopMark
    <2>1. CASE UNCHANGED job
      BY <2>1 DEF QueueInv, Records, RetriedOnce
    <2>2. ASSUME NEW n \in Running, job' = [job EXCEPT ![n].stopping = TRUE]
          PROVE  Records'
      BY <2>2 DEF QueueInv, Records, RetriedOnce, Running
    <2> QED BY <1>5, <2>1, <2>2 DEF StopMark
  <1>6. CASE PutBack
    BY <1>6 DEF QueueInv, TypeOK, Running, Records, RetriedOnce, Places, JobRecord, PutBack,
       StoppedJob, NoJob, NewJob
  <1>7. CASE Finish
    BY <1>7 DEF QueueInv, TypeOK, Running, Records, RetriedOnce, Places, JobRecord, Finish,
       EndedJob
  <1>8. ASSUME NEW n \in Name, StartIntent(n)
        PROVE  Records'
    BY <1>8, Started DEF QueueInv, TypeOK, Records, RetriedOnce
  <1>9. CASE SpawnFails
    BY <1>9 DEF QueueInv, TypeOK, Running, Records, RetriedOnce, Places, JobRecord, SpawnFails,
       EndedJob
  <1>10. CASE RecordPid
    BY <1>10 DEF QueueInv, TypeOK, Running, Records, RetriedOnce, RecordPid
  <1> QED BY <1>1, <1>2, <1>3, <1>4, <1>5, <1>6, <1>7, <1>8, <1>9, <1>10 DEF Next, HolderStep,
             OutsideStep, Command, Play, Top, StopCommand, Tick, LastStop, Signal, Wait,
             StepRunning, Reap, NothingToStart, Spawn, OpenGate, Exit, WorkerRaises, WorkerDies,
             CommandDies, WorkerStarts, Power, Settle, ScheduledWorker, ScheduledEnds, ProcessEnds,
             Dies, WorkerLetsGo, Enter, vars, fileVars

\* A job has its files before it is listed and until it is not.
LEMMA FilesStep ==
  ASSUME QueueInv, [Next]_vars
  PROVE  ListedHasFiles'
  <1>1. CASE UNCHANGED <<job, files>>
    BY <1>1 DEF QueueInv, ListedHasFiles
  <1>2. ASSUME NEW n \in Name, Add(n), Command
        PROVE  ListedHasFiles'
    BY <1>2 DEF QueueInv, TypeOK, ListedHasFiles, Add
  <1>3. ASSUME NEW n \in Name, Remove(n), Command
        PROVE  ListedHasFiles'
    BY <1>3 DEF QueueInv, TypeOK, ListedHasFiles, Paths, Remove, Delist, NoJob
  <1>4. ASSUME NEW n \in Name, Requeue(n), Command
        PROVE  ListedHasFiles'
    BY <1>4 DEF QueueInv, TypeOK, ListedHasFiles, Requeue
  <1>5. CASE StopMark
    BY <1>5 DEF QueueInv, TypeOK, Running, ListedHasFiles, StopMark
  <1>6. CASE PutBack
    BY <1>6 DEF QueueInv, TypeOK, Running, ListedHasFiles, Paths, PutBack
  <1>7. CASE Finish
    BY <1>7 DEF QueueInv, TypeOK, Running, ListedHasFiles, Finish
  <1>8. ASSUME NEW n \in Name, StartIntent(n)
        PROVE  ListedHasFiles'
    BY <1>8 DEF QueueInv, TypeOK, ListedHasFiles, Paths, StartIntent, IsNext, Waiting
  <1>9. CASE SpawnFails
    BY <1>9 DEF QueueInv, TypeOK, Running, ListedHasFiles, SpawnFails
  <1>10. CASE RecordPid
    BY <1>10 DEF QueueInv, TypeOK, Running, ListedHasFiles, RecordPid
  <1>11. CASE Spawn
    BY <1>11 DEF QueueInv, ListedHasFiles, Spawn
  <1> QED BY <1>1, <1>2, <1>3, <1>4, <1>5, <1>6, <1>7, <1>8, <1>9, <1>10, <1>11 DEF Next,
             HolderStep, OutsideStep, Command, Play, Top, StopCommand, Tick, LastStop, Signal,
             Wait, StepRunning, Reap, NothingToStart, OpenGate, Exit, WorkerRaises, WorkerDies,
             CommandDies, WorkerStarts, Power, Settle, ScheduledWorker, ScheduledEnds, ProcessEnds,
             Dies, WorkerLetsGo, Enter, vars, fileVars

\* What the holder has found or done still holds where it goes on.
LEMMA PlacesStep ==
  ASSUME QueueInv, [Next]_vars
  PROVE  Places'
  <1>1. CASE UNCHANGED <<job, lock, pc, after, child>>
    BY <1>1 DEF QueueInv, Places, Running
  <1>2. ASSUME NEW n \in Name, Add(n), Command
        PROVE  Places'
    BY <1>2 DEF QueueInv, TypeOK, JobRecord, Running, Places, Booked, Records, OneAtATime, Command,
       holderVars
  <1>3. ASSUME NEW n \in Name, Remove(n), Command
        PROVE  Places'
    BY <1>3 DEF QueueInv, TypeOK, JobRecord, Running, Places, Booked, Records, OneAtATime, Command,
       holderVars
  <1>4. ASSUME NEW n \in Name, Requeue(n), Command
        PROVE  Places'
    BY <1>4 DEF QueueInv, TypeOK, JobRecord, Running, Places, Booked, Records, Command, holderVars
  <1>5. CASE StopCommand
    BY <1>5 DEF QueueInv, TypeOK, JobRecord, Running, Places, Booked, StopCommand, Enter
  <1>6. CASE Tick
    BY <1>6 DEF QueueInv, TypeOK, JobRecord, Running, Places, Booked, Tick, Enter
  <1>7. CASE LastStop
    BY <1>7 DEF QueueInv, TypeOK, JobRecord, Running, Places, Booked, LastStop, Enter
  <1>8. CASE StopMark
    BY <1>8 DEF QueueInv, TypeOK, JobRecord, Running, Places, Booked, OneAtATime, StopMark, Goto,
       LockGoes
  <1>9. CASE Signal
    BY <1>9 DEF QueueInv, TypeOK, JobRecord, Running, Places, Booked, OneAtATime, Signal, Goto,
       fileVars
  <1>10. CASE Wait
    BY <1>10 DEF QueueInv, TypeOK, JobRecord, Running, Places, Booked, Records, OneAtATime, Wait,
       Goto, fileVars
  <1>11. CASE PutBack
    BY <1>11 DEF QueueInv, TypeOK, JobRecord, Running, Places, Booked, Records, OneAtATime,
       PutBack, StoppedJob, NewJob, Goto, LockGoes
  <1>12. CASE StepRunning
    BY <1>12 DEF QueueInv, TypeOK, JobRecord, Running, Places, Booked, Records, OneAtATime,
       StepRunning, Unwanted, Orphan, Enter, Goto, LockGoes, fileVars
  <1>13. CASE Reap
    BY <1>13 DEF QueueInv, TypeOK, JobRecord, Running, Places, Booked, Records, Reap, Goto,
       fileVars
  <1>14. CASE Finish
    BY <1>14 DEF QueueInv, TypeOK, JobRecord, Running, Places, Booked, Records, OneAtATime, Finish,
       EndedJob, Goto
  <1>15. ASSUME NEW n \in Name, StartIntent(n)
        PROVE  Places'
    BY <1>15 DEF QueueInv, TypeOK, JobRecord, Running, Places, Booked, Records, OneAtATime,
       StartIntent, StartedJob, Goto
  <1>16. CASE NothingToStart
    BY <1>16 DEF QueueInv, TypeOK, JobRecord, Running, Places, Booked, Records, OneAtATime,
       NothingToStart, Goto, LockGoes
  <1>17. CASE Spawn
    BY <1>17 DEF QueueInv, TypeOK, JobRecord, Running, Places, Spawn
  <1>18. CASE SpawnFails
    BY <1>18 DEF QueueInv, TypeOK, JobRecord, Running, Places, Booked, Records, SpawnFails, Goto,
       LockGoes
  <1>19. CASE RecordPid
    BY <1>19 DEF QueueInv, TypeOK, JobRecord, Running, Places, Booked, OneAtATime, RecordPid, Goto
  <1>20. CASE OpenGate
    BY <1>20 DEF QueueInv, TypeOK, JobRecord, Running, Places, Booked, OpenGate, Goto, LockGoes
  <1>21. CASE Exit
    BY <1>21 DEF QueueInv, TypeOK, JobRecord, Running, Places, Booked, Exit, Goto, LockGoes
  <1>22. CASE WorkerRaises
    BY <1>22 DEF QueueInv, TypeOK, JobRecord, Running, Places, Booked, Records, OneAtATime,
       WorkerRaises, WorkerLetsGo, LockGoes, fileVars, holderVars
  <1>23. CASE WorkerDies
    BY <1>23 DEF QueueInv, TypeOK, JobRecord, Running, Places, Booked, Records, OneAtATime,
       WorkerDies, WorkerLetsGo, LockGoes, fileVars, holderVars
  <1>24. CASE CommandDies
    BY <1>24 DEF QueueInv, TypeOK, JobRecord, Running, Places, Booked, CommandDies, LockGoes
  <1> QED BY <1>1, <1>2, <1>3, <1>4, <1>5, <1>6, <1>7, <1>8, <1>9, <1>10, <1>11, <1>12, <1>13,
             <1>14, <1>15, <1>16, <1>17, <1>18, <1>19, <1>20, <1>21, <1>22, <1>23, <1>24 DEF Next,
             HolderStep, OutsideStep, Command, Play, Top, WorkerStarts, Power, Settle,
             ScheduledWorker, ScheduledEnds, ProcessEnds, Enter, vars, fileVars, holderVars

\* Nothing that executes is ever beside the recorded job.
LEMMA OneStep ==
  ASSUME QueueInv, [Next]_vars
  PROVE  OneAtATime'
  <1>1. CASE UNCHANGED <<job, pc, phase, sched>>
    BY <1>1 DEF QueueInv, OneAtATime, Running, Alive
  <1>2. ASSUME NEW n \in Name, Add(n), Command
        PROVE  OneAtATime'
    <2>1. CASE UNCHANGED job
      BY <1>2, <2>1 DEF QueueInv, OneAtATime, Alive, Running, Command, holderVars, procVars
    <2>2. CASE job' = [job EXCEPT ![n] = NewJob]
      BY <1>2, <2>2 DEF QueueInv, TypeOK, Records, Places, OneAtATime, Own, Alive, Running, NewJob,
         Add, Command, holderVars, procVars
    <2> QED BY <1>2, <2>1, <2>2 DEF Add
  <1>3. ASSUME NEW n \in Name, Remove(n), Command
        PROVE  OneAtATime'
    BY <1>3 DEF QueueInv, TypeOK, JobRecord, Running, Alive, Places, Booked, Records, OneAtATime,
       Remove, Command, Delist, NoJob, holderVars, procVars
  <1>4. ASSUME NEW n \in Name, Requeue(n), Command
        PROVE  OneAtATime'
    BY <1>4 DEF QueueInv, TypeOK, JobRecord, Running, Alive, Places, Booked, Records, OneAtATime,
       Requeue, Command, NewJob, holderVars, procVars
  <1>5. CASE StopCommand
    BY <1>5 DEF QueueInv, TypeOK, JobRecord, Running, Alive, Places, Booked, Records, OneAtATime,
       StopCommand, Enter, restVars, procVars, outerVars
  <1>6. CASE Tick
    BY <1>6 DEF QueueInv, TypeOK, JobRecord, Running, Alive, Places, Booked, OneAtATime, Tick,
       Enter, procVars, outerVars
  <1>7. CASE LastStop
    BY <1>7 DEF QueueInv, TypeOK, JobRecord, Running, Alive, Places, Booked, Records, OneAtATime,
       LastStop, Enter, fileVars, restVars, procVars, outerVars
  <1>8. CASE StopMark
    <2>1. CASE Running = {} /\ Goto(after) /\ UNCHANGED job
      BY <1>8, <2>1 DEF QueueInv, OneAtATime, Places, Alive, Running, StopMark, restVars, procVars
    <2>2. ASSUME NEW n \in Running, job' = [job EXCEPT ![n].stopping = TRUE], Goto("signal")
          PROVE  OneAtATime'
      BY <1>8, <2>2 DEF QueueInv, TypeOK, JobRecord, OneAtATime, Places, Alive, Running, StopMark,
         Goto, restVars, procVars, outerVars
    <2> QED BY <1>8, <2>1, <2>2 DEF StopMark
  <1>9. CASE Signal
    BY <1>9, QueueAssumption DEF QueueInv, TypeOK, JobRecord, Running, Alive, Places, Booked,
       Records, OneAtATime, Signal, Enter, Goto, fileVars, outerVars
  <1>10. CASE Wait
    BY <1>10 DEF QueueInv, TypeOK, JobRecord, Running, Alive, Places, Booked, Records, OneAtATime,
       Wait, Kill, fileVars, outerVars
  <1>11. CASE PutBack
    BY <1>11 DEF QueueInv, TypeOK, JobRecord, Running, Alive, Places, Booked, Records, OneAtATime,
       PutBack, StoppedJob, NewJob, restVars, procVars
  <1>12. CASE StepRunning
    BY <1>12 DEF QueueInv, TypeOK, JobRecord, Running, Alive, Places, Booked, Records, OneAtATime,
       StepRunning, Unwanted, Orphan, Over, Enter, Goto, LockGoes, fileVars, restVars, procVars,
       outerVars
  <1>13. CASE Reap
    BY <1>13 DEF QueueInv, TypeOK, JobRecord, Running, Alive, Places, Booked, Records, OneAtATime,
       Reap, Kill, fileVars, outerVars
  <1>14. CASE Finish
    BY <1>14 DEF QueueInv, TypeOK, JobRecord, Running, Alive, Places, Booked, Records, OneAtATime,
       Finish, EndedJob
  <1>15. ASSUME NEW n \in Name, StartIntent(n)
        PROVE  OneAtATime'
    BY <1>15 DEF QueueInv, TypeOK, JobRecord, Running, Alive, Places, Booked, Records, OneAtATime,
       StartIntent, StartedJob, IsNext, restVars, procVars, outerVars
  <1>16. CASE NothingToStart
    BY <1>16 DEF QueueInv, TypeOK, JobRecord, Running, Alive, Places, Booked, Records, OneAtATime,
       NothingToStart, fileVars, restVars, procVars
  <1>17. CASE Spawn
    BY <1>17 DEF QueueInv, TypeOK, JobRecord, Running, Alive, Places, Booked, Records, OneAtATime,
       Spawn, outerVars
  <1>18. CASE SpawnFails
    BY <1>18, QueueAssumption DEF QueueInv, TypeOK, JobRecord, Running, Alive, Places, Booked,
       Records, OneAtATime, SpawnFails, EndedJob, Enter, Goto, restVars, procVars
  <1>19. CASE RecordPid
    BY <1>19, QueueAssumption DEF QueueInv, TypeOK, JobRecord, Running, Alive, Places, Booked,
       Records, OneAtATime, RecordPid, Enter, Goto, LockGoes, restVars, procVars, outerVars
  <1>20. CASE OpenGate
    BY <1>20 DEF QueueInv, TypeOK, JobRecord, Running, Alive, Places, Booked, Records, OneAtATime,
       OpenGate, Goto, LockGoes, fileVars, outerVars
  <1>21. CASE Exit
    BY <1>21 DEF QueueInv, TypeOK, JobRecord, Running, Alive, Places, Booked, Records, OneAtATime,
       Exit, Goto, LockGoes, fileVars, procVars, outerVars
  <1>22. CASE WorkerRaises
    BY <1>22 DEF QueueInv, TypeOK, JobRecord, Running, Alive, Places, Booked, Records, OneAtATime,
       WorkerRaises, WorkerLetsGo, LockGoes, fileVars, holderVars, procVars
  <1>23. CASE WorkerDies
    BY <1>23 DEF QueueInv, TypeOK, JobRecord, Running, Alive, Places, Booked, Records, OneAtATime,
       WorkerDies, WorkerLetsGo, LockGoes, fileVars, holderVars, procVars
  <1>24. CASE CommandDies
    BY <1>24 DEF QueueInv, TypeOK, JobRecord, Running, Alive, Places, Booked, Records, OneAtATime,
       CommandDies, LockGoes, fileVars, procVars
  <1>25. CASE ScheduledWorker
    BY <1>25 DEF QueueInv, TypeOK, JobRecord, Running, Alive, Places, Booked, Records, OneAtATime,
       ScheduledWorker, QueueActive, fileVars, holderVars, procVars
  <1>26. CASE ScheduledEnds
    BY <1>26 DEF QueueInv, TypeOK, JobRecord, Running, Alive, Places, Booked, Records, OneAtATime,
       ScheduledEnds, fileVars, holderVars, procVars
  <1>27. ASSUME NEW p \in Pid, ProcessEnds(p)
        PROVE  OneAtATime'
    BY <1>27 DEF QueueInv, TypeOK, JobRecord, Running, Alive, Places, Booked, Records, OneAtATime,
       ProcessEnds, fileVars, holderVars, outerVars
  <1> QED BY <1>1, <1>2, <1>3, <1>4, <1>5, <1>6, <1>7, <1>8, <1>9, <1>10, <1>11, <1>12, <1>13,
             <1>14, <1>15, <1>16, <1>17, <1>18, <1>19, <1>20, <1>21, <1>22, <1>23, <1>24, <1>25,
             <1>26, <1>27 DEF Next, HolderStep, OutsideStep, Command, Play, Top, WorkerStarts,
             Power, Settle, Enter, Goto, LockGoes, vars, fileVars, holderVars, restVars, procVars,
             outerVars

\* Whose steps those are.
LEMMA HolderStepKeeps ==
  ASSUME QueueInv, [Next]_vars
  PROVE  Holder'
  <1>1. CASE UNCHANGED <<lock, pc, after, worker, children>>
    BY <1>1 DEF QueueInv, Holder
  <1>2. CASE StopCommand
    BY <1>2 DEF QueueInv, TypeOK, Places, Holder, StopCommand, Enter, restVars, workerVars
  <1>3. CASE Tick
    BY <1>3 DEF QueueInv, Holder, Tick, Enter
  <1>4. CASE LastStop
    BY <1>4 DEF QueueInv, TypeOK, Places, Booked, Holder, LastStop, Enter, restVars, workerVars
  <1>5. CASE StopMark
    BY <1>5 DEF QueueInv, TypeOK, Places, Booked, Holder, StopMark, Goto, LockGoes, restVars,
       workerVars
  <1>6. CASE Signal
    BY <1>6 DEF QueueInv, TypeOK, Places, Booked, Holder, Signal, Goto, workerVars
  <1>7. CASE Wait
    BY <1>7 DEF QueueInv, TypeOK, Places, Booked, Holder, Wait, Goto
  <1>8. CASE PutBack
    BY <1>8 DEF QueueInv, TypeOK, Places, Booked, Holder, PutBack, StoppedJob, Goto, LockGoes,
       restVars, workerVars
  <1>9. CASE StepRunning
    BY <1>9 DEF QueueInv, TypeOK, Places, Booked, Holder, StepRunning, Unwanted, Orphan, Over,
       Enter, Goto, LockGoes, restVars, workerVars
  <1>10. CASE Reap
    BY <1>10 DEF QueueInv, TypeOK, Places, Booked, Holder, Reap, Goto
  <1>11. CASE Finish
    BY <1>11 DEF QueueInv, TypeOK, Places, Booked, Holder, Finish, Goto, workerVars
  <1>12. ASSUME NEW n \in Name, StartIntent(n)
        PROVE  Holder'
    BY <1>12 DEF QueueInv, TypeOK, Places, Booked, Holder, StartIntent, StartedJob, Goto, restVars,
       workerVars
  <1>13. CASE NothingToStart
    BY <1>13 DEF QueueInv, TypeOK, Places, Booked, Holder, NothingToStart, Goto, LockGoes,
       restVars, workerVars
  <1>14. CASE Spawn
    BY <1>14 DEF QueueInv, Holder, Spawn
  <1>15. CASE SpawnFails
    BY <1>15 DEF QueueInv, TypeOK, Places, Booked, Holder, SpawnFails, Goto, LockGoes, restVars,
       workerVars
  <1>16. CASE RecordPid
    BY <1>16 DEF QueueInv, TypeOK, Places, Booked, Holder, RecordPid, Goto, restVars, workerVars
  <1>17. CASE OpenGate
    BY <1>17 DEF QueueInv, TypeOK, Places, Booked, Holder, OpenGate, Goto, LockGoes, workerVars
  <1>18. CASE Exit
    BY <1>18 DEF QueueInv, TypeOK, Places, Holder, Exit, Goto, LockGoes
  <1>19. CASE WorkerRaises
    BY <1>19 DEF QueueInv, TypeOK, Places, Booked, Holder, WorkerRaises, WorkerLetsGo, LockGoes,
       holderVars
  <1>20. CASE WorkerDies
    BY <1>20 DEF QueueInv, TypeOK, Places, Booked, Holder, WorkerDies, WorkerLetsGo, LockGoes,
       holderVars
  <1>21. CASE CommandDies
    BY <1>21 DEF QueueInv, TypeOK, Places, Booked, Holder, CommandDies, LockGoes, workerVars
  <1>22. CASE WorkerStarts
    BY <1>22 DEF QueueInv, TypeOK, Holder, WorkerStarts, holderVars
  <1> QED BY <1>1, <1>2, <1>3, <1>4, <1>5, <1>6, <1>7, <1>8, <1>9, <1>10, <1>11, <1>12, <1>13,
             <1>14, <1>15, <1>16, <1>17, <1>18, <1>19, <1>20, <1>21, <1>22 DEF Next, HolderStep,
             OutsideStep, Command, Play, Add, Remove, Top, Requeue, Power, Settle, ScheduledWorker,
             ScheduledEnds, ProcessEnds, Enter, Goto, vars, holderVars, restVars, workerVars

\* What was let run and told belongs to the running job.
LEMMA OwnStep ==
  ASSUME QueueInv, [Next]_vars
  PROVE  Own'
  <1>1. CASE UNCHANGED <<job, pc, worker, children, ran, told>>
    BY <1>1 DEF QueueInv, Own, Running
  <1>2. ASSUME NEW n \in Name, Add(n), Command
        PROVE  Own'
    <2>1. CASE UNCHANGED job
      BY <1>2, <2>1 DEF QueueInv, Own, Running, Command, holderVars, workerVars, procVars
    <2>2. CASE job' = [job EXCEPT ![n] = NewJob]
      BY <1>2, <2>2 DEF QueueInv, TypeOK, Records, Places, OneAtATime, Own, Alive, Running, NewJob,
         Add, Command, holderVars, workerVars, procVars
    <2> QED BY <1>2, <2>1, <2>2 DEF Add
  <1>3. ASSUME NEW n \in Name, Remove(n), Command
        PROVE  Own'
    BY <1>3 DEF QueueInv, TypeOK, JobRecord, Running, Places, Booked, Records, OneAtATime, Holder,
       Own, Remove, Command, Delist, NoJob, holderVars, workerVars, procVars
  <1>4. ASSUME NEW n \in Name, Requeue(n), Command
        PROVE  Own'
    BY <1>4 DEF QueueInv, TypeOK, JobRecord, Running, Places, Booked, Records, OneAtATime, Holder,
       Own, Requeue, Command, NewJob, holderVars, workerVars, procVars
  <1>5. CASE StopCommand
    BY <1>5 DEF QueueInv, TypeOK, JobRecord, Running, Places, Booked, Records, OneAtATime, Holder,
       Own, StopCommand, Enter, restVars, workerVars, procVars
  <1>6. CASE Tick
    BY <1>6 DEF QueueInv, TypeOK, JobRecord, Running, Places, Booked, Records, Own, Tick, Enter,
       procVars
  <1>7. CASE LastStop
    BY <1>7 DEF QueueInv, TypeOK, JobRecord, Running, Places, Booked, Records, OneAtATime, Holder,
       Own, LastStop, Enter, fileVars, restVars, workerVars, procVars
  <1>8. CASE StopMark
    <2>1. CASE Running = {} /\ Goto(after) /\ UNCHANGED job
      BY <1>8, <2>1 DEF QueueInv, Own, Places, Running, StopMark, restVars, procVars
    <2>2. ASSUME NEW n \in Running, job' = [job EXCEPT ![n].stopping = TRUE], Goto("signal")
          PROVE  Own'
      BY <1>8, <2>2 DEF QueueInv, TypeOK, JobRecord, Own, Places, Running, StopMark, Goto,
         restVars, workerVars, procVars
    <2> QED BY <1>8, <2>1, <2>2 DEF StopMark
  <1>9. CASE Signal
    BY <1>9, QueueAssumption DEF QueueInv, TypeOK, JobRecord, Running, Places, Booked, Records,
       OneAtATime, Holder, Own, Signal, Enter, Goto, fileVars
  <1>10. CASE Wait
    BY <1>10 DEF QueueInv, TypeOK, JobRecord, Running, Places, Booked, Records, OneAtATime, Holder,
       Own, Wait, Forget, Goto, fileVars
  <1>11. CASE PutBack
    BY <1>11 DEF QueueInv, TypeOK, JobRecord, Running, Places, Booked, Records, OneAtATime, Holder,
       Own, PutBack, StoppedJob, NewJob, restVars, procVars
  <1>12. CASE StepRunning
    BY <1>12 DEF QueueInv, TypeOK, JobRecord, Running, Places, Booked, Records, OneAtATime, Holder,
       Own, StepRunning, Unwanted, Orphan, Over, Enter, Goto, LockGoes, fileVars, restVars,
       workerVars, procVars
  <1>13. CASE Reap
    BY <1>13 DEF QueueInv, TypeOK, JobRecord, Running, Places, Booked, Records, OneAtATime, Holder,
       Own, Reap, Goto, fileVars
  <1>14. CASE Finish
    BY <1>14 DEF QueueInv, TypeOK, JobRecord, Running, Places, Booked, Records, OneAtATime, Holder,
       Own, Finish, EndedJob, Forget
  <1>15. ASSUME NEW n \in Name, StartIntent(n)
        PROVE  Own'
    <2>1. Running = {} /\ ran = {} /\ told = {}
      BY <1>15 DEF QueueInv, Places, Own, StartIntent
    <2>2. Running' = {n} /\ job'[n].pid \notin children
      BY <1>15, <2>1, Started, QueueAssumption DEF QueueInv, TypeOK, Running
    <2> QED BY <1>15, <2>1, <2>2 DEF Own, StartIntent, Goto, restVars, workerVars, procVars
  <1>16. CASE NothingToStart
    BY <1>16 DEF QueueInv, TypeOK, JobRecord, Running, Places, Booked, Records, OneAtATime, Holder,
       Own, NothingToStart, fileVars, restVars, procVars
  <1>17. CASE Spawn
    BY <1>17 DEF QueueInv, TypeOK, JobRecord, Running, Places, Booked, Records, OneAtATime, Own,
       Spawn, Recorded
  <1>18. CASE SpawnFails
    BY <1>18, QueueAssumption DEF QueueInv, TypeOK, JobRecord, Running, Places, Booked, Records,
       OneAtATime, Holder, Own, SpawnFails, EndedJob, Enter, Goto, restVars, procVars
  <1>19. CASE RecordPid
    BY <1>19, QueueAssumption DEF QueueInv, TypeOK, JobRecord, Running, Places, Booked, Records,
       OneAtATime, Holder, Own, RecordPid, Enter, Goto, restVars, procVars
  <1>20. CASE OpenGate
    BY <1>20 DEF QueueInv, TypeOK, JobRecord, Running, Places, Booked, Records, OneAtATime, Own,
       OpenGate, Goto, LockGoes, fileVars
  <1>21. CASE Exit
    BY <1>21 DEF QueueInv, TypeOK, JobRecord, Running, Places, Booked, Records, OneAtATime, Holder,
       Own, Exit, Goto, LockGoes, fileVars, procVars
  <1>22. CASE WorkerRaises
    BY <1>22 DEF QueueInv, TypeOK, JobRecord, Running, Places, Booked, Records, OneAtATime, Holder,
       Own, WorkerRaises, WorkerLetsGo, LockGoes, fileVars, holderVars, procVars
  <1>23. CASE WorkerDies
    BY <1>23 DEF QueueInv, TypeOK, JobRecord, Running, Places, Booked, Records, OneAtATime, Holder,
       Own, WorkerDies, WorkerLetsGo, LockGoes, fileVars, holderVars, procVars
  <1>24. CASE CommandDies
    BY <1>24 DEF QueueInv, TypeOK, JobRecord, Running, Places, Booked, Records, OneAtATime, Holder,
       Own, CommandDies, LockGoes, fileVars, workerVars, procVars
  <1>25. CASE WorkerStarts
    BY <1>25 DEF QueueInv, TypeOK, JobRecord, Running, Places, Booked, Records, OneAtATime, Holder,
       Own, WorkerStarts, fileVars, holderVars, procVars
  <1> QED BY <1>1, <1>2, <1>3, <1>4, <1>5, <1>6, <1>7, <1>8, <1>9, <1>10, <1>11, <1>12, <1>13,
             <1>14, <1>15, <1>16, <1>17, <1>18, <1>19, <1>20, <1>21, <1>22, <1>23, <1>24, <1>25 DEF
             Next, HolderStep, OutsideStep, Command, Play, Top, Power, Settle, ScheduledWorker,
             ScheduledEnds, ProcessEnds, Enter, Goto, LockGoes, vars, fileVars, holderVars,
             restVars, workerVars, procVars

\* The forms of what is outside the list.
LEMMA OuterTypes ==
  ASSUME QueueInv, [Next]_vars
  PROVE  OuterType'
  <1>1. CASE UNCHANGED <<play, powerVars, sched, ac, deaths>>
    BY <1>1 DEF QueueInv, TypeOK, OuterType, powerVars
  <1>2. CASE Command /\ Play
    BY <1>2 DEF QueueInv, TypeOK, OuterType, Play, Command, powerVars
  <1>3. ASSUME NEW n \in Name, Add(n), Command
        PROVE  OuterType'
    <2>1. deaths' \in 0..MaxDeaths
      <3>1. deaths' \in {deaths, deaths + 1} /\ (deaths' = deaths \/ deaths < MaxDeaths)
        BY <1>3 DEF Add, Dies
      <3> QED BY <3>1, QueueAssumption DEF QueueInv, TypeOK
    <2>2. UNCHANGED <<play, paused, source, settled, ac, sched>>
      BY <1>3 DEF Add, Command, powerVars
    <2> QED BY <2>1, <2>2 DEF QueueInv, TypeOK, OuterType
  <1>4. ASSUME NEW n \in Name, Remove(n), Command
        PROVE  OuterType'
    <2>1. deaths' \in 0..MaxDeaths
      <3>1. deaths' \in {deaths, deaths + 1} /\ (deaths' = deaths \/ deaths < MaxDeaths)
        BY <1>4 DEF Remove, Dies
      <3> QED BY <3>1, QueueAssumption DEF QueueInv, TypeOK
    <2>2. UNCHANGED <<play, paused, source, settled, ac, sched>>
      BY <1>4 DEF Remove, Command, powerVars
    <2> QED BY <2>1, <2>2 DEF QueueInv, TypeOK, OuterType
  <1>5. ASSUME NEW n \in Name, Top(n), Command
        PROVE  OuterType'
    BY <1>5 DEF QueueInv, TypeOK, OuterType, Top, Command, powerVars
  <1>6. ASSUME NEW n \in Name, Requeue(n), Command
        PROVE  OuterType'
    BY <1>6 DEF QueueInv, TypeOK, OuterType, Requeue, Command, powerVars
  <1>7. CASE StopCommand
    BY <1>7 DEF QueueInv, TypeOK, OuterType, StopCommand, powerVars, restVars, outerVars
  <1>8. CASE Tick
    BY <1>8 DEF QueueInv, TypeOK, OuterType, Tick, outerVars
  <1>9. CASE WorkerRaises
    BY <1>9, QueueAssumption DEF QueueInv, TypeOK, OuterType, WorkerRaises, WorkerLetsGo, Dies,
       Enter, fileVars, powerVars
  <1>10. CASE WorkerDies
    BY <1>10, QueueAssumption DEF QueueInv, TypeOK, OuterType, WorkerDies, WorkerLetsGo, Dies,
       Enter, fileVars, powerVars
  <1>11. CASE CommandDies
    BY <1>11, QueueAssumption DEF QueueInv, TypeOK, OuterType, CommandDies, Dies, Enter, fileVars,
       powerVars
  <1>12. CASE Power
    BY <1>12 DEF QueueInv, TypeOK, OuterType, Power, fileVars, powerVars
  <1>13. CASE Settle
    BY <1>13 DEF QueueInv, TypeOK, OuterType, Settle, restVars, outerVars
  <1>14. CASE ScheduledWorker
    BY <1>14 DEF QueueInv, TypeOK, OuterType, ScheduledWorker, fileVars, powerVars
  <1>15. CASE ScheduledEnds
    BY <1>15 DEF QueueInv, TypeOK, OuterType, ScheduledEnds, fileVars, powerVars
  <1> QED BY <1>1, <1>2, <1>3, <1>4, <1>5, <1>6, <1>7, <1>8, <1>9, <1>10, <1>11, <1>12, <1>13,
             <1>14, <1>15 DEF Next, HolderStep, OutsideStep, Command, LastStop, StopMark, Signal,
             Wait, PutBack, StepRunning, Reap, Finish, StartIntent, NothingToStart, Spawn,
             SpawnFails, RecordPid, OpenGate, Exit, WorkerStarts, ProcessEnds, Enter, Goto, vars,
             fileVars, restVars, outerVars

\* The forms of the holder's and the worker's state.
LEMMA HolderTypes ==
  ASSUME QueueInv, [Next]_vars
  PROVE  HolderType'
  <1>1. CASE UNCHANGED <<files, holderVars, workerVars>>
    BY <1>1 DEF QueueInv, TypeOK, HolderType, holderVars, workerVars
  <1>2. ASSUME NEW n \in Name, Add(n), Command
        PROVE  HolderType'
    BY <1>2 DEF QueueInv, TypeOK, JobRecord, Places, Running, HolderType, Step, Add, Command,
       Paths, holderVars, workerVars
  <1>3. ASSUME NEW n \in Name, Remove(n), Command
        PROVE  HolderType'
    BY <1>3 DEF QueueInv, TypeOK, JobRecord, Places, Running, HolderType, Step, Remove, Command,
       holderVars, workerVars
  <1>4. CASE StopCommand
    BY <1>4 DEF QueueInv, TypeOK, JobRecord, Places, Running, HolderType, Step, StopCommand, Enter,
       restVars, workerVars
  <1>5. CASE Tick
    BY <1>5 DEF QueueInv, TypeOK, JobRecord, Places, HolderType, Step, Tick, Enter
  <1>6. CASE LastStop
    BY <1>6 DEF QueueInv, TypeOK, JobRecord, Places, Running, HolderType, Step, LastStop, Enter,
       fileVars, restVars, workerVars
  <1>7. CASE StopMark
    BY <1>7 DEF QueueInv, TypeOK, JobRecord, Places, Running, HolderType, Step, StopMark, Goto,
       LockGoes, restVars, workerVars
  <1>8. CASE Signal
    BY <1>8 DEF QueueInv, TypeOK, JobRecord, Places, Running, HolderType, Step, Signal, Goto,
       fileVars, workerVars
  <1>9. CASE Wait
    BY <1>9 DEF QueueInv, TypeOK, JobRecord, Places, Running, HolderType, Step, Wait, Goto,
       fileVars
  <1>10. CASE PutBack
    BY <1>10 DEF QueueInv, TypeOK, JobRecord, Places, Running, HolderType, Step, PutBack,
       StoppedJob, NoJob, Goto, LockGoes, restVars, workerVars
  <1>11. CASE StepRunning
    BY <1>11 DEF QueueInv, TypeOK, JobRecord, Places, Running, HolderType, Step, StepRunning,
       Unwanted, Orphan, Over, Enter, Goto, LockGoes, fileVars, restVars, workerVars
  <1>12. CASE Reap
    BY <1>12 DEF QueueInv, TypeOK, JobRecord, Places, Running, HolderType, Step, Reap, Goto,
       fileVars
  <1>13. CASE Finish
    BY <1>13 DEF QueueInv, TypeOK, JobRecord, Places, Running, HolderType, Step, Finish, Goto,
       workerVars
  <1>14. ASSUME NEW n \in Name, StartIntent(n)
        PROVE  HolderType'
    BY <1>14 DEF QueueInv, TypeOK, JobRecord, Places, Running, HolderType, Step, StartIntent,
       StartedJob, IsNext, Goto, restVars, workerVars
  <1>15. CASE NothingToStart
    BY <1>15 DEF QueueInv, TypeOK, JobRecord, Places, Running, HolderType, Step, NothingToStart,
       Waiting, Goto, LockGoes, fileVars, restVars, workerVars
  <1>16. CASE Spawn
    BY <1>16 DEF QueueInv, TypeOK, JobRecord, Places, Running, HolderType, Step, Spawn
  <1>17. CASE SpawnFails
    BY <1>17 DEF QueueInv, TypeOK, JobRecord, Places, Running, HolderType, Step, SpawnFails, Goto,
       LockGoes, restVars, workerVars
  <1>18. CASE RecordPid
    BY <1>18 DEF QueueInv, TypeOK, JobRecord, Places, Running, HolderType, Step, RecordPid, Goto,
       restVars, workerVars
  <1>19. CASE OpenGate
    BY <1>19 DEF QueueInv, TypeOK, JobRecord, Places, Running, HolderType, Step, OpenGate, Goto,
       LockGoes, fileVars, workerVars
  <1>20. CASE Exit
    BY <1>20 DEF QueueInv, TypeOK, JobRecord, Places, Running, HolderType, Step, Exit, Goto,
       LockGoes, fileVars
  <1>21. CASE WorkerRaises
    BY <1>21 DEF QueueInv, TypeOK, JobRecord, Places, Running, HolderType, Step, WorkerRaises,
       WorkerLetsGo, LockGoes, fileVars, holderVars
  <1>22. CASE WorkerDies
    BY <1>22 DEF QueueInv, TypeOK, JobRecord, Places, Running, HolderType, Step, WorkerDies,
       WorkerLetsGo, LockGoes, fileVars, holderVars
  <1>23. CASE CommandDies
    BY <1>23 DEF QueueInv, TypeOK, JobRecord, Places, Running, HolderType, Step, CommandDies,
       LockGoes, fileVars, workerVars
  <1>24. CASE WorkerStarts
    BY <1>24 DEF QueueInv, TypeOK, JobRecord, Places, HolderType, WorkerStarts, fileVars,
       holderVars
  <1> QED BY <1>1, <1>2, <1>3, <1>4, <1>5, <1>6, <1>7, <1>8, <1>9, <1>10, <1>11, <1>12, <1>13,
             <1>14, <1>15, <1>16, <1>17, <1>18, <1>19, <1>20, <1>21, <1>22, <1>23, <1>24 DEF Next,
             HolderStep, OutsideStep, Command, Play, Top, Requeue, Power, Settle, ScheduledWorker,
             ScheduledEnds, ProcessEnds, Enter, vars, fileVars, restVars

\* The forms of the processes' state.
LEMMA ProcessTypes ==
  ASSUME QueueInv, [Next]_vars
  PROVE  ProcessType'
  <1>1. CASE UNCHANGED <<procVars>>
    BY <1>1 DEF QueueInv, TypeOK, ProcessType, procVars
  <1>2. CASE Signal
    BY <1>2 DEF QueueInv, TypeOK, JobRecord, Running, Places, ProcessType, Signal
  <1>3. CASE Wait
    BY <1>3 DEF QueueInv, TypeOK, JobRecord, Running, Places, ProcessType, Phase, Wait, Kill,
       Forget
  <1>4. CASE Reap
    <2>1. PICK n \in Running : Kill(job[n].pid)
      BY <1>4 DEF Reap
    <2>2. phase' \in [Pid -> Phase]
      BY <2>1 DEF QueueInv, TypeOK, Phase, Kill
    <2> QED BY <1>4, <2>2 DEF QueueInv, TypeOK, ProcessType, Reap
  <1>5. CASE Finish
    BY <1>5 DEF QueueInv, TypeOK, JobRecord, Running, Places, ProcessType, Finish, Forget
  <1>6. CASE Spawn
    BY <1>6 DEF QueueInv, TypeOK, JobRecord, ProcessType, Phase, Spawn
  <1>7. CASE OpenGate
    BY <1>7 DEF QueueInv, TypeOK, JobRecord, Running, Places, ProcessType, Phase, OpenGate
  <1>8. ASSUME NEW p \in Pid, ProcessEnds(p)
        PROVE  ProcessType'
    BY <1>8 DEF QueueInv, TypeOK, JobRecord, Running, ProcessType, Phase, ProcessEnds
  <1> QED BY <1>1, <1>2, <1>3, <1>4, <1>5, <1>6, <1>7, <1>8 DEF Next, HolderStep, OutsideStep,
             Command, Play, Add, Remove, Top, Requeue, StopCommand, Tick, LastStop, StopMark,
             PutBack, StepRunning, StartIntent, NothingToStart, SpawnFails, RecordPid, Exit,
             WorkerRaises, WorkerDies, CommandDies, WorkerStarts, Power, Settle, ScheduledWorker,
             ScheduledEnds, Dies, WorkerLetsGo, Enter, vars, restVars

-----------------------------------------------------------------------------
(* Theorems.                                                               *)

LEMMA QueueInit ==
  ASSUME Init
  PROVE  QueueInv
  <1>1. \A n \in Name : job[n] = NoJob
    BY DEF Init
  <1>2. TypeOK
    <2>1. NoJob \in JobRecord /\ 0 \in 0..MaxDeaths
      BY QueueAssumption DEF NoJob, JobRecord, JobState
    <2>2. job \in [Name -> JobRecord] /\ order \in Seq(Name)
      BY <2>1 DEF Init
    <2>3. OuterType
      BY <2>1 DEF Init, OuterType
    <2>4. HolderType
      BY DEF Init, HolderType, Step
    <2>5. ProcessType
      BY DEF Init, ProcessType, Phase
    <2> QED BY <2>2, <2>3, <2>4, <2>5, Zenon DEF TypeOK, OuterType, HolderType, ProcessType
  <1>3. Running = {} /\ Alive = {}
    BY <1>1 DEF Init, NoJob, Running, Alive
  <1>4. Records /\ ListedHasFiles /\ Ordered
    BY <1>1 DEF Records, RetriedOnce, ListedHasFiles, Ordered, NoJob
  <1> QED BY <1>2, <1>3, <1>4 DEF Init, QueueInv, Places, Booked, OneAtATime, Holder, Own

LEMMA QueueNext ==
  ASSUME QueueInv, [Next]_vars
  PROVE  QueueInv'
  <1>1. TypeOK'
    BY JobTypes, Lists, OuterTypes, HolderTypes, ProcessTypes, Zenon DEF TypeOK, OuterType,
       HolderType, ProcessType
  <1> QED BY <1>1, RecordsStep, PlacesStep, OneStep, FilesStep, Lists, HolderStepKeeps, OwnStep DEF
             QueueInv

\* The inductive invariant of the queue.
THEOREM QueueCorrect == Spec => []QueueInv
  <1>1. Init => QueueInv
    BY QueueInit
  <1>2. QueueInv /\ [Next]_vars => QueueInv'
    BY QueueNext
  <1> QED BY <1>1, <1>2, PTL DEF Spec

\* Every reachable state of the queue, its worker and its processes has its type.
THEOREM QueueTypes == Spec => []TypeOK
  <1>1. QueueInv => TypeOK
    BY DEF QueueInv
  <1> QED BY <1>1, QueueCorrect, PTL

\* Whatever died and when, all that can execute is the one job recorded as running.
THEOREM OnlyTheRecordedRuns == Spec => []AliveIsRunning
  <1>1. ASSUME QueueInv
        PROVE  AliveIsRunning
    <2>1. Cardinality(Running) <= 1
      <3>1. CASE Running = {}
        BY <3>1, FS_EmptySet
      <3>2. ASSUME NEW n \in Running
            PROVE  Cardinality(Running) = 1
        <4>1. Running = {n}
          BY <1>1, <3>2 DEF QueueInv, OneAtATime
        <4> QED BY <4>1, FS_Singleton
      <3> QED BY <3>1, <3>2
    <2> QED BY <1>1, <2>1 DEF QueueInv, OneAtATime, AliveIsRunning
  <1> QED BY <1>1, QueueCorrect, PTL

\* A scheduled job never runs beside a queue job or what is left of one.
THEOREM NeverBesideScheduled == Spec => []ScheduledAlone
  <1>1. QueueInv => ScheduledAlone
    BY DEF QueueInv, OneAtATime, ScheduledAlone
  <1> QED BY <1>1, QueueCorrect, PTL

\* A listed job has its log and progress files.
THEOREM ListedJobsHaveFiles == Spec => []ListedHasFiles
  <1>1. QueueInv => ListedHasFiles
    BY DEF QueueInv
  <1> QED BY <1>1, QueueCorrect, PTL

\* A job fails with its second attempt, and being stopped costs it none.
THEOREM RetriesOnce == Spec => []RetriedOnce
  <1>1. QueueInv => RetriedOnce
    BY DEF QueueInv, Records
  <1> QED BY <1>1, QueueCorrect, PTL

LEMMA EndingStep ==
  ASSUME QueueInv, [Next]_vars, NEW n \in Name,
         job[n].state = "running", job'[n].state # "running", ~job'[n].stopped
  PROVE  \/ /\ job[n].pid \in ran \ told
            /\ job'[n].state = "finished" <=> code[job[n].pid] = 0
         \/ /\ job[n].pid = 0 /\ ran = {} /\ Alive = {}
            /\ job'[n].state # "finished"
  <1> n \in Running
    BY DEF Running
  <1>1. CASE UNCHANGED job
    BY <1>1
  <1>2. ASSUME NEW m \in Name, Add(m) \/ Remove(m) \/ Requeue(m)
        PROVE  job'[n] = job[n]
    BY <1>2 DEF QueueInv, TypeOK, Add, Remove, Delist, Requeue
  <1>3. CASE StopMark \/ RecordPid
    <2>1. job'[n].state = job[n].state
      BY <1>3 DEF QueueInv, TypeOK, JobRecord, StopMark, RecordPid
    <2> QED BY <2>1
  <1>4. CASE PutBack
    <2>1. PICK m \in Running : job' = [job EXCEPT ![m] = StoppedJob(job[m])]
      BY <1>4 DEF PutBack
    <2> QED BY <2>1 DEF StoppedJob
  <1>5. CASE Finish
    <2>1. PICK m \in Running : job' = [job EXCEPT ![m] = EndedJob(job[m], code[job[m].pid])]
      BY <1>5 DEF Finish
    <2>2. m = n /\ job[n].pid \in ran \ told
      BY <1>5 DEF QueueInv, OneAtATime, Own, Finish
    <2>3. job'[n].state = EndedJob(job[n], code[job[n].pid]).state
      BY <2>1, <2>2 DEF QueueInv, TypeOK
    <2>4. job[n] \in JobRecord
      BY DEF QueueInv, TypeOK
    <2> QED BY <2>2, <2>3, <2>4 DEF EndedJob, JobRecord
  <1>6. ASSUME NEW m \in Name, StartIntent(m)
        PROVE  FALSE
    BY <1>6 DEF QueueInv, Places, Running, StartIntent
  <1>7. CASE SpawnFails
    <2>1. PICK m \in Running : job' = [job EXCEPT ![m] = EndedJob(job[m], 127)]
      BY <1>7 DEF SpawnFails
    <2>2. m = n /\ \A k \in Running : job[k].pid = 0
      BY <1>7 DEF QueueInv, OneAtATime, Places, SpawnFails
    <2>3. job'[n].state = EndedJob(job[n], 127).state /\ job[n] \in JobRecord
      BY <2>1, <2>2 DEF QueueInv, TypeOK
    <2>4. job'[n].state # "finished"
      BY <2>3 DEF EndedJob, JobRecord
    <2>5. ran = {} /\ Alive = {}
      BY <2>2, QueueAssumption DEF QueueInv, TypeOK, Own, OneAtATime, Alive
    <2> QED BY <2>2, <2>4, <2>5
  <1> QED BY <1>1, <1>2, <1>3, <1>4, <1>5, <1>6, <1>7 DEF Next, HolderStep, OutsideStep, Command,
             Play, Top, StopCommand, Tick, LastStop, Signal, Wait, StepRunning, Reap,
             NothingToStart, Spawn, OpenGate, Exit, WorkerRaises, WorkerDies, CommandDies,
             WorkerLetsGo, WorkerStarts, Power, Settle, ScheduledWorker, ScheduledEnds,
             ProcessEnds, vars, fileVars

\* An attempt ends with the status of a command that was let run and that nothing
\* told to stop, or as the failure of a spawn, with nothing executing.
THEOREM EndsByItself == Spec => EndingIsItsOwn
  <1>1. QueueInv /\ [Next]_vars =>
          [\A n \in Name :
             job[n].state = "running" /\ job'[n].state # "running" /\ ~job'[n].stopped
             => \/ /\ job[n].pid \in ran \ told
                   /\ job'[n].state = "finished" <=> code[job[n].pid] = 0
                \/ /\ job[n].pid = 0 /\ ran = {} /\ Alive = {}
                   /\ job'[n].state # "finished"]_vars
    BY EndingStep
  <1> QED BY <1>1, QueueCorrect, PTL DEF Spec, EndingIsItsOwn

\* While start is under way, nothing it looked at has changed, and what it has
\* started waits at its gate.
Starting ==
  /\ pc \in {"spawn", "record", "gate"} => source /\ ~paused /\ play /\ sched = "idle"
  /\ pc \in {"record", "gate"} => phase[child] = "gated"

LEMMA StartingInit ==
  ASSUME Init
  PROVE  Starting
  BY DEF Init, Starting

LEMMA StartingNext ==
  ASSUME QueueInv, Starting, [Next]_vars
  PROVE  Starting'
  <1>1. CASE UNCHANGED <<play, powerVars, holderVars, phase, sched>>
    BY <1>1 DEF Starting, powerVars, holderVars
  <1>2. CASE lock = "free" /\ UNCHANGED holderVars
    BY <1>2 DEF QueueInv, Places, Starting, holderVars
  <1>3. ASSUME NEW step, pc' = step, step \notin {"spawn", "record", "gate"}
        PROVE  Starting'
    BY <1>3 DEF Starting
  <1>4. ASSUME NEW n \in Name, StartIntent(n)
        PROVE  Starting'
    BY <1>4 DEF StartIntent, Ready, Goto, LockGoes, powerVars, restVars, outerVars, Starting
  <1>5. CASE Spawn
    <2>1. PICK p \in Pid : child' = p /\ phase' = [phase EXCEPT ![p] = "gated"]
      BY <1>5 DEF Spawn
    <2>2. phase'[child'] = "gated"
      BY <2>1 DEF QueueInv, TypeOK
    <2> QED BY <1>5, <2>2 DEF Spawn, Starting, powerVars, outerVars
  <1>6. CASE RecordPid
    BY <1>6 DEF RecordPid, Goto, LockGoes, powerVars, restVars, procVars, outerVars, Starting
  <1>7. ASSUME NEW p \in Pid, ProcessEnds(p)
        PROVE  Starting'
    <2>1. UNCHANGED <<play, powerVars, holderVars, sched>>
      BY <1>7 DEF ProcessEnds, fileVars, outerVars
    <2>2. ASSUME pc \in {"record", "gate"}
          PROVE  phase'[child] = "gated"
      <3>1. phase[child] = "gated"
        BY <2>2 DEF Starting
      <3>2. p # child
        BY <1>7, <2>2, <3>1 DEF ProcessEnds
      <3>3. \E end : phase' = [phase EXCEPT ![p] = end]
        BY <1>7 DEF ProcessEnds
      <3> QED BY <2>2, <3>1, <3>2, <3>3 DEF QueueInv, Places, TypeOK
    <2> QED BY <2>1, <2>2 DEF Starting, powerVars, holderVars
  <1>8. CASE Settle \/ ScheduledEnds
    BY <1>8 DEF QueueInv, Places, Starting, Settle, ScheduledEnds, fileVars, powerVars, holderVars,
       restVars, procVars, outerVars
  <1>9. CASE WorkerRaises \/ WorkerDies \/ CommandDies
    BY <1>9 DEF QueueInv, Holder, Starting, WorkerRaises, WorkerDies, CommandDies, WorkerLetsGo,
       LockGoes, fileVars, powerVars, holderVars, procVars
  <1>10. CASE WorkerStarts \/ Power
    BY <1>1, <1>10 DEF WorkerStarts, Power, fileVars, procVars, outerVars
  <1>11. CASE Command \/ ScheduledWorker
    BY <1>2, <1>11 DEF Command, ScheduledWorker
  <1>12. CASE StopCommand \/ Tick \/ LastStop
    BY <1>12 DEF Starting, StopCommand, Tick, LastStop, Enter
  <1>13. CASE Signal \/ Wait \/ Reap \/ Finish \/ NothingToStart \/ SpawnFails \/ OpenGate \/ Exit
    BY <1>13 DEF Starting, Signal, Wait, Reap, Finish, NothingToStart, SpawnFails, OpenGate, Exit,
       Goto, LockGoes
  <1>14. CASE StopMark \/ PutBack \/ StepRunning
    BY <1>14 DEF QueueInv, Places, Starting, StopMark, PutBack, StepRunning, Enter, Goto, LockGoes
  <1> QED BY <1>1, <1>4, <1>5, <1>6, <1>7, <1>8, <1>9, <1>10, <1>11, <1>12, <1>13, <1>14 DEF Next,
             HolderStep, OutsideStep, vars, fileVars, restVars, procVars, outerVars

LEMMA RunningStep ==
  ASSUME QueueInv, Starting, [Next]_vars, NEW p \in ran' \ ran
  PROVE  source /\ ~paused /\ play /\ sched = "idle" /\ Recorded(p) /\ Alive = {}
  <1>1. OpenGate
    <2>1. CASE UNCHANGED ran
      BY <2>1
    <2>2. CASE Wait \/ Finish
      BY <2>2 DEF Wait, Finish, Forget
    <2> QED BY <2>1, <2>2 DEF Next, HolderStep, OutsideStep, Command, StopCommand, Tick, LastStop,
               StopMark, Signal, PutBack, StepRunning, Reap, StartIntent, NothingToStart, Spawn,
               SpawnFails, RecordPid, Exit, WorkerRaises, WorkerDies, CommandDies, WorkerLetsGo,
               WorkerStarts, Power, Settle, ScheduledWorker, ScheduledEnds, ProcessEnds, vars,
               restVars, procVars
  <1>2. p = child /\ pc = "gate"
    BY <1>1 DEF OpenGate
  <1>3. PICK n \in Running : TRUE
    BY <1>2 DEF QueueInv, Places, Booked
  <1>4. \A m \in Running : job[m].pid = child
    BY <1>2 DEF QueueInv, Places
  <1>5. Recorded(p)
    BY <1>2, <1>3, <1>4 DEF Recorded, Running
  <1>6. Alive = {}
    <2>1. \A q \in Alive : q = child
      BY <1>4 DEF QueueInv, OneAtATime
    <2>2. child \notin Alive
      BY <1>2 DEF Starting, Alive
    <2> QED BY <2>1, <2>2
  <1> QED BY <1>2, <1>5, <1>6 DEF Starting

\* A command is let run only on what was found when its start began: power, a
\* queue that plays, no scheduled job; it is recorded and nothing else executes.
THEOREM RunsOnPower == Spec => CommandsRunOnPower
  <1>1. Init => Starting
    BY StartingInit
  <1>2. QueueInv /\ Starting /\ [Next]_vars => Starting'
    BY StartingNext
  <1>3. QueueInv /\ Starting /\ [Next]_vars =>
          [\A p \in ran' \ ran :
             source /\ ~paused /\ play /\ sched = "idle" /\ Recorded(p) /\ Alive = {}]_vars
    BY RunningStep
  <1> QED BY <1>1, <1>2, <1>3, QueueCorrect, PTL DEF Spec, CommandsRunOnPower
=============================================================================

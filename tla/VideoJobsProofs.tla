--------------------------- MODULE VideoJobsProofs ---------------------------
(***************************************************************************)
(* The safety of background video jobs, for any number of jobs, faults and *)
(* restarts: what a task, its row and its kept charge know of one another. *)
(***************************************************************************)
EXTENDS VideoJobs, TLAPS

Row    == [status : Ended \cup Live \cup {"none"}, ref : BOOLEAN, cost : BOOLEAN, failure : Failure]
Charge == [status : Ended \cup {"none"}, cost : BOOLEAN, failure : Failure]
Doing  == [at : {"none", "begin", "send", "sent", "save", "poll", "finish"}, kind : Kind,
           status : Ended, cost : BOOLEAN, failure : Failure]

\* What an attendance leaves a trace of: numbers grow, and whatever belongs to
\* a job's tasks belongs to a job that has a row.
Counted ==
  /\ \A t \in Task : task[t].at # "none" => t[2] <= spawned[t[1]]
  /\ \A j \in Job :
       /\ spawned[j] > 0 \/ paid[j] > 0 => row[j].status # "none"
       /\ j \in known => spawned[j] > 0
       /\ pending[j] # NoCharge => spawned[j] > 0 /\ pending[j].status \in Ended

\* A recovery is under way as the lock says, and a job attended again has cost
\* a fault.
Recovering ==
  /\ recovering => up /\ ~recovered
  /\ rows # {} => recovering
  /\ \A j \in Job :
       /\ spawned[j] <= faults + 1
       /\ ~recovered /\ ~recovering => spawned[j] <= faults
       /\ <<j, TRUE>> \in rows => spawned[j] <= faults

\* Only a new job's first task pays; before it has, nothing is paid, and before
\* the answer no cost is known.
Paying ==
  \A t \in Task :
    /\ task[t].at = "send" => task[t].kind # "resume"
    /\ task[t].at # "none" /\ task[t].kind # "resume" => t[2] = 1
    /\ task[t].at \in {"begin", "send"} /\ task[t].kind # "resume" => paid[t[1]] = 0
    /\ task[t].at \in {"begin", "send", "sent"} => ~task[t].cost

\* What recovery has still to deal with is as it was read, unless another task
\* attends it.
Unattended ==
  \A j \in Job :
    /\ ~recovered /\ spawned[j] > 0 => row[j].ref
    /\ <<j, FALSE>> \in rows => spawned[j] = 0
    /\ <<j, TRUE>> \in rows => row[j].ref /\ <<j, FALSE>> \notin rows
    /\ \A ref \in BOOLEAN : <<j, ref>> \in rows /\ spawned[j] = 0 => row[j].status \in Live

\* A job attended once: its ending, its kept charge and its task exclude one
\* another, and the cost is learnt after the answer.
AttendedOnce ==
  \A j \in Job : spawned[j] <= 1 =>
    /\ \A t \in Task : t[1] = j /\ task[t].at # "none" =>
         /\ row[j].status \notin Ended /\ pending[j] = NoCharge
         /\ up /\ task[t].at \in {"begin", "send", "sent"} => j \notin known
    /\ pending[j] # NoCharge /\ row[j].status \in Ended => row[j].status = pending[j].status

\* A charge that a request copied is its job's kept one, or that was recorded
\* meanwhile; one that the request has recorded is in the row.
CopyInv ==
  /\ copied \in [Reader -> [Job -> Charge]] /\ saved \subseteq Reader \X Job
  /\ \A r \in Reader, j, k \in Job : <<r, j>> \in saved /\ <<r, k>> \in saved => j = k
  /\ \A r \in Reader, j \in Job : copied[r][j] # NoCharge =>
       /\ up /\ spawned[j] > 0 /\ copied[r][j].status \in Ended
       /\ spawned[j] <= 1 =>
            /\ \A t \in Task : t[1] = j => task[t].at = "none"
            /\ \/ pending[j] = copied[r][j]
               \/ pending[j] = NoCharge /\ row[j].status = copied[r][j].status
  /\ \A r \in Reader, j \in Job : <<r, j>> \in saved =>
       /\ copied[r][j] # NoCharge
       /\ spawned[j] <= 1 => /\ row[j].status = copied[r][j].status
                             /\ copied[r][j].cost => row[j].cost

VideoInv ==
  /\ JobsOK /\ DebitedOnce /\ PaidOnce /\ CostKept
  /\ Counted /\ Recovering /\ Paying /\ Unattended /\ AttendedOnce

-----------------------------------------------------------------------------
(* The database.                                                           *)

\* A row changes in the fields it is given, and its debit with its cost.
LEMMA Updates ==
  ASSUME row \in [Job -> Row], debits \in [Job -> Nat], DebitedOnce, NEW j \in Job,
         NEW status \in Ended \cup Live \cup {"none"}, NEW ref \in BOOLEAN, NEW cost \in BOOLEAN,
         NEW failure \in Failure, Update(j, status, ref, cost, failure)
  PROVE  /\ row' \in [Job -> Row] /\ debits' \in [Job -> Nat] /\ DebitedOnce'
         /\ \A k \in Job : k # j => row'[k] = row[k]
         /\ row'[j].status = status
         /\ (row[j].ref \/ ref) => row'[j].ref
         /\ (row[j].cost \/ cost) => row'[j].cost
<1> DEFINE f == IF failure = "none" THEN row[j].failure ELSE failure
           new == [status |-> status, ref |-> row[j].ref \/ ref, cost |-> row[j].cost \/ cost,
                   failure |-> f]
<1>1. row[j] \in Row
  OBVIOUS
<1>2. f \in Failure
  BY <1>1 DEF Row
<1>3. row[j].ref \in BOOLEAN /\ row[j].cost \in BOOLEAN
  BY <1>1 DEF Row
<1>4. new \in Row
  BY <1>2 DEF Row
<1>5. row' = [row EXCEPT ![j] = new]
  BY DEF Update
<1>6. row' \in [Job -> Row] /\ row'[j] = new /\ \A k \in Job : k # j => row'[k] = row[k]
  <2> HIDE DEF new
  <2> QED BY <1>4, <1>5
<1>7. /\ row'[j].status = status
      /\ row'[j].ref = (row[j].ref \/ ref)
      /\ row'[j].cost = (row[j].cost \/ cost)
  BY <1>6
<1>8. debits' \in [Job -> Nat] /\ DebitedOnce'
  <2>1. CASE cost /\ ~row[j].cost
    <3>1. debits' = [debits EXCEPT ![j] = debits[j] + 1]
      BY <2>1 DEF Update, Debit
    <3>2. row'[j].cost
      BY <1>7, <2>1
    <3> QED BY <3>1, <3>2, <2>1, <1>6 DEF DebitedOnce
  <2>2. CASE ~(cost /\ ~row[j].cost)
    <3>1. debits' = debits
      BY <2>2 DEF Update, Debit
    <3>2. row'[j].cost <=> row[j].cost
      BY <1>3, <1>7, <2>2
    <3> QED BY <3>1, <3>2, <1>6 DEF DebitedOnce
  <2> QED BY <2>1, <2>2
<1> QED BY <1>6, <1>7, <1>8

-----------------------------------------------------------------------------
(* The tasks.                                                              *)

\* Only the task t changes, and it keeps its kind while it goes on.
LEMMA GoesOn ==
  ASSUME task \in [Task -> Doing], NEW t \in Task, NEW what \in Doing, Goes(t, what)
  PROVE  task' \in [Task -> Doing] /\ task'[t] = what /\ \A u \in Task : u # t => task'[u] = task[u]
BY DEF Goes

LEMMA Ending ==
  ASSUME task \in [Task -> Doing], NEW t \in Task, NEW status \in Ended, NEW cost \in BOOLEAN,
         NEW failure \in Failure, Ends(t, status, cost, failure)
  PROVE  /\ task' \in [Task -> Doing] /\ \A u \in Task : u # t => task'[u] = task[u]
         /\ task'[t].at = "finish" /\ task'[t].kind = task[t].kind /\ task'[t].cost = cost
<1> DEFINE what == [task[t] EXCEPT !.at = "finish", !.status = status, !.cost = cost,
                                   !.failure = failure]
<1>1. what \in Doing /\ what.at = "finish" /\ what.kind = task[t].kind /\ what.cost = cost
  BY DEF Doing
<1>2. Goes(t, what)
  BY DEF Ends
<1> HIDE DEF what
<1> QED BY <1>1, <1>2, GoesOn

\* What every step of a task shares.
Attends(t) ==
  /\ JobsOK' /\ DebitedOnce'
  /\ task[t].at # "none"
  /\ \A u \in Task : u # t => task'[u] = task[u]
  /\ task'[t].at # "none" => task'[t].kind = task[t].kind
  /\ \A j \in Job : j # t[1] => row'[j] = row[j] /\ pending'[j] = pending[j]
  /\ row'[t[1]].status # "none"
  /\ row[t[1]].ref => row'[t[1]].ref
  /\ row[t[1]].cost => row'[t[1]].cost
  /\ known \subseteq known' /\ known' \subseteq known \cup {t[1]}
  /\ faults' >= faults
  /\ UNCHANGED <<lockVars, up, spawned>>

LEMMA TaskJob == \A t \in Task : t[1] \in Job /\ t[2] \in Nat /\ t[2] > 0 /\ t = <<t[1], t[2]>>
BY VideoAssumption DEF Task, Copy

\* What recovery knows stays when neither it nor the numbers move.
LEMMA RecoveringStays ==
  ASSUME JobsOK, Recovering, UNCHANGED <<lockVars, up, spawned>>,
         faults' \in 0..MaxFaults, faults' >= faults
  PROVE  Recovering'
<1>1. recovering' = recovering /\ recovered' = recovered /\ rows' = rows /\ up' = up
  BY DEF lockVars
<1>2. faults' >= faults /\ faults \in Nat /\ faults' \in Nat
  BY VideoAssumption DEF JobsOK
<1>3. \A j \in Job : spawned[j] \in Nat /\ spawned'[j] = spawned[j]
  BY VideoAssumption DEF JobsOK
<1>4. (recovering' => up' /\ ~recovered') /\ (rows' # {} => recovering')
  BY <1>1 DEF Recovering
<1>5. ASSUME NEW j \in Job
      PROVE  /\ spawned'[j] <= faults' + 1
             /\ ~recovered' /\ ~recovering' => spawned'[j] <= faults'
             /\ <<j, TRUE>> \in rows' => spawned'[j] <= faults'
  <2>1. /\ spawned[j] <= faults + 1
        /\ ~recovered /\ ~recovering => spawned[j] <= faults
        /\ <<j, TRUE>> \in rows => spawned[j] <= faults
    BY DEF Recovering
  <2> QED BY <2>1, <1>1, <1>2, <1>3
<1> QED BY <1>4, <1>5 DEF Recovering

LEMMA AttendsKeeps ==
  ASSUME VideoInv, NEW t \in Task, Attends(t),
         pending'[t[1]] # NoCharge => pending'[t[1]].status \in Ended,
         paid' = paid \/ paid' = [paid EXCEPT ![t[1]] = @ + 1]
  PROVE  Counted' /\ Recovering' /\ Unattended'
<1>1. t[1] \in Job /\ t[2] \in Nat /\ t[2] > 0
  BY TaskJob
<1>2. row[t[1]].status # "none" /\ spawned[t[1]] > 0 /\ t[2] <= spawned[t[1]]
  <2>1. spawned[t[1]] \in Nat
    BY <1>1, VideoAssumption DEF VideoInv, JobsOK
  <2> QED BY <1>1, <2>1 DEF VideoInv, Counted, Attends
<1>3. Counted'
  <2>1. ASSUME NEW u \in Task, task'[u].at # "none" PROVE u[2] <= spawned'[u[1]]
    BY <2>1, <1>2 DEF VideoInv, Counted, Attends
  <2>2. ASSUME NEW j \in Job, spawned'[j] > 0 \/ paid'[j] > 0 PROVE row'[j].status # "none"
    <3>1. CASE j = t[1]
      BY <3>1 DEF Attends
    <3>2. CASE j # t[1]
      BY <3>2, <2>2 DEF VideoInv, Counted, Attends, JobsOK
    <3> QED BY <3>1, <3>2
  <2>3. ASSUME NEW j \in Job, j \in known' PROVE spawned'[j] > 0
    BY <2>3, <1>2 DEF VideoInv, Counted, Attends
  <2>4. ASSUME NEW j \in Job, pending'[j] # NoCharge
        PROVE  spawned'[j] > 0 /\ pending'[j].status \in Ended
    BY <2>4, <1>2 DEF VideoInv, Counted, Attends
  <2> QED BY <2>1, <2>2, <2>3, <2>4 DEF Counted
<1>4. Recovering'
  BY RecoveringStays DEF VideoInv, Attends, JobsOK
<1>5. Unattended'
  <2>1. recovered' = recovered /\ rows' = rows /\ spawned' = spawned
    BY DEF Attends, lockVars
  <2>2. SUFFICES ASSUME NEW j \in Job
                 PROVE  /\ ~recovered /\ spawned[j] > 0 => row'[j].ref
                        /\ <<j, FALSE>> \in rows => spawned[j] = 0
                        /\ <<j, TRUE>> \in rows => row'[j].ref /\ <<j, FALSE>> \notin rows
                        /\ \A ref \in BOOLEAN : <<j, ref>> \in rows /\ spawned[j] = 0
                                                  => row'[j].status \in Live
    BY <2>1 DEF Unattended
  <2>3. CASE j = t[1]
    <3>1. /\ ~recovered /\ spawned[j] > 0 => row[j].ref
          /\ <<j, FALSE>> \in rows => spawned[j] = 0
          /\ <<j, TRUE>> \in rows => row[j].ref /\ <<j, FALSE>> \notin rows
      BY DEF VideoInv, Unattended
    <3>2. spawned[j] > 0 /\ spawned[j] # 0 /\ (row[j].ref => row'[j].ref)
      BY <2>3, <1>2 DEF Attends
    <3> QED BY <3>1, <3>2
  <2>4. CASE j # t[1]
    BY <2>4 DEF VideoInv, Unattended, Attends
  <2> QED BY <2>3, <2>4
<1> QED BY <1>3, <1>4, <1>5

\* A job attended once has one task.
LEMMA Alone ==
  ASSUME VideoInv, NEW t \in Task, NEW u \in Task, task[t].at # "none", task[u].at # "none",
         u[1] = t[1], spawned[t[1]] <= 1
  PROVE  u = t
<1>1. t[2] \in Nat /\ u[2] \in Nat /\ t[2] > 0 /\ u[2] > 0 /\ t = <<t[1], t[2]>> /\ u = <<u[1], u[2]>>
  BY TaskJob
<1>2. spawned[t[1]] \in Nat
  BY TaskJob, VideoAssumption DEF VideoInv, JobsOK
<1>3. t[2] <= spawned[t[1]] /\ u[2] <= spawned[t[1]]
  BY DEF VideoInv, Counted
<1>4. t[2] = 1 /\ u[2] = 1
  BY <1>1, <1>2, <1>3
<1> QED BY <1>1, <1>4

\* A step after which the task goes on.
Continues(t) ==
  /\ pending' = pending
  /\ task'[t].at # "none"
  /\ task[t].cost => task'[t].cost
  /\ known' = known \/ (known' = known \cup {t[1]} /\ task'[t].cost)
  /\ task'[t].at \in {"begin", "send", "sent"} =>
       task[t].at \in {"begin", "send", "sent"} /\ known' = known /\ ~task'[t].cost
  /\ row'[t[1]].status \in Ended => row'[t[1]].status = row[t[1]].status
  /\ task'[t].at = "send" => task[t].at = "begin" /\ task'[t].kind # "resume"
  /\ task'[t].at # "begin"
  /\ paid' = paid \/ (task[t].at = "send" /\ task'[t].at # "send"
                        /\ paid' = [paid EXCEPT ![t[1]] = @ + 1])

LEMMA ContinuesKeeps ==
  ASSUME VideoInv, NEW t \in Task, Attends(t), Continues(t)
  PROVE  VideoInv'
<1>1. t[1] \in Job /\ task[t].at # "none"
  BY TaskJob DEF Attends
<1>2. Counted' /\ Recovering' /\ Unattended'
  <2>1. pending'[t[1]] # NoCharge => pending'[t[1]].status \in Ended
    BY <1>1 DEF Continues, VideoInv, Counted
  <2> QED BY <2>1, AttendsKeeps DEF Continues
<1>3. PaidOnce'
  <2>1. CASE paid' = paid
    BY <2>1 DEF VideoInv, PaidOnce
  <2>2. CASE task[t].at = "send" /\ paid' = [paid EXCEPT ![t[1]] = @ + 1]
    <3>1. paid[t[1]] = 0
      BY <2>2 DEF VideoInv, Paying
    <3> QED BY <2>2, <3>1, <1>1 DEF VideoInv, PaidOnce, JobsOK
  <2> QED BY <2>1, <2>2 DEF Continues
<1>4. Paying'
  <2> SUFFICES ASSUME NEW u \in Task
               PROVE  /\ task'[u].at = "send" => task'[u].kind # "resume"
                      /\ task'[u].at # "none" /\ task'[u].kind # "resume" => u[2] = 1
                      /\ task'[u].at \in {"begin", "send"} /\ task'[u].kind # "resume"
                           => paid'[u[1]] = 0
                      /\ task'[u].at \in {"begin", "send", "sent"} => ~task'[u].cost
    BY DEF Paying
  <2>1. CASE u = t
    BY <2>1 DEF VideoInv, Paying, Attends, Continues
  <2>2. CASE u # t
    <3>1. task'[u] = task[u]
      BY <2>2 DEF Attends
    <3>2. CASE paid' = paid
      BY <3>1, <3>2 DEF VideoInv, Paying
    <3>3. CASE task[t].at = "send" /\ paid' = [paid EXCEPT ![t[1]] = @ + 1]
      <4>1. t[2] = 1
        BY <3>3 DEF VideoInv, Paying
      <4>2. task[u].at # "none" /\ task[u].kind # "resume" => u[2] = 1 /\ u[1] # t[1]
        BY <4>1, <2>2, TaskJob DEF VideoInv, Paying
      <4>3. u[1] # t[1] => paid'[u[1]] = paid[u[1]]
        BY <3>3, TaskJob DEF VideoInv, JobsOK
      <4> QED BY <3>1, <4>2, <4>3 DEF VideoInv, Paying
    <3> QED BY <3>2, <3>3 DEF Continues
  <2> QED BY <2>1, <2>2
<1>5. AttendedOnce'
  <2> SUFFICES ASSUME NEW j \in Job, spawned'[j] <= 1
               PROVE  /\ \A u \in Task : u[1] = j /\ task'[u].at # "none" =>
                           /\ row'[j].status \notin Ended /\ pending'[j] = NoCharge
                           /\ up' /\ task'[u].at \in {"begin", "send", "sent"} => j \notin known'
                      /\ pending'[j] # NoCharge /\ row'[j].status \in Ended
                           => row'[j].status = pending'[j].status
    BY DEF AttendedOnce
  <2>0. /\ \A u \in Task : u[1] = j /\ task[u].at # "none" =>
             /\ row[j].status \notin Ended /\ pending[j] = NoCharge
             /\ up /\ task[u].at \in {"begin", "send", "sent"} => j \notin known
        /\ pending[j] # NoCharge /\ row[j].status \in Ended => row[j].status = pending[j].status
    BY DEF VideoInv, AttendedOnce, Attends
  <2>1. CASE j = t[1]
    <3>1. \A u \in Task : u[1] = j /\ task'[u].at # "none" => u = t
      BY <2>1, <1>1, Alone DEF Attends
    <3> QED BY <2>0, <2>1, <3>1, <1>1 DEF Attends, Continues
  <2>2. CASE j # t[1]
    BY <2>0, <2>2 DEF Attends, Continues
  <2> QED BY <2>1, <2>2
<1>6. CostKept'
  <2> SUFFICES ASSUME up', NEW j \in known', spawned'[j] <= 1
               PROVE  \/ row'[j].cost \/ pending'[j].cost
                      \/ \E u \in Task : u[1] = j /\ task'[u].at # "none" /\ task'[u].cost
    BY DEF CostKept
  <2>1. CASE j = t[1] /\ known' # known
    BY <2>1 DEF Continues
  <2>2. CASE j \in known
    <3>1. \/ row[j].cost \/ pending[j].cost
          \/ \E u \in Task : u[1] = j /\ task[u].at # "none" /\ task[u].cost
      BY <2>2 DEF VideoInv, CostKept, Attends
    <3>2. row[j].cost => row'[j].cost
      BY <2>2 DEF Attends, VideoInv, JobsOK
    <3>3. ASSUME NEW u \in Task, u[1] = j, task[u].at # "none", task[u].cost
          PROVE  task'[u].at # "none" /\ task'[u].cost
      BY <3>3 DEF Attends, Continues
    <3> QED BY <3>1, <3>2, <3>3 DEF Continues
  <2> QED BY <2>1, <2>2 DEF Continues
<1> QED BY <1>2, <1>3, <1>4, <1>5, <1>6 DEF VideoInv, Attends

\* A write of a live task's row, committed or not.
LEMMA Written ==
  ASSUME VideoInv, NEW j \in Job, NEW status \in Ended \cup Live \cup {"none"}, NEW ref \in BOOLEAN,
         NEW cost \in BOOLEAN, NEW failure \in Failure,
         Update(j, status, ref, cost, failure) \/ UNCHANGED dbVars
  PROVE  /\ row' \in [Job -> Row] /\ debits' \in [Job -> Nat] /\ DebitedOnce'
         /\ \A k \in Job : k # j => row'[k] = row[k]
         /\ row'[j].status \in {status, row[j].status}
         /\ row[j].ref => row'[j].ref
         /\ row[j].cost => row'[j].cost
<1>1. CASE Update(j, status, ref, cost, failure)
  <2>1. row \in [Job -> Row] /\ debits \in [Job -> Nat] /\ DebitedOnce
    BY DEF VideoInv, JobsOK, Row
  <2> QED BY <1>1, <2>1, Updates
<1>2. CASE UNCHANGED dbVars
  <2>1. row' = row /\ debits' = debits
    BY <1>2 DEF dbVars
  <2> QED BY <2>1 DEF VideoInv, JobsOK, Row, DebitedOnce
<1> QED BY <1>1, <1>2

\* The types that a step of a task may disturb.
LEMMA TaskTypes ==
  ASSUME JobsOK, row' \in [Job -> Row], debits' \in [Job -> Nat], task' \in [Task -> Doing],
         paid' \in [Job -> Nat], known' \subseteq Job, pending' \in [Job -> Charge],
         active' \subseteq active, faults' \in 0..MaxFaults,
         UNCHANGED <<lockVars, up, spawned, stops>>
  PROVE  JobsOK'
BY DEF JobsOK, Row, Doing, Charge, lockVars

LEMMA Faulty ==
  ASSUME JobsOK, Answered \/ Raises
  PROVE  faults' \in 0..MaxFaults /\ faults' >= faults /\ stops' = stops
<1>1. faults \in 0..MaxFaults /\ MaxFaults \in Nat
  BY VideoAssumption DEF JobsOK
<1>2. CASE Answered
  BY <1>1, <1>2 DEF Answered, bounds
<1>3. CASE Raises
  BY <1>1, <1>3 DEF Raises
<1> QED BY <1>2, <1>3

LEMMA LiveRow ==
  ASSUME VideoInv, NEW t \in Task, task[t].at # "none"
  PROVE  spawned[t[1]] > 0 /\ row[t[1]].status # "none"
<1>1. t[1] \in Job /\ t[2] \in Nat /\ t[2] > 0 /\ spawned[t[1]] \in Nat
  BY TaskJob, VideoAssumption DEF VideoInv, JobsOK
<1> QED BY <1>1 DEF VideoInv, Counted

LEMMA BeginKeeps ==
  ASSUME VideoInv, NEW t \in Task, Begin(t)
  PROVE  VideoInv'
<1>1. t[1] \in Job /\ task[t] \in Doing /\ task \in [Task -> Doing] /\ task[t].at = "begin"
  BY TaskJob DEF VideoInv, JobsOK, Doing, Begin
<1>2. /\ UNCHANGED <<active, pending, lockVars, up, spawned, known, paid, stops>>
      /\ faults' \in 0..MaxFaults /\ faults' >= faults
  <2>1. UNCHANGED <<active, pending, lockVars, up, spawned, known, paid>> /\ (Answered \/ Raises)
    BY DEF Begin
  <2> QED BY <2>1, Faulty DEF VideoInv
<1>3. Update(t[1], "running", FALSE, FALSE, "none") \/ UNCHANGED dbVars
  BY DEF Begin
<1>4. /\ row' \in [Job -> Row] /\ debits' \in [Job -> Nat] /\ DebitedOnce'
      /\ \A k \in Job : k # t[1] => row'[k] = row[k]
      /\ row'[t[1]].status \in {"running", row[t[1]].status}
      /\ row[t[1]].ref => row'[t[1]].ref
      /\ row[t[1]].cost => row'[t[1]].cost
  <2>1. "running" \in Ended \cup Live \cup {"none"} /\ FALSE \in BOOLEAN /\ "none" \in Failure
    BY DEF Live, Failure
  <2> QED BY <1>1, <1>3, <2>1, Written
<1>5. /\ task' \in [Task -> Doing] /\ \A u \in Task : u # t => task'[u] = task[u]
      /\ task'[t].kind = task[t].kind
      /\ task'[t].at \in {"poll", "send", "finish"}
      /\ task'[t].at = "send" => task[t].kind # "resume"
      /\ task'[t].at # "finish" => task'[t].cost = task[t].cost
  <2>1. CASE Goes(t, [task[t] EXCEPT !.at = IF task[t].kind = "resume" THEN "poll" ELSE "send"])
    <3> DEFINE what == [task[t] EXCEPT !.at = IF task[t].kind = "resume" THEN "poll" ELSE "send"]
    <3>1. /\ what \in Doing /\ what.kind = task[t].kind /\ what.cost = task[t].cost
          /\ what.at \in {"poll", "send"} /\ (what.at = "send" => task[t].kind # "resume")
      BY <1>1 DEF Doing
    <3> HIDE DEF what
    <3> QED BY <1>1, <2>1, <3>1, GoesOn DEF what
  <2>2. CASE Ends(t, "failed", FALSE, "gateway")
    <3>1. "failed" \in Ended /\ "gateway" \in Failure
      BY DEF Ended, Failure
    <3> QED BY <1>1, <2>2, <3>1, Ending
  <2> QED BY <2>1, <2>2 DEF Begin
<1>6. JobsOK'
  BY <1>2, <1>4, <1>5, TaskTypes DEF VideoInv, JobsOK, Charge
<1>7. Attends(t)
  <2>1. row[t[1]].status # "none"
    BY <1>1, LiveRow DEF VideoInv
  <2> QED BY <1>1, <1>2, <1>4, <1>5, <1>6, <2>1 DEF Attends
<1>8. Continues(t)
  <2>1. ~task[t].cost
    BY <1>1 DEF VideoInv, Paying
  <2>2. "running" \notin Ended
    BY DEF Ended
  <2> QED BY <1>1, <1>2, <1>4, <1>5, <2>1, <2>2 DEF Continues
<1> QED BY <1>7, <1>8, ContinuesKeeps

\* A task whose step writes no row.
LEMMA Unwritten ==
  ASSUME VideoInv, UNCHANGED dbVars
  PROVE  /\ row' = row /\ row' \in [Job -> Row] /\ debits' \in [Job -> Nat] /\ DebitedOnce'
BY DEF VideoInv, JobsOK, DebitedOnce, dbVars, Row

LEMMA SendKeeps ==
  ASSUME VideoInv, NEW t \in Task, Send(t)
  PROVE  VideoInv'
<1>1. t[1] \in Job /\ task[t] \in Doing /\ task \in [Task -> Doing] /\ task[t].at = "send"
  BY TaskJob DEF VideoInv, JobsOK, Doing, Send
<1>2. /\ UNCHANGED <<dbVars, active, pending, lockVars, up, spawned, known, bounds>>
      /\ paid' = [paid EXCEPT ![t[1]] = @ + 1]
  BY DEF Send
<1>3. row' = row /\ row' \in [Job -> Row] /\ debits' \in [Job -> Nat] /\ DebitedOnce'
  BY <1>2, Unwritten
<1>4. /\ task' \in [Task -> Doing] /\ \A u \in Task : u # t => task'[u] = task[u]
      /\ task'[t].kind = task[t].kind /\ task'[t].at = "sent" /\ task'[t].cost = task[t].cost
  <2> DEFINE what == [task[t] EXCEPT !.at = "sent"]
  <2>1. what \in Doing /\ what.kind = task[t].kind /\ what.at = "sent" /\ what.cost = task[t].cost
    BY <1>1 DEF Doing
  <2>2. Goes(t, what)
    BY DEF Send
  <2> HIDE DEF what
  <2> QED BY <1>1, <2>1, <2>2, GoesOn
<1>5. faults' = faults /\ faults \in 0..MaxFaults /\ stops' = stops
  BY <1>2 DEF bounds, VideoInv, JobsOK
<1>6. paid' \in [Job -> Nat]
  BY <1>1, <1>2 DEF VideoInv, JobsOK
<1>7. JobsOK'
  BY <1>2, <1>3, <1>4, <1>5, <1>6, TaskTypes DEF VideoInv, JobsOK, Charge
<1>8. Attends(t)
  <2>1. row[t[1]].status # "none"
    BY <1>1, LiveRow
  <2> QED BY <1>1, <1>2, <1>3, <1>4, <1>5, <1>7, <2>1, VideoAssumption DEF Attends
<1>9. Continues(t)
  <2>1. ~task[t].cost
    BY <1>1 DEF VideoInv, Paying
  <2> QED BY <1>1, <1>2, <1>3, <1>4, <2>1 DEF Continues
<1> QED BY <1>8, <1>9, ContinuesKeeps

\* Answer and Poll: the task goes to where its answer takes it.
LEMMA LearningKeeps ==
  ASSUME VideoInv, NEW t \in Task, task[t].at \in {"sent", "poll"}, NEW cost \in BOOLEAN,
         task[t].cost => cost, Learns(t, cost),
         UNCHANGED <<dbVars, active, pending, lockVars, up, spawned, paid, bounds>>,
         task' \in [Task -> Doing], \A u \in Task : u # t => task'[u] = task[u],
         task'[t].kind = task[t].kind, task'[t].at \in {"save", "finish"}, task'[t].cost = cost
  PROVE  VideoInv'
<1>1. t[1] \in Job /\ task[t].at # "none"
  BY TaskJob
<1>3. row' = row /\ row' \in [Job -> Row] /\ debits' \in [Job -> Nat] /\ DebitedOnce'
  BY Unwritten
<1>4. known' \in SUBSET Job /\ (known' = known \/ (known' = known \cup {t[1]} /\ cost))
  BY <1>1 DEF Learns, VideoInv, JobsOK
<1>5. faults' = faults /\ faults \in 0..MaxFaults /\ stops' = stops
  BY DEF bounds, VideoInv, JobsOK
<1>7. JobsOK'
  BY <1>3, <1>4, <1>5, TaskTypes DEF VideoInv, JobsOK, Charge
<1>8. Attends(t)
  <2>1. row[t[1]].status # "none"
    BY <1>1, LiveRow
  <2> QED BY <1>1, <1>3, <1>4, <1>5, <1>7, <2>1, VideoAssumption DEF Attends
<1>9. Continues(t)
  BY <1>1, <1>3, <1>4 DEF Continues
<1> QED BY <1>8, <1>9, ContinuesKeeps

LEMMA AnswerKeeps ==
  ASSUME VideoInv, NEW t \in Task, Answer(t)
  PROVE  VideoInv'
<1>1. task[t] \in Doing /\ task \in [Task -> Doing] /\ task[t].at = "sent"
  BY DEF VideoInv, JobsOK, Doing, Answer
<1>2. ~task[t].cost
  BY <1>1 DEF VideoInv, Paying
<1>3. PICK cost \in BOOLEAN :
        /\ Learns(t, cost)
        /\ \/ Goes(t, [task[t] EXCEPT !.at = "save", !.cost = cost])
           \/ Ends(t, "completed", cost, "none")
           \/ Ends(t, "failed", cost, "provider")
  BY DEF Answer
<1>4. /\ task' \in [Task -> Doing] /\ \A u \in Task : u # t => task'[u] = task[u]
      /\ task'[t].kind = task[t].kind /\ task'[t].at \in {"save", "finish"} /\ task'[t].cost = cost
  <2>1. CASE Goes(t, [task[t] EXCEPT !.at = "save", !.cost = cost])
    <3> DEFINE what == [task[t] EXCEPT !.at = "save", !.cost = cost]
    <3>1. what \in Doing /\ what.kind = task[t].kind /\ what.at = "save" /\ what.cost = cost
      BY <1>1 DEF Doing
    <3> HIDE DEF what
    <3> QED BY <1>1, <2>1, <3>1, GoesOn DEF what
  <2>2. ASSUME NEW status \in Ended, NEW failure \in Failure, Ends(t, status, cost, failure)
        PROVE  /\ task' \in [Task -> Doing] /\ \A u \in Task : u # t => task'[u] = task[u]
               /\ task'[t].kind = task[t].kind /\ task'[t].at = "finish" /\ task'[t].cost = cost
    BY <1>1, <2>2, Ending
  <2>3. {"completed", "failed"} \subseteq Ended /\ {"none", "provider"} \subseteq Failure
    BY DEF Ended, Failure
  <2> QED BY <1>3, <2>1, <2>2, <2>3
<1>5. UNCHANGED <<dbVars, active, pending, lockVars, up, spawned, paid, bounds>>
  BY DEF Answer
<1> QED BY <1>1, <1>2, <1>3, <1>4, <1>5, LearningKeeps

LEMMA PollKeeps ==
  ASSUME VideoInv, NEW t \in Task, Poll(t)
  PROVE  VideoInv'
<1>1. task[t] \in Doing /\ task \in [Task -> Doing] /\ task[t].at = "poll" /\ task[t].cost \in BOOLEAN
  BY DEF VideoInv, JobsOK, Doing, Poll
<1>2. PICK cost \in {task[t].cost, TRUE}, status \in Ended :
        /\ Learns(t, cost)
        /\ Ends(t, status, cost, IF status = "completed" THEN "none" ELSE "provider")
  BY DEF Poll
<1>3. cost \in BOOLEAN /\ (task[t].cost => cost)
  BY <1>1, <1>2
<1>4. /\ task' \in [Task -> Doing] /\ \A u \in Task : u # t => task'[u] = task[u]
      /\ task'[t].kind = task[t].kind /\ task'[t].at = "finish" /\ task'[t].cost = cost
  <2> DEFINE failure == IF status = "completed" THEN "none" ELSE "provider"
  <2>1. failure \in Failure
    BY DEF Failure
  <2>2. Ends(t, status, cost, failure)
    BY <1>2
  <2> HIDE DEF failure
  <2> QED BY <1>1, <1>3, <2>1, <2>2, Ending
<1>5. UNCHANGED <<dbVars, active, pending, lockVars, up, spawned, paid, bounds>>
  BY DEF Poll
<1> QED BY <1>1, <1>2, <1>3, <1>4, <1>5, LearningKeeps

LEMMA SaveKeeps ==
  ASSUME VideoInv, NEW t \in Task, Save(t)
  PROVE  VideoInv'
<1>1. /\ t[1] \in Job /\ task[t] \in Doing /\ task \in [Task -> Doing] /\ task[t].at = "save"
      /\ task[t].cost \in BOOLEAN
  BY TaskJob DEF VideoInv, JobsOK, Doing, Save
<1>2. /\ UNCHANGED <<active, pending, lockVars, up, spawned, known, paid, stops>>
      /\ faults' \in 0..MaxFaults /\ faults' >= faults
  <2>1. UNCHANGED <<active, pending, lockVars, up, spawned, known, paid>> /\ (Answered \/ Raises)
    BY DEF Save
  <2> QED BY <2>1, Faulty DEF VideoInv
<1>3. Update(t[1], row[t[1]].status, TRUE, FALSE, "none") \/ UNCHANGED dbVars
  BY DEF Save
<1>4. /\ row' \in [Job -> Row] /\ debits' \in [Job -> Nat] /\ DebitedOnce'
      /\ \A k \in Job : k # t[1] => row'[k] = row[k]
      /\ row'[t[1]].status = row[t[1]].status
      /\ row[t[1]].ref => row'[t[1]].ref
      /\ row[t[1]].cost => row'[t[1]].cost
  <2>1. row[t[1]].status \in Ended \cup Live \cup {"none"} /\ "none" \in Failure
    BY <1>1 DEF Failure, VideoInv, JobsOK
  <2>2. TRUE \in BOOLEAN /\ FALSE \in BOOLEAN
    OBVIOUS
  <2> QED BY <1>1, <1>3, <2>1, <2>2, Written
<1>5. /\ task' \in [Task -> Doing] /\ \A u \in Task : u # t => task'[u] = task[u]
      /\ task'[t].kind = task[t].kind /\ task'[t].at \in {"poll", "finish"}
      /\ task'[t].cost = task[t].cost
  <2>1. CASE Goes(t, [task[t] EXCEPT !.at = "poll"])
    <3> DEFINE what == [task[t] EXCEPT !.at = "poll"]
    <3>1. what \in Doing /\ what.kind = task[t].kind /\ what.at = "poll" /\ what.cost = task[t].cost
      BY <1>1 DEF Doing
    <3> HIDE DEF what
    <3> QED BY <1>1, <2>1, <3>1, GoesOn DEF what
  <2>2. CASE Ends(t, "failed", task[t].cost, "gateway")
    <3>1. "failed" \in Ended /\ "gateway" \in Failure
      BY DEF Ended, Failure
    <3> QED BY <1>1, <2>2, <3>1, Ending
  <2> QED BY <2>1, <2>2 DEF Save
<1>6. JobsOK'
  BY <1>2, <1>4, <1>5, TaskTypes DEF VideoInv, JobsOK, Charge
<1>7. Attends(t)
  <2>1. row[t[1]].status # "none"
    BY <1>1, LiveRow
  <2> QED BY <1>1, <1>2, <1>4, <1>5, <1>6, <2>1 DEF Attends
<1>8. Continues(t)
  BY <1>1, <1>2, <1>4, <1>5 DEF Continues
<1> QED BY <1>7, <1>8, ContinuesKeeps

\* The write of an ending, committed or not.
LEMMA EndWritten ==
  ASSUME VideoInv, NEW j \in Job, NEW status \in Ended, NEW cost \in BOOLEAN, NEW failure \in Failure,
         Update(j, status, FALSE, cost, failure) \/ UNCHANGED dbVars
  PROVE  /\ row' \in [Job -> Row] /\ debits' \in [Job -> Nat] /\ DebitedOnce'
         /\ \A k \in Job : k # j => row'[k] = row[k]
         /\ row'[j].status \in {status, row[j].status}
         /\ row[j].ref => row'[j].ref
         /\ row[j].cost => row'[j].cost
         /\ Update(j, status, FALSE, cost, failure) /\ cost => row'[j].cost
<1>1. row \in [Job -> Row] /\ debits \in [Job -> Nat] /\ DebitedOnce
  BY DEF VideoInv, JobsOK, Row
<1>2. status \in Ended \cup Live \cup {"none"} /\ FALSE \in BOOLEAN
  OBVIOUS
<1>3. CASE Update(j, status, FALSE, cost, failure)
  BY <1>1, <1>2, <1>3, Updates, ZenonT(60)
<1>4. CASE UNCHANGED dbVars /\ ~Update(j, status, FALSE, cost, failure)
  BY <1>4, Unwritten
<1> QED BY <1>3, <1>4

\* The charge that an ending leaves when it could not be recorded.
Charged(t) == [status |-> task[t].status, cost |-> task[t].cost, failure |-> task[t].failure]

\* A step after which the task is gone.
LEMMA GoneKeeps ==
  ASSUME VideoInv, NEW t \in Task, task[t].at # "none", Gone(t),
         UNCHANGED <<lockVars, up, spawned, known, paid>>,
         Outcome(t) \/ UNCHANGED dbVars,
         pending' = pending \/ pending' = [pending EXCEPT ![t[1]] = Charged(t)],
         up /\ task[t].cost => Outcome(t) \/ pending' = [pending EXCEPT ![t[1]] = Charged(t)],
         faults' \in 0..MaxFaults /\ faults' >= faults /\ stops' = stops
  PROVE  VideoInv'
<1>1. /\ t[1] \in Job /\ task[t] \in Doing /\ task \in [Task -> Doing] /\ pending \in [Job -> Charge]
      /\ task[t].status \in Ended /\ task[t].cost \in BOOLEAN /\ task[t].failure \in Failure
  BY TaskJob DEF VideoInv, JobsOK, Doing, Charge
<1>2. /\ row' \in [Job -> Row] /\ debits' \in [Job -> Nat] /\ DebitedOnce'
      /\ \A k \in Job : k # t[1] => row'[k] = row[k]
      /\ row'[t[1]].status \in {task[t].status, row[t[1]].status}
      /\ row[t[1]].ref => row'[t[1]].ref
      /\ row[t[1]].cost => row'[t[1]].cost
      /\ Outcome(t) /\ task[t].cost => row'[t[1]].cost
  BY <1>1, EndWritten, ZenonT(60) DEF Outcome
<1>3. task' \in [Task -> Doing] /\ task'[t] = NoTask /\ \A u \in Task : u # t => task'[u] = task[u]
  <2>1. NoTask \in Doing
    BY DEF NoTask, Doing, Kind, Ended, Failure
  <2>2. Goes(t, NoTask)
    BY DEF Gone
  <2> QED BY <1>1, <2>1, <2>2, GoesOn
<1>4. /\ pending' \in [Job -> Charge] /\ \A k \in Job : k # t[1] => pending'[k] = pending[k]
      /\ pending'[t[1]] \in {pending[t[1]], Charged(t)}
      /\ pending' = [pending EXCEPT ![t[1]] = Charged(t)] => pending'[t[1]] = Charged(t)
  <2>1. Charged(t) \in Charge
    BY <1>1 DEF Charged, Charge
  <2> QED BY <1>1, <2>1
<1>5. Charged(t).status = task[t].status /\ Charged(t).cost = task[t].cost
  BY DEF Charged
<1>6. JobsOK'
  BY <1>2, <1>3, <1>4, TaskTypes DEF VideoInv, JobsOK, Gone
<1>7. task'[t].at = "none"
  BY <1>3 DEF NoTask
<1>8. Attends(t)
  <2>1. row[t[1]].status # "none" /\ "none" \notin Ended
    BY LiveRow DEF Ended
  <2> QED BY <1>1, <1>2, <1>3, <1>4, <1>6, <1>7, <2>1 DEF Attends
<1>9. Counted' /\ Recovering' /\ Unattended'
  <2>1. pending'[t[1]] # NoCharge => pending'[t[1]].status \in Ended
    BY <1>1, <1>4, <1>5 DEF VideoInv, Counted
  <2> QED BY <1>8, <2>1, AttendsKeeps
<1>10. PaidOnce'
  BY DEF VideoInv, PaidOnce
<1>11. Paying'
  <2> SUFFICES ASSUME NEW u \in Task, task'[u].at # "none"
               PROVE  /\ task'[u].at = "send" => task'[u].kind # "resume"
                      /\ task'[u].kind # "resume" => u[2] = 1
                      /\ task'[u].at \in {"begin", "send"} /\ task'[u].kind # "resume"
                           => paid'[u[1]] = 0
                      /\ task'[u].at \in {"begin", "send", "sent"} => ~task'[u].cost
    BY DEF Paying
  <2>1. task'[u] = task[u]
    BY <1>3, <1>7
  <2> QED BY <2>1 DEF VideoInv, Paying
<1>12. AttendedOnce'
  <2> SUFFICES ASSUME NEW j \in Job, spawned'[j] <= 1
               PROVE  /\ \A u \in Task : u[1] = j /\ task'[u].at # "none" =>
                           /\ row'[j].status \notin Ended /\ pending'[j] = NoCharge
                           /\ up' /\ task'[u].at \in {"begin", "send", "sent"} => j \notin known'
                      /\ pending'[j] # NoCharge /\ row'[j].status \in Ended
                           => row'[j].status = pending'[j].status
    BY DEF AttendedOnce
  <2>0. /\ \A u \in Task : u[1] = j /\ task[u].at # "none" =>
             /\ row[j].status \notin Ended /\ pending[j] = NoCharge
             /\ up /\ task[u].at \in {"begin", "send", "sent"} => j \notin known
        /\ pending[j] # NoCharge /\ row[j].status \in Ended => row[j].status = pending[j].status
    BY DEF VideoInv, AttendedOnce
  <2>1. CASE j = t[1]
    <3>1. \A u \in Task : ~(u[1] = j /\ task'[u].at # "none")
      BY <2>1, <1>3, <1>7, Alone
    <3>2. row[j].status \notin Ended /\ pending[j] = NoCharge
      BY <2>0, <2>1
    <3> QED BY <2>1, <3>1, <3>2, <1>2, <1>4, <1>5
  <2>2. CASE j # t[1]
    BY <2>0, <2>2, <1>2, <1>3, <1>4, <1>7
  <2> QED BY <2>1, <2>2
<1>13. CostKept'
  <2> SUFFICES ASSUME up', NEW j \in known', spawned'[j] <= 1
               PROVE  \/ row'[j].cost \/ pending'[j].cost
                      \/ \E u \in Task : u[1] = j /\ task'[u].at # "none" /\ task'[u].cost
    BY DEF CostKept
  <2>0. j \in Job
    BY DEF VideoInv, JobsOK
  <2>1. \/ row[j].cost \/ pending[j].cost
        \/ \E u \in Task : u[1] = j /\ task[u].at # "none" /\ task[u].cost
    BY DEF VideoInv, CostKept
  <2>2. CASE j = t[1]
    <3>1. pending[j] = NoCharge /\ ~NoCharge.cost
      BY <2>2, <2>0 DEF VideoInv, AttendedOnce, NoCharge
    <3>2. CASE row[j].cost
      BY <3>2, <2>2, <1>2
    <3>3. CASE \E u \in Task : u[1] = j /\ task[u].at # "none" /\ task[u].cost
      <4>1. task[t].cost
        BY <3>3, <2>2, Alone
      <4> QED BY <4>1, <2>2, <1>2, <1>4, <1>5
    <3> QED BY <2>1, <3>1, <3>2, <3>3
  <2>3. CASE j # t[1]
    <3>1. row'[j] = row[j] /\ pending'[j] = pending[j]
      BY <2>0, <2>3, <1>2, <1>4
    <3>2. ASSUME NEW u \in Task, u[1] = j PROVE task'[u] = task[u]
      BY <3>2, <2>3, <1>3
    <3> QED BY <2>1, <3>1, <3>2
  <2> QED BY <2>2, <2>3
<1> QED BY <1>6, <1>8, <1>9, <1>10, <1>11, <1>12, <1>13 DEF VideoInv, Attends

LEMMA FinishKeeps ==
  ASSUME VideoInv, NEW t \in Task, Finish(t)
  PROVE  VideoInv'
<1>1. task[t].at # "none" /\ Gone(t) /\ UNCHANGED <<lockVars, up, spawned, known, paid>>
  BY DEF Finish
<1>2. CASE Outcome(t) /\ Answered /\ UNCHANGED pending
  <2>1. faults' \in 0..MaxFaults /\ faults' >= faults /\ stops' = stops
    BY <1>2, Faulty DEF VideoInv
  <2> QED BY <1>1, <1>2, <2>1, GoneKeeps
<1>3. CASE /\ Raises /\ (Outcome(t) \/ UNCHANGED dbVars)
           /\ pending' = [pending EXCEPT ![t[1]] = Charged(t)]
  <2>1. faults' \in 0..MaxFaults /\ faults' >= faults /\ stops' = stops
    BY <1>3, Faulty DEF VideoInv
  <2> QED BY <1>1, <1>3, <2>1, GoneKeeps
<1> QED BY <1>2, <1>3 DEF Finish, Charged

LEMMA CancelKeeps ==
  ASSUME VideoInv, NEW t \in Task, Cancel(t)
  PROVE  VideoInv'
<1>1. /\ ~up /\ task[t].at # "none"
      /\ UNCHANGED <<pending, lockVars, up, spawned, known, paid, bounds>>
  BY DEF Cancel
<1>2. faults' \in 0..MaxFaults /\ faults' >= faults /\ stops' = stops
  BY <1>1, VideoAssumption DEF bounds, VideoInv, JobsOK
<1>3. CASE Gone(t) /\ (Outcome(t) \/ UNCHANGED dbVars)
  BY <1>1, <1>2, <1>3, GoneKeeps
<1>4. CASE /\ Ends(t, "failed", task[t].cost, "restart") /\ UNCHANGED active
           /\ \/ UNCHANGED dbVars
              \/ Update(t[1], "running", FALSE, FALSE, "none")
              \/ Update(t[1], row[t[1]].status, TRUE, FALSE, "none")
  <2>1. /\ t[1] \in Job /\ task[t] \in Doing /\ task \in [Task -> Doing] /\ task[t].cost \in BOOLEAN
        /\ row[t[1]].status \in Ended \cup Live \cup {"none"} /\ "running" \in Live \ Ended
        /\ FALSE \in BOOLEAN /\ TRUE \in BOOLEAN /\ "none" \in Failure
    BY TaskJob DEF VideoInv, JobsOK, Doing, Live, Ended, Failure
  <2>2. /\ row' \in [Job -> Row] /\ debits' \in [Job -> Nat] /\ DebitedOnce'
        /\ \A k \in Job : k # t[1] => row'[k] = row[k]
        /\ row'[t[1]].status \in {"running", row[t[1]].status}
        /\ row[t[1]].ref => row'[t[1]].ref
        /\ row[t[1]].cost => row'[t[1]].cost
    <3>1. CASE Update(t[1], "running", FALSE, FALSE, "none") \/ UNCHANGED dbVars
      BY <2>1, <3>1, Written
    <3>2. CASE Update(t[1], row[t[1]].status, TRUE, FALSE, "none")
      BY <2>1, <3>2, Written
    <3> QED BY <1>4, <3>1, <3>2
  <2>3. /\ task' \in [Task -> Doing] /\ \A u \in Task : u # t => task'[u] = task[u]
        /\ task'[t].kind = task[t].kind /\ task'[t].at = "finish" /\ task'[t].cost = task[t].cost
    <3>1. "failed" \in Ended /\ "restart" \in Failure
      BY DEF Ended, Failure
    <3> QED BY <2>1, <1>4, <3>1, Ending
  <2>4. JobsOK'
    BY <1>1, <1>2, <1>4, <2>2, <2>3, TaskTypes DEF VideoInv, JobsOK, Charge
  <2>5. Attends(t)
    <3>1. row[t[1]].status # "none"
      BY <1>1, LiveRow
    <3> QED BY <1>1, <1>2, <2>2, <2>3, <2>4, <3>1 DEF Attends
  <2>6. Continues(t)
    BY <1>1, <2>1, <2>2, <2>3 DEF Continues
  <2> QED BY <2>5, <2>6, ContinuesKeeps
<1> QED BY <1>3, <1>4 DEF Cancel

-----------------------------------------------------------------------------
(* Requests and the charges they retry.                                    *)

\* A step that writes one row, which no task attends if it was attended once.
LEMMA WriteKeeps ==
  ASSUME VideoInv, NEW j \in Job, NEW status \in Ended, NEW cost \in BOOLEAN, NEW failure \in Failure,
         Update(j, status, FALSE, cost, failure) \/ UNCHANGED dbVars,
         UNCHANGED <<task, active, up, spawned, known, paid>>, pending' \in [Job -> Charge],
         \A k \in Job : k # j => pending'[k] = pending[k],
         pending'[j] \in {pending[j], NoCharge},
         pending'[j] # pending[j] => Update(j, status, FALSE, cost, failure) /\ cost = pending[j].cost,
         spawned[j] <= 1 => \A t \in Task : t[1] = j => task[t].at = "none",
         spawned[j] <= 1 /\ pending[j] # NoCharge => status = pending[j].status,
         JobsOK', Recovering', rows' \subseteq rows, recovered' = recovered,
         spawned[j] = 0 => <<j, FALSE>> \notin rows' /\ <<j, TRUE>> \notin rows'
  PROVE  VideoInv'
<1>1. /\ DebitedOnce' /\ \A k \in Job : k # j => row'[k] = row[k]
      /\ row'[j].status \in {status, row[j].status}
      /\ row[j].ref => row'[j].ref
      /\ row[j].cost => row'[j].cost
      /\ Update(j, status, FALSE, cost, failure) /\ cost => row'[j].cost
  BY EndWritten, ZenonT(60)
<1>2. status # "none"
  BY DEF Ended
<1>3. Counted'
  BY <1>1, <1>2 DEF VideoInv, Counted
<1>4. PaidOnce' /\ Paying'
  BY DEF VideoInv, PaidOnce, Paying
<1>5. Unattended'
  <2> SUFFICES ASSUME NEW k \in Job
               PROVE  /\ ~recovered /\ spawned[k] > 0 => row'[k].ref
                      /\ <<k, FALSE>> \in rows' => spawned[k] = 0
                      /\ <<k, TRUE>> \in rows' => row'[k].ref /\ <<k, FALSE>> \notin rows'
                      /\ \A ref \in BOOLEAN : <<k, ref>> \in rows' /\ spawned[k] = 0
                                                => row'[k].status \in Live
    BY DEF Unattended
  <2>1. /\ ~recovered /\ spawned[k] > 0 => row[k].ref
        /\ <<k, FALSE>> \in rows => spawned[k] = 0
        /\ <<k, TRUE>> \in rows => row[k].ref /\ <<k, FALSE>> \notin rows
        /\ \A ref \in BOOLEAN : <<k, ref>> \in rows /\ spawned[k] = 0 => row[k].status \in Live
    BY DEF VideoInv, Unattended
  <2>2. CASE k = j
    BY <2>1, <2>2, <1>1
  <2>3. CASE k # j
    BY <2>1, <2>3, <1>1
  <2> QED BY <2>2, <2>3
<1>6. AttendedOnce'
  BY <1>1 DEF VideoInv, AttendedOnce
<1>7. CostKept'
  <2> SUFFICES ASSUME up, NEW k \in known, spawned[k] <= 1
               PROVE  \/ row'[k].cost \/ pending'[k].cost
                      \/ \E t \in Task : t[1] = k /\ task[t].at # "none" /\ task[t].cost
    BY DEF CostKept
  <2>1. k \in Job
    BY DEF VideoInv, JobsOK
  <2>2. \/ row[k].cost \/ pending[k].cost
        \/ \E t \in Task : t[1] = k /\ task[t].at # "none" /\ task[t].cost
    BY DEF VideoInv, CostKept
  <2>3. CASE k = j
    BY <2>2, <2>3, <1>1
  <2>4. CASE k # j
    BY <2>1, <2>2, <2>4, <1>1
  <2> QED BY <2>3, <2>4
<1> QED BY <1>1, <1>3, <1>4, <1>5, <1>6, <1>7 DEF VideoInv

\* A step that leaves the jobs as they are.
LEMMA SameKeeps ==
  ASSUME VideoInv,
         row' = row /\ debits' = debits /\ task' = task /\ active' = active /\ pending' = pending,
         recovered' = recovered /\ rows' = rows /\ recovering' = recovering /\ up' = up,
         spawned' = spawned /\ known' = known /\ paid' = paid /\ faults' = faults /\ stops' = stops
  PROVE  VideoInv'
<1>1. JobsOK'
  BY DEF VideoInv, JobsOK
<1>2. DebitedOnce' /\ PaidOnce' /\ CostKept' /\ Counted' /\ Paying'
  BY DEF VideoInv, DebitedOnce, PaidOnce, CostKept, Counted, Paying
<1>3. Recovering' /\ Unattended' /\ AttendedOnce'
  BY DEF VideoInv, Recovering, Unattended, AttendedOnce
<1> QED BY <1>1, <1>2, <1>3 DEF VideoInv

LEMMA FlushReadKeeps ==
  ASSUME VideoInv, NEW r \in Reader, FlushRead(r)
  PROVE  VideoInv'
<1>1. /\ row' = row /\ debits' = debits /\ task' = task /\ active' = active /\ pending' = pending
      /\ recovered' = recovered /\ rows' = rows /\ recovering' = recovering /\ up' = up
      /\ spawned' = spawned /\ known' = known /\ paid' = paid /\ faults' = faults /\ stops' = stops
  BY DEF FlushRead, dbVars, lockVars, bounds
<1> QED BY <1>1, SameKeeps

\* What a request retries is an ending of its job; another request's retry of
\* it, before or after, is the same one if the job was attended once.
LEMMA FlushWriteKeeps ==
  ASSUME VideoInv, CopyInv, NEW r \in Reader, NEW j \in Job, FlushWrite(r, j)
  PROVE  VideoInv'
<1> DEFINE status == copied[r][j].status
           cost == copied[r][j].cost
           failure == copied[r][j].failure
<1>1. /\ copied[r][j] # NoCharge /\ (Answered \/ Raises)
      /\ UNCHANGED <<task, active, pending, lockVars, up, spawned, known, paid>>
      /\ Update(j, status, FALSE, cost, failure) \/ UNCHANGED dbVars
  BY DEF FlushWrite, Retry
<1>2. copied[r][j] \in Charge /\ status \in Ended /\ spawned[j] > 0
  BY <1>1 DEF CopyInv
<1>3. cost \in BOOLEAN /\ failure \in Failure /\ status \in Ended \cup Live \cup {"none"}
  BY <1>2 DEF Charge
<1>4. pending \in [Job -> Charge] /\ pending' = pending
  BY <1>1 DEF VideoInv, JobsOK, Charge
<1>5. faults' \in 0..MaxFaults /\ faults' >= faults /\ stops' = stops
  BY <1>1, Faulty DEF VideoInv
<1>6. spawned[j] <= 1 => /\ \A t \in Task : t[1] = j => task[t].at = "none"
                         /\ pending[j] # NoCharge => status = pending[j].status
  BY <1>1 DEF CopyInv
<1> HIDE DEF status, cost, failure
<1>7. JobsOK'
  <2>1. row' \in [Job -> Row] /\ debits' \in [Job -> Nat]
    BY <1>1, <1>3, FALSE \in BOOLEAN, Written
  <2>2. task \in [Task -> Doing] /\ paid \in [Job -> Nat] /\ known \subseteq Job
    BY DEF VideoInv, JobsOK, Doing
  <2> QED BY <1>1, <1>4, <1>5, <2>1, <2>2, TaskTypes DEF VideoInv
<1>8. Recovering'
  BY <1>1, <1>5, RecoveringStays DEF VideoInv
<1>9. rows' = rows /\ recovered' = recovered
  BY <1>1 DEF lockVars
<1>10. /\ UNCHANGED <<task, active, up, spawned, known, paid>>
       /\ spawned[j] = 0 => <<j, FALSE>> \notin rows' /\ <<j, TRUE>> \notin rows'
       /\ pending' \in [Job -> Charge] /\ \A k \in Job : k # j => pending'[k] = pending[k]
       /\ pending'[j] \in {pending[j], NoCharge}
       /\ pending'[j] # pending[j] => Update(j, status, FALSE, cost, failure) /\ cost = pending[j].cost
       /\ rows' \subseteq rows
  <2>1. spawned[j] # 0
    BY <1>2
  <2> QED BY <1>1, <1>4, <1>9, <2>1
<1> QED BY <1>1, <1>2, <1>3, <1>6, <1>7, <1>8, <1>9, <1>10, WriteKeeps, ZenonT(60)

\* A kept charge is deleted when its cost is in the row.
LEMMA FlushForgetKeeps ==
  ASSUME VideoInv, CopyInv, NEW r \in Reader, NEW j \in Job, FlushForget(r, j)
  PROVE  VideoInv'
<1>1. /\ row' = row /\ debits' = debits /\ task' = task /\ active' = active
      /\ recovered' = recovered /\ rows' = rows /\ recovering' = recovering /\ up' = up
      /\ spawned' = spawned /\ known' = known /\ paid' = paid /\ faults' = faults /\ stops' = stops
      /\ <<r, j>> \in saved /\ pending' = [pending EXCEPT ![j] = NoCharge]
  BY DEF FlushForget, dbVars, lockVars, bounds
<1>2. NoCharge \in Charge /\ ~NoCharge.cost
  BY DEF NoCharge, Charge, Failure
<1>3. /\ pending' \in [Job -> Charge] /\ pending'[j] = NoCharge
      /\ \A k \in Job : k # j => pending'[k] = pending[k]
  BY <1>1, <1>2 DEF VideoInv, JobsOK, Charge
<1>4. spawned[j] <= 1 => (pending[j].cost => row[j].cost)
  BY <1>1, <1>2 DEF CopyInv
<1>5. JobsOK'
  BY <1>1, <1>3 DEF VideoInv, JobsOK, Charge
<1>6. DebitedOnce' /\ PaidOnce' /\ Recovering' /\ Paying' /\ Unattended'
  BY <1>1 DEF VideoInv, DebitedOnce, PaidOnce, Recovering, Paying, Unattended
<1>7. CostKept'
  BY <1>1, <1>3, <1>4 DEF VideoInv, CostKept
<1>8. Counted'
  BY <1>1, <1>3 DEF VideoInv, Counted
<1>9. AttendedOnce'
  BY <1>1, <1>3 DEF VideoInv, AttendedOnce
<1> QED BY <1>5, <1>6, <1>7, <1>8, <1>9 DEF VideoInv

-----------------------------------------------------------------------------
(* Recovery, and new jobs.                                                 *)

LEMMA RecoverBeginKeeps ==
  ASSUME VideoInv, RecoverBegin
  PROVE  VideoInv'
<1>1. /\ up /\ ~recovered /\ ~recovering /\ recovering'
      /\ rows' = {<<j, row[j].ref>> : j \in {k \in Job : row[k].status \in Live}}
      /\ row' = row /\ debits' = debits /\ task' = task /\ active' = active /\ pending' = pending
      /\ recovered' = recovered /\ up' = up /\ spawned' = spawned /\ known' = known /\ paid' = paid
      /\ faults' = faults /\ stops' = stops
  BY DEF RecoverBegin, dbVars, bounds
<1>2. \A j \in Job : row[j].ref \in BOOLEAN
  BY DEF VideoInv, JobsOK
<1>3. \A j \in Job, ref \in BOOLEAN : <<j, ref>> \in rows' => ref = row[j].ref /\ row[j].status \in Live
  BY <1>1
<1>4. JobsOK'
  <2>1. recovering' \in BOOLEAN /\ rows' \subseteq Job \X BOOLEAN
    BY <1>1, <1>2 DEF RecoverBegin
  <2> QED BY <1>1, <2>1 DEF VideoInv, JobsOK
<1>5. DebitedOnce' /\ PaidOnce' /\ CostKept' /\ Counted' /\ Paying' /\ AttendedOnce'
  BY <1>1 DEF VideoInv, DebitedOnce, PaidOnce, CostKept, Counted, Paying, AttendedOnce
<1>6. Recovering'
  BY <1>1 DEF VideoInv, Recovering
<1>7. Unattended'
  <2> SUFFICES ASSUME NEW j \in Job
               PROVE  /\ ~recovered /\ spawned[j] > 0 => row[j].ref
                      /\ <<j, FALSE>> \in rows' => spawned[j] = 0
                      /\ <<j, TRUE>> \in rows' => row[j].ref /\ <<j, FALSE>> \notin rows'
                      /\ \A ref \in BOOLEAN : <<j, ref>> \in rows' /\ spawned[j] = 0
                                                => row[j].status \in Live
    BY <1>1 DEF Unattended
  <2>1. ~recovered /\ spawned[j] > 0 => row[j].ref
    BY DEF VideoInv, Unattended
  <2>2. spawned[j] \in Nat
    BY VideoAssumption DEF VideoInv, JobsOK
  <2>3. <<j, FALSE>> \in rows' => spawned[j] = 0
    <3> SUFFICES ASSUME <<j, FALSE>> \in rows' PROVE spawned[j] = 0
      OBVIOUS
    <3>1. row[j].ref = FALSE
      BY <1>3
    <3>2. ~(spawned[j] > 0)
      BY <1>1, <2>1, <3>1
    <3> QED BY <2>2, <3>2
  <2>4. <<j, TRUE>> \in rows' => row[j].ref /\ <<j, FALSE>> \notin rows'
    <3> SUFFICES ASSUME <<j, TRUE>> \in rows' PROVE row[j].ref /\ <<j, FALSE>> \notin rows'
      OBVIOUS
    <3>1. row[j].ref = TRUE /\ (<<j, FALSE>> \in rows' => row[j].ref = FALSE)
      BY <1>3
    <3> QED BY <3>1
  <2> QED BY <1>3, <2>1, <2>3, <2>4
<1> QED BY <1>4, <1>5, <1>6, <1>7 DEF VideoInv

\* A job that no task has attended has nothing.
LEMMA Fresh ==
  ASSUME VideoInv, NEW j \in Job, spawned[j] = 0
  PROVE  j \notin known /\ pending[j] = NoCharge /\ \A t \in Task : t[1] = j => task[t].at = "none"
<1>1. j \notin known /\ pending[j] = NoCharge
  BY DEF VideoInv, Counted
<1>2. ASSUME NEW t \in Task, t[1] = j PROVE task[t].at = "none"
  <2>1. t[2] \in Nat /\ t[2] > 0
    BY TaskJob
  <2>2. task[t].at # "none" => t[2] <= 0
    BY <1>2 DEF VideoInv, Counted
  <2> QED BY <2>1, <2>2
<1> QED BY <1>1, <1>2

LEMMA SpawnKeeps ==
  ASSUME VideoInv, NEW j \in Job, NEW kind \in Kind, Spawn(j, kind), spawned[j] <= faults,
         row' \in [Job -> Row], debits' \in [Job -> Nat], DebitedOnce',
         \A k \in Job : k # j => row'[k] = row[k],
         row'[j].status # "none", ~recovered => row'[j].ref, spawned[j] = 0 => row'[j].status \in Live,
         kind # "resume" => spawned[j] = 0 /\ paid[j] = 0,
         recovered \/ recovering, rows' \subseteq rows, <<j, TRUE>> \notin rows',
         <<j, FALSE>> \notin rows',
         UNCHANGED <<pending, recovered, recovering, up, known, paid, bounds>>
  PROVE  VideoInv'
<1> DEFINE t == <<j, spawned[j] + 1>>
<1>1. /\ spawned \in [Job -> 0..(MaxFaults + 1)] /\ spawned[j] \in Nat /\ faults \in 0..MaxFaults
      /\ MaxFaults \in Nat /\ faults' = faults /\ stops' = stops
      /\ \A k \in Job : spawned[k] \in Nat
  BY VideoAssumption DEF VideoInv, JobsOK, bounds
<1>2. t \in Task /\ t[1] = j /\ t[2] = spawned[j] + 1
  BY <1>1 DEF Task, Copy
<1>3. /\ spawned' \in [Job -> 0..(MaxFaults + 1)] /\ spawned'[j] = spawned[j] + 1
      /\ \A k \in Job : k # j => spawned'[k] = spawned[k]
  <2>1. spawned' = [spawned EXCEPT ![j] = spawned[j] + 1]
    BY DEF Spawn
  <2>2. spawned[j] + 1 \in 0..(MaxFaults + 1)
    BY <1>1
  <2> QED BY <1>1, <2>1, <2>2
<1>4. /\ Begun(kind) \in Doing /\ Begun(kind).at = "begin" /\ Begun(kind).kind = kind
      /\ ~Begun(kind).cost
  BY DEF Begun, NoTask, Doing, Kind, Ended, Failure
<1>5. task' \in [Task -> Doing] /\ task'[t] = Begun(kind) /\ \A u \in Task : u # t => task'[u] = task[u]
  <2>1. task \in [Task -> Doing] /\ Goes(t, Begun(kind))
    BY DEF VideoInv, JobsOK, Doing, Spawn
  <2> HIDE DEF t
  <2> QED BY <1>2, <1>4, <2>1, GoesOn
<1>6. ASSUME NEW u \in Task, task[u].at # "none" PROVE u # t
  <2>1. u[2] <= spawned[u[1]]
    BY <1>6 DEF VideoInv, Counted
  <2>2. t[2] > spawned[t[1]]
    BY <1>1, <1>2
  <2>3. t[2] \in Nat /\ spawned[t[1]] \in Nat
    BY <1>1, <1>2
  <2> QED BY <2>1, <2>2, <2>3
<1> HIDE DEF t
<1>7. JobsOK'
  <2>1. active' \subseteq Job
    BY DEF VideoInv, JobsOK, Spawn
  <2> QED BY <1>1, <1>3, <1>5, <2>1 DEF VideoInv, JobsOK, Row, Doing
<1>8. Counted'
  <2>1. ASSUME NEW u \in Task, task'[u].at # "none" PROVE u[2] <= spawned'[u[1]]
    <3>1. CASE u = t
      BY <3>1, <1>1, <1>2, <1>3
    <3>2. CASE u # t
      <4>1. u[1] \in Job /\ u[2] \in Nat /\ u[2] <= spawned[u[1]]
        BY <3>2, <2>1, <1>5, TaskJob DEF VideoInv, Counted
      <4>2. spawned[u[1]] \in Nat /\ spawned'[u[1]] >= spawned[u[1]] /\ spawned'[u[1]] \in Nat
        BY <4>1, <1>1, <1>3
      <4> QED BY <4>1, <4>2
    <3> QED BY <3>1, <3>2
  <2>2. ASSUME NEW k \in Job
        PROVE  /\ spawned'[k] > 0 \/ paid'[k] > 0 => row'[k].status # "none"
               /\ k \in known' => spawned'[k] > 0
               /\ pending'[k] # NoCharge => spawned'[k] > 0 /\ pending'[k].status \in Ended
    <3>1. spawned'[k] = spawned[k] \/ (k = j /\ spawned'[k] > 0)
      BY <1>1, <1>3
    <3> QED BY <3>1 DEF VideoInv, Counted
  <2> QED BY <2>1, <2>2 DEF Counted
<1>9. Recovering'
  <2>1. (recovering' => up' /\ ~recovered') /\ (rows' # {} => recovering')
    BY DEF VideoInv, Recovering
  <2>2. ASSUME NEW k \in Job
        PROVE  /\ spawned'[k] <= faults' + 1
               /\ ~recovered' /\ ~recovering' => spawned'[k] <= faults'
               /\ <<k, TRUE>> \in rows' => spawned'[k] <= faults'
    <3>1. CASE k = j
      BY <3>1, <1>1, <1>3
    <3>2. CASE k # j
      <4>1. /\ spawned[k] <= faults + 1 /\ (<<k, TRUE>> \in rows => spawned[k] <= faults)
        BY DEF VideoInv, Recovering
      <4> QED BY <3>2, <4>1, <1>1, <1>3
    <3> QED BY <3>1, <3>2
  <2> QED BY <2>1, <2>2 DEF Recovering
<1>10. PaidOnce'
  BY DEF VideoInv, PaidOnce
<1>11. Paying'
  <2> SUFFICES ASSUME NEW u \in Task
               PROVE  /\ task'[u].at = "send" => task'[u].kind # "resume"
                      /\ task'[u].at # "none" /\ task'[u].kind # "resume" => u[2] = 1
                      /\ task'[u].at \in {"begin", "send"} /\ task'[u].kind # "resume"
                           => paid'[u[1]] = 0
                      /\ task'[u].at \in {"begin", "send", "sent"} => ~task'[u].cost
    BY DEF Paying
  <2>1. CASE u = t
    BY <2>1, <1>1, <1>2, <1>4, <1>5
  <2>2. CASE u # t
    BY <2>2, <1>5 DEF VideoInv, Paying
  <2> QED BY <2>1, <2>2
<1>12. Unattended'
  <2> SUFFICES ASSUME NEW k \in Job
               PROVE  /\ ~recovered /\ spawned'[k] > 0 => row'[k].ref
                      /\ <<k, FALSE>> \in rows' => spawned'[k] = 0
                      /\ <<k, TRUE>> \in rows' => row'[k].ref /\ <<k, FALSE>> \notin rows'
                      /\ \A ref \in BOOLEAN : <<k, ref>> \in rows' /\ spawned'[k] = 0
                                                => row'[k].status \in Live
    BY DEF Unattended
  <2>1. CASE k = j
    BY <2>1
  <2>2. CASE k # j
    <3>1. row'[k] = row[k] /\ spawned'[k] = spawned[k]
      BY <2>2, <1>3
    <3>2. /\ ~recovered /\ spawned[k] > 0 => row[k].ref
          /\ <<k, FALSE>> \in rows => spawned[k] = 0
          /\ <<k, TRUE>> \in rows => row[k].ref /\ <<k, FALSE>> \notin rows
          /\ \A ref \in BOOLEAN : <<k, ref>> \in rows /\ spawned[k] = 0 => row[k].status \in Live
      BY DEF VideoInv, Unattended
    <3> QED BY <3>1, <3>2
  <2> QED BY <2>1, <2>2
<1>13. ASSUME spawned'[j] <= 1
       PROVE  /\ row'[j].status \notin Ended /\ pending[j] = NoCharge /\ j \notin known
              /\ \A u \in Task : u[1] = j /\ task'[u].at # "none" => u = t
  <2>1. spawned[j] = 0
    BY <1>1, <1>3, <1>13
  <2>2. row'[j].status \notin Ended
    BY <2>1 DEF Live, Ended
  <2> QED BY <2>1, <2>2, <1>5, Fresh
<1>14. AttendedOnce'
  <2> SUFFICES ASSUME NEW k \in Job, spawned'[k] <= 1
               PROVE  /\ \A u \in Task : u[1] = k /\ task'[u].at # "none" =>
                           /\ row'[k].status \notin Ended /\ pending'[k] = NoCharge
                           /\ up' /\ task'[u].at \in {"begin", "send", "sent"} => k \notin known'
                      /\ pending'[k] # NoCharge /\ row'[k].status \in Ended
                           => row'[k].status = pending'[k].status
    BY DEF AttendedOnce
  <2>1. CASE k = j
    BY <2>1, <1>13
  <2>2. CASE k # j
    <3>1. row'[k] = row[k] /\ spawned'[k] = spawned[k]
      BY <2>2, <1>3
    <3>2. ASSUME NEW u \in Task, u[1] = k PROVE task'[u] = task[u]
      BY <2>2, <3>2, <1>2, <1>5
    <3> QED BY <3>1, <3>2 DEF VideoInv, AttendedOnce
  <2> QED BY <2>1, <2>2
<1>15. CostKept'
  <2> SUFFICES ASSUME up', NEW k \in known', spawned'[k] <= 1
               PROVE  \/ row'[k].cost \/ pending'[k].cost
                      \/ \E u \in Task : u[1] = k /\ task'[u].at # "none" /\ task'[u].cost
    BY DEF CostKept
  <2>1. k \in Job /\ k # j
    BY <1>13 DEF VideoInv, JobsOK
  <2>2. row'[k] = row[k] /\ spawned'[k] = spawned[k]
    BY <2>1, <1>3
  <2>3. ASSUME NEW u \in Task, u[1] = k PROVE task'[u] = task[u]
    BY <2>1, <2>3, <1>2, <1>5
  <2> QED BY <2>2, <2>3 DEF VideoInv, CostKept
<1> QED BY <1>7, <1>8, <1>9, <1>10, <1>11, <1>12, <1>14, <1>15 DEF VideoInv

LEMMA ResumeKeeps ==
  ASSUME VideoInv, NEW j \in Job, Resume(j)
  PROVE  VideoInv'
<1>1. /\ recovering /\ <<j, TRUE>> \in rows /\ Spawn(j, "resume") /\ rows' = rows \ {<<j, TRUE>>}
      /\ UNCHANGED <<dbVars, pending, recovered, recovering, up, known, paid, bounds>>
  BY DEF Resume
<1>2. row' = row /\ row' \in [Job -> Row] /\ debits' \in [Job -> Nat] /\ DebitedOnce'
  BY <1>1, Unwritten
<1>3. spawned[j] <= faults /\ spawned[j] \in Nat
  <2>1. spawned[j] \in Nat
    BY VideoAssumption DEF VideoInv, JobsOK
  <2>2. Recovering
    BY DEF VideoInv
  <2> QED BY <1>1, <2>1, <2>2 DEF Recovering
<1>4. /\ row[j].ref /\ <<j, FALSE>> \notin rows
      /\ spawned[j] = 0 => row[j].status \in Live
  BY <1>1 DEF VideoInv, Unattended
<1>5. row[j].status # "none"
  <2>1. CASE spawned[j] = 0
    BY <2>1, <1>4 DEF Live
  <2>2. CASE spawned[j] > 0
    BY <2>2 DEF VideoInv, Counted
  <2> QED BY <2>1, <2>2, <1>3
<1>6. "resume" \in Kind
  BY DEF Kind
<1> QED BY <1>1, <1>2, <1>3, <1>4, <1>5, <1>6, SpawnKeeps

LEMMA GiveUpKeeps ==
  ASSUME VideoInv, NEW j \in Job, GiveUp(j)
  PROVE  VideoInv'
<1>1. /\ recovering /\ <<j, FALSE>> \in rows
      /\ UNCHANGED <<task, active, pending, recovered, up, spawned, known, paid>>
      /\ Update(j, "failed", FALSE, FALSE, "restart") \/ UNCHANGED dbVars
      /\ Answered \/ Raises
  BY DEF GiveUp, Interrupted
<1>2. spawned[j] = 0 /\ pending[j] = NoCharge /\ \A t \in Task : t[1] = j => task[t].at = "none"
  <2>1. spawned[j] = 0
    BY <1>1 DEF VideoInv, Unattended
  <2> QED BY <2>1, Fresh
<1>3. "failed" \in Ended /\ "restart" \in Failure /\ FALSE \in BOOLEAN
  BY DEF Ended, Failure
<1>4. faults' \in 0..MaxFaults /\ faults' >= faults /\ stops' = stops
  BY <1>1, Faulty DEF VideoInv
<1>5. \/ rows' = rows \ {<<j, FALSE>>} /\ recovering' = recovering
      \/ rows' = {} /\ recovering' = FALSE /\ faults' = faults + 1
  BY DEF GiveUp, Raises
<1>6. <<j, TRUE>> \notin rows /\ rows' \subseteq rows /\ recovering' \in BOOLEAN
      /\ <<j, FALSE>> \notin rows'
  BY <1>1, <1>5 DEF VideoInv, Unattended, JobsOK
<1>7. JobsOK'
  <2>1. row' \in [Job -> Row] /\ debits' \in [Job -> Nat]
    BY <1>1, <1>3, Written
  <2> QED BY <1>1, <1>4, <1>6, <2>1 DEF VideoInv, JobsOK, Row
<1>8. Recovering'
  <2>1. (recovering' => up' /\ ~recovered') /\ (rows' # {} => recovering')
    BY <1>1, <1>5 DEF VideoInv, Recovering
  <2>2. ASSUME NEW k \in Job
        PROVE  /\ spawned'[k] <= faults' + 1
               /\ ~recovered' /\ ~recovering' => spawned'[k] <= faults'
               /\ <<k, TRUE>> \in rows' => spawned'[k] <= faults'
    <3>1. spawned[k] <= faults + 1 /\ (<<k, TRUE>> \in rows => spawned[k] <= faults)
      BY DEF VideoInv, Recovering
    <3>2. spawned'[k] = spawned[k] /\ spawned[k] \in Nat /\ faults \in Nat /\ faults' \in Nat
      BY <1>1, <1>4, VideoAssumption DEF VideoInv, JobsOK
    <3>3. recovering' = FALSE => faults' = faults + 1
      BY <1>1, <1>5
    <3> QED BY <3>1, <3>2, <3>3, <1>4, <1>6
  <2> QED BY <2>1, <2>2 DEF Recovering
<1>9. /\ pending' \in [Job -> Charge] /\ pending' = pending /\ recovered' = recovered
      /\ UNCHANGED <<task, active, up, spawned, known, paid>>
  BY <1>1 DEF VideoInv, JobsOK, Charge
<1> HIDE DEF VideoInv
<1> QED BY <1>1, <1>2, <1>3, <1>6, <1>7, <1>8, <1>9, WriteKeeps

LEMMA RecoverEndKeeps ==
  ASSUME VideoInv, RecoverEnd
  PROVE  VideoInv'
<1>1. /\ recovering /\ rows = {} /\ ~recovering' /\ recovered' /\ rows' = {}
      /\ recovering' \in BOOLEAN /\ recovered' \in BOOLEAN
      /\ row' = row /\ debits' = debits /\ task' = task /\ active' = active /\ pending' = pending
      /\ up' = up /\ spawned' = spawned /\ known' = known /\ paid' = paid
      /\ faults' = faults /\ stops' = stops
  BY DEF RecoverEnd, dbVars, bounds
<1>2. JobsOK'
  BY <1>1 DEF VideoInv, JobsOK
<1>3. DebitedOnce' /\ PaidOnce' /\ CostKept' /\ Counted' /\ Paying' /\ AttendedOnce'
  BY <1>1 DEF VideoInv, DebitedOnce, PaidOnce, CostKept, Counted, Paying, AttendedOnce
<1>4. Recovering' /\ Unattended'
  BY <1>1 DEF VideoInv, Recovering, Unattended
<1> QED BY <1>2, <1>3, <1>4 DEF VideoInv

\* A row that was not there, and whose job has nothing, changes nothing else.
LEMMA CreateKeeps ==
  ASSUME VideoInv, NEW j \in Job, NEW kind \in {"async", "single"}, Create(j, kind)
  PROVE  VideoInv'
<1> DEFINE queued == [row EXCEPT ![j].status = "queued"]
<1>1. /\ recovered /\ row[j] = NoRow /\ row' \in {row, queued}
      /\ UNCHANGED <<debits, pending, lockVars, up, known, paid>>
  BY DEF Create
<1>2. /\ row' \in [Job -> Row] /\ \A k \in Job : k # j => row'[k] = row[k]
      /\ row'[j].cost = row[j].cost /\ row'[j].status \in {"none", "queued"}
      /\ row' = queued => row'[j].status = "queued"
  <2>1. row \in [Job -> Row] /\ NoRow.status = "none" /\ "queued" \in Live
    BY DEF VideoInv, JobsOK, Row, NoRow, Live
  <2>2. row[j] \in Row /\ [row[j] EXCEPT !.status = "queued"] \in Row
    BY <2>1 DEF Row
  <2>3. queued = [row EXCEPT ![j] = [row[j] EXCEPT !.status = "queued"]]
    OBVIOUS
  <2>4. [row[j] EXCEPT !.status = "queued"].cost = row[j].cost
        /\ [row[j] EXCEPT !.status = "queued"].status = "queued"
    BY <2>2 DEF Row
  <2>5. queued \in [Job -> Row] /\ queued[j].cost = row[j].cost /\ queued[j].status = "queued"
        /\ \A k \in Job : k # j => queued[k] = row[k]
    BY <2>1, <2>2, <2>3, <2>4
  <2> HIDE DEF queued
  <2> QED BY <1>1, <2>1, <2>5
<1>3. spawned[j] = 0 /\ paid[j] = 0
  <2>1. spawned[j] \in Nat /\ paid[j] \in Nat
    BY VideoAssumption DEF VideoInv, JobsOK
  <2>2. row[j].status = "none"
    BY <1>1 DEF NoRow
  <2> QED BY <2>1, <2>2 DEF VideoInv, Counted
<1>4. /\ rows = {} /\ rows' = {} /\ recovered' = recovered /\ recovering' = recovering
      /\ debits' \in [Job -> Nat] /\ DebitedOnce'
  <2>1. DebitedOnce'
    BY <1>1, <1>2 DEF VideoInv, DebitedOnce
  <2> QED BY <1>1, <2>1 DEF VideoInv, Recovering, JobsOK, lockVars
<1>5. CASE row' = queued /\ Spawn(j, kind) /\ Answered
  <2>1. kind \in Kind /\ kind # "resume" /\ "queued" \in Live /\ "queued" # "none"
    BY DEF Kind, Live
  <2>2. spawned[j] <= faults /\ UNCHANGED bounds
    BY <1>3, <1>5, VideoAssumption DEF VideoInv, JobsOK, Answered
  <2> HIDE DEF queued
  <2> QED BY <1>1, <1>2, <1>3, <1>4, <1>5, <2>1, <2>2, SpawnKeeps
<1>6. CASE Raises /\ UNCHANGED <<task, active, spawned>>
  <2> HIDE DEF queued
  <2>1. faults' \in 0..MaxFaults /\ faults' >= faults /\ stops' = stops
    BY <1>6, Faulty DEF VideoInv
  <2>2. JobsOK'
    BY <1>1, <1>2, <1>4, <1>6, <2>1 DEF VideoInv, JobsOK, Row, lockVars
  <2>3. Recovering'
    BY <1>1, <1>6, <2>1, RecoveringStays DEF VideoInv
  <2>4. j \notin known /\ pending[j] = NoCharge /\ \A t \in Task : t[1] = j => task[t].at = "none"
    BY <1>3, Fresh
  <2>5. PaidOnce' /\ Paying'
    BY <1>1, <1>6 DEF VideoInv, PaidOnce, Paying
  <2>6. Counted'
    <3> SUFFICES ASSUME NEW k \in Job, spawned[k] > 0 \/ paid[k] > 0 PROVE row'[k].status # "none"
      BY <1>1, <1>6 DEF VideoInv, Counted
    <3>1. k # j
      BY <1>3
    <3> QED BY <3>1, <1>2 DEF VideoInv, Counted
  <2>7. Unattended'
    <3> SUFFICES ASSUME NEW k \in Job, spawned[k] > 0, ~recovered PROVE row'[k].ref
      BY <1>1, <1>4, <1>6 DEF VideoInv, Unattended
    <3> QED BY <1>1
  <2>8. AttendedOnce'
    <3> SUFFICES ASSUME NEW k \in Job, spawned[k] <= 1
                 PROVE  /\ \A u \in Task : u[1] = k /\ task[u].at # "none" =>
                             /\ row'[k].status \notin Ended /\ pending[k] = NoCharge
                             /\ up /\ task[u].at \in {"begin", "send", "sent"} => k \notin known
                        /\ pending[k] # NoCharge /\ row'[k].status \in Ended
                             => row'[k].status = pending[k].status
      BY <1>1, <1>6 DEF AttendedOnce
    <3>1. CASE k = j
      BY <3>1, <2>4
    <3>2. CASE k # j
      BY <3>2, <1>2 DEF VideoInv, AttendedOnce
    <3> QED BY <3>1, <3>2
  <2>9. CostKept'
    <3> SUFFICES ASSUME up, NEW k \in known, spawned[k] <= 1
                 PROVE  \/ row'[k].cost \/ pending[k].cost
                        \/ \E u \in Task : u[1] = k /\ task[u].at # "none" /\ task[u].cost
      BY <1>1, <1>6 DEF CostKept
    <3>1. k \in Job /\ k # j
      BY <2>4 DEF VideoInv, JobsOK
    <3> QED BY <3>1, <1>2 DEF VideoInv, CostKept
  <2> QED BY <1>4, <2>2, <2>3, <2>5, <2>6, <2>7, <2>8, <2>9 DEF VideoInv
<1> QED BY <1>5, <1>6 DEF Create

-----------------------------------------------------------------------------
(* The end of the gateway.                                                 *)

LEMMA RestartedKeeps ==
  ASSUME VideoInv, Restarted, faults' = faults, stops' \in 0..MaxStops
  PROVE  VideoInv'
<1>1. /\ row' = row /\ debits' = debits /\ paid' = paid
      /\ \A t \in Task : task'[t] = NoTask
      /\ task' \in [Task -> Doing] /\ pending' \in [Job -> Charge]
      /\ \A j \in Job : pending'[j] = NoCharge /\ spawned'[j] = 0
      /\ spawned' \in [Job -> 0..(MaxFaults + 1)]
      /\ active' = {} /\ ~recovered' /\ rows' = {} /\ ~recovering' /\ up' /\ known' = {}
      /\ recovered' \in BOOLEAN /\ recovering' \in BOOLEAN /\ up' \in BOOLEAN
  <2>1. NoTask \in Doing /\ NoCharge \in Charge
    BY DEF NoTask, NoCharge, Doing, Charge, Kind, Ended, Failure
  <2>2. 0 \in 0..(MaxFaults + 1)
    BY VideoAssumption
  <2>3. task' \in [Task -> Doing] /\ pending' \in [Job -> Charge] /\ spawned' \in [Job -> 0..(MaxFaults + 1)]
    BY <2>1, <2>2 DEF Restarted, NoCharges
  <2> QED BY <2>3 DEF Restarted, NoCharges, dbVars
<1>2. NoTask.at = "none" /\ faults \in Nat
  BY VideoAssumption DEF NoTask, VideoInv, JobsOK
<1>3. JobsOK'
  BY <1>1 DEF VideoInv, JobsOK, Doing, Charge
<1>4. DebitedOnce' /\ PaidOnce' /\ CostKept'
  BY <1>1 DEF VideoInv, DebitedOnce, PaidOnce, CostKept
<1>5. Counted'
  BY <1>1, <1>2 DEF VideoInv, Counted
<1>6. Recovering'
  BY <1>1, <1>2 DEF Recovering
<1>7. Paying'
  BY <1>1, <1>2 DEF Paying
<1>8. Unattended' /\ AttendedOnce'
  BY <1>1, <1>2 DEF Unattended, AttendedOnce
<1> QED BY <1>3, <1>4, <1>5, <1>6, <1>7, <1>8 DEF VideoInv

LEMMA ShutdownKeeps ==
  ASSUME VideoInv, Shutdown
  PROVE  VideoInv'
<1>1. /\ up' = FALSE /\ ~recovering /\ faults' = faults /\ stops' \in 0..MaxStops
      /\ row' = row /\ debits' = debits /\ task' = task /\ active' = active /\ pending' = pending
      /\ recovered' = recovered /\ rows' = rows /\ recovering' = recovering
      /\ spawned' = spawned /\ known' = known /\ paid' = paid
  BY VideoAssumption DEF Shutdown, Stop, dbVars, lockVars, VideoInv, JobsOK
<1>2. JobsOK'
  BY <1>1 DEF VideoInv, JobsOK
<1>3. DebitedOnce' /\ PaidOnce' /\ CostKept' /\ Counted' /\ Paying'
  BY <1>1 DEF VideoInv, DebitedOnce, PaidOnce, CostKept, Counted, Paying
<1>4. Recovering' /\ Unattended' /\ AttendedOnce'
  BY <1>1 DEF VideoInv, Recovering, Unattended, AttendedOnce
<1> QED BY <1>2, <1>3, <1>4 DEF VideoInv

-----------------------------------------------------------------------------
(* Every step keeps what is known of the jobs.                             *)

LEMMA InitIsGood == Init => VideoInv
<1> SUFFICES ASSUME Init PROVE VideoInv
  OBVIOUS
<1> USE VideoAssumption DEF Init, NoCharges
<1>1. NoTask \in Doing /\ NoCharge \in Charge /\ NoRow \in Row
  BY DEF NoTask, NoCharge, NoRow, Doing, Charge, Row, Kind, Ended, Failure
<1>2. NoTask.at = "none" /\ NoRow.status = "none" /\ ~NoRow.cost
  BY DEF NoTask, NoRow
<1>3. task \in [Task -> Doing] /\ pending \in [Job -> Charge] /\ row \in [Job -> Row]
  BY <1>1
<1>4. 0 \in 0..(MaxFaults + 1) /\ 0 \in 0..MaxFaults /\ 0 \in 0..MaxStops
  OBVIOUS
<1>5. JobsOK
  BY <1>3, <1>4 DEF JobsOK, Doing, Charge, Row
<1>6. DebitedOnce /\ PaidOnce /\ CostKept
  BY <1>2 DEF DebitedOnce, PaidOnce, CostKept
<1>7. Counted /\ Recovering /\ Paying
  BY <1>2 DEF Counted, Recovering, Paying
<1>8. Unattended /\ AttendedOnce
  BY <1>2 DEF Unattended, AttendedOnce
<1> QED BY <1>5, <1>6, <1>7, <1>8 DEF VideoInv

\* A step of a task writes no other job's row.
LEMMA StepsOwnRow ==
  ASSUME VideoInv, NEW t \in Task, Step(t), NEW j \in Job, j # t[1]
  PROVE  row'[j] = row[j]
<1>0. row \in [Job -> Row]
  BY DEF VideoInv, JobsOK, Row
<1>1. ASSUME NEW status, NEW ref, NEW cost, NEW failure, Update(t[1], status, ref, cost, failure)
      PROVE  row'[j] = row[j]
  BY <1>0, <1>1 DEF Update
<1>2. CASE UNCHANGED dbVars
  BY <1>2 DEF dbVars
<1>3. CASE Begin(t) \/ Save(t)
  BY <1>1, <1>2, <1>3 DEF Begin, Save
<1>4. CASE Send(t) \/ Answer(t) \/ Poll(t)
  BY <1>2, <1>4 DEF Send, Answer, Poll
<1>5. CASE Finish(t) \/ Cancel(t)
  BY <1>1, <1>2, <1>5 DEF Finish, Cancel, Outcome
<1> QED BY <1>3, <1>4, <1>5 DEF Step

LEMMA NextKeeps == VideoInv /\ CopyInv /\ [Next]_videoVars => VideoInv'
<1> SUFFICES ASSUME VideoInv, CopyInv, [Next]_videoVars PROVE VideoInv'
  OBVIOUS
<1>1. ASSUME NEW t \in Task, Step(t) PROVE VideoInv'
  BY <1>1, BeginKeeps, SendKeeps, AnswerKeeps, SaveKeeps, PollKeeps, CancelKeeps, FinishKeeps DEF Step
<1>2. CASE Recovery
  BY <1>2, RecoverBeginKeeps, ResumeKeeps, GiveUpKeeps, RecoverEndKeeps DEF Recovery
<1>3. ASSUME NEW j \in Job, Create(j, "async") \/ Create(j, "single") PROVE VideoInv'
  BY <1>3, CreateKeeps
<1>4. CASE UNCHANGED videoVars
  BY <1>4, SameKeeps DEF videoVars
<1>5. ASSUME NEW j \in Job, Repeat(j) PROVE VideoInv'
  BY <1>4, <1>5 DEF Repeat
<1>6. CASE Crash
  <2>1. faults' = faults /\ stops' \in 0..MaxStops
    BY <1>6, VideoAssumption DEF Crash, Stop, VideoInv, JobsOK
  <2> QED BY <1>6, <2>1, RestartedKeeps DEF Crash
<1>7. CASE Shutdown
  BY <1>7, ShutdownKeeps
<1>8. CASE Exit
  <2>1. faults' = faults /\ stops' \in 0..MaxStops
    BY <1>8 DEF Exit, bounds, VideoInv, JobsOK
  <2> QED BY <1>8, <2>1, RestartedKeeps DEF Exit
<1>9. ASSUME NEW r \in Reader, Flush(r) PROVE VideoInv'
  BY <1>9, FlushReadKeeps, FlushWriteKeeps, FlushForgetKeeps DEF Flush
<1> QED BY <1>1, <1>2, <1>3, <1>4, <1>5, <1>6, <1>7, <1>8, <1>9 DEF Next

-----------------------------------------------------------------------------
(* Every step keeps what is known of the copies.                           *)

\* Copies stay as true as they were where a job's charge, row and tasks do.
LEMMA CopiesStay ==
  ASSUME CopyInv, UNCHANGED flushVars,
         \A r \in Reader, j \in Job : copied[r][j] # NoCharge =>
           /\ up' /\ spawned'[j] > 0
           /\ spawned'[j] <= 1 =>
                /\ spawned[j] <= 1 /\ pending'[j] = pending[j] /\ row'[j] = row[j]
                /\ \A t \in Task : t[1] = j => task'[t].at = task[t].at
  PROVE  CopyInv'
<1>1. copied' = copied /\ saved' = saved
  BY DEF flushVars
<1>2. ASSUME NEW r \in Reader, NEW j \in Job, copied[r][j] # NoCharge
      PROVE  /\ up' /\ spawned'[j] > 0 /\ copied[r][j].status \in Ended
             /\ spawned'[j] <= 1 =>
                  /\ \A t \in Task : t[1] = j => task'[t].at = "none"
                  /\ \/ pending'[j] = copied[r][j]
                     \/ pending'[j] = NoCharge /\ row'[j].status = copied[r][j].status
  BY <1>2 DEF CopyInv
<1>3. ASSUME NEW r \in Reader, NEW j \in Job, <<r, j>> \in saved
      PROVE  /\ copied[r][j] # NoCharge
             /\ spawned'[j] <= 1 => /\ row'[j].status = copied[r][j].status
                                    /\ copied[r][j].cost => row'[j].cost
  BY <1>3 DEF CopyInv
<1> QED BY <1>1, <1>2, <1>3 DEF CopyInv

LEMMA CopiesOfStep ==
  ASSUME VideoInv, CopyInv, NEW t \in Task, Step(t)
  PROVE  CopyInv'
<1>1. /\ task[t].at # "none" /\ UNCHANGED <<flushVars, up, spawned>>
      /\ \A u \in Task : u # t => task'[u] = task[u]
  <2>1. ASSUME NEW what, Goes(t, what) PROVE \A u \in Task : u # t => task'[u] = task[u]
    <3>1. task \in [Task -> Doing]
      BY DEF VideoInv, JobsOK, Doing
    <3> QED BY <2>1, <3>1 DEF Goes
  <2>2. CASE Begin(t) \/ Send(t) \/ Answer(t)
    BY <2>1, <2>2 DEF Begin, Send, Answer, Ends
  <2>3. CASE Save(t) \/ Poll(t)
    BY <2>1, <2>3 DEF Save, Poll, Ends
  <2>4. CASE Finish(t) \/ Cancel(t)
    BY <2>1, <2>4 DEF Finish, Cancel, Gone, Ends
  <2> QED BY <2>2, <2>3, <2>4 DEF Step
<1>2. ASSUME NEW j \in Job, j # t[1] PROVE pending'[j] = pending[j]
  <2>1. t[1] \in Job /\ pending \in [Job -> Charge]
    BY TaskJob DEF VideoInv, JobsOK, Charge
  <2> QED BY <1>2, <2>1 DEF Step, Begin, Send, Answer, Save, Poll, Finish, Cancel
<1>3. ASSUME NEW j \in Job, j # t[1] PROVE row'[j] = row[j]
  BY <1>3, StepsOwnRow
<1>4. ASSUME NEW r \in Reader, NEW j \in Job, copied[r][j] # NoCharge
      PROVE  /\ up' /\ spawned'[j] > 0
             /\ spawned'[j] <= 1 =>
                  /\ spawned[j] <= 1 /\ pending'[j] = pending[j] /\ row'[j] = row[j]
                  /\ \A u \in Task : u[1] = j => task'[u].at = task[u].at
  <2>1. /\ up /\ spawned[j] > 0
        /\ spawned[j] <= 1 => \A u \in Task : u[1] = j => task[u].at = "none"
    BY <1>4 DEF CopyInv
  <2>2. spawned[j] <= 1 => j # t[1]
    BY <1>1, <2>1
  <2> QED BY <1>1, <1>2, <1>3, <2>1, <2>2
<1> QED BY <1>1, <1>4, CopiesStay

LEMMA CopiesOfRecovery ==
  ASSUME VideoInv, CopyInv, Recovery \/ \E j \in Job, kind \in Kind : Create(j, kind)
  PROVE  CopyInv'
<1>1. /\ row \in [Job -> Row] /\ spawned \in [Job -> 0..(MaxFaults + 1)] /\ MaxFaults \in Nat
      /\ task \in [Task -> Doing]
  BY VideoAssumption DEF VideoInv, JobsOK, Row, Doing
<1>2. ASSUME NEW r \in Reader, NEW j \in Job, copied[r][j] # NoCharge
      PROVE  up /\ spawned[j] > 0 /\ spawned[j] \in Nat
  BY <1>1, <1>2 DEF CopyInv
<1>3. ASSUME NEW k \in Job, NEW kind, Spawn(k, kind)
      PROVE  /\ \A j \in Job : j # k => spawned'[j] = spawned[j]
             /\ spawned'[k] = spawned[k] + 1
             /\ \A t \in Task : t[1] # k => task'[t] = task[t]
  BY <1>1, <1>3 DEF Spawn, Goes
<1>4. CASE RecoverBegin \/ RecoverEnd
  <2>1. UNCHANGED <<flushVars, pending, row, task, spawned, up>>
    BY <1>4 DEF RecoverBegin, RecoverEnd, dbVars
  <2> QED BY <1>2, <2>1, CopiesStay
<1>5. ASSUME NEW k \in Job, Resume(k) PROVE CopyInv'
  <2>1. UNCHANGED <<flushVars, pending, row, up>> /\ Spawn(k, "resume")
    BY <1>5 DEF Resume, dbVars
  <2>2. ASSUME NEW r \in Reader, NEW j \in Job, copied[r][j] # NoCharge
        PROVE  /\ up' /\ spawned'[j] > 0
               /\ spawned'[j] <= 1 =>
                    /\ spawned[j] <= 1 /\ pending'[j] = pending[j] /\ row'[j] = row[j]
                    /\ \A t \in Task : t[1] = j => task'[t].at = task[t].at
    <3>1. CASE j = k
      BY <1>2, <1>3, <2>1, <2>2, <3>1
    <3>2. CASE j # k
      BY <1>2, <1>3, <2>1, <2>2, <3>2
    <3> QED BY <3>1, <3>2
  <2> QED BY <2>1, <2>2, CopiesStay
<1>6. ASSUME NEW k \in Job, GiveUp(k) PROVE CopyInv'
  <2>1. UNCHANGED <<flushVars, pending, task, spawned, up>> /\ <<k, FALSE>> \in rows
        /\ (Interrupted(k) \/ UNCHANGED dbVars)
    BY <1>6 DEF GiveUp
  <2>2. spawned[k] = 0
    BY <2>1 DEF VideoInv, Unattended
  <2>3. \A j \in Job : j # k => row'[j] = row[j]
    BY <1>1, <2>1 DEF Interrupted, Update, dbVars
  <2>4. ASSUME NEW r \in Reader, NEW j \in Job, copied[r][j] # NoCharge PROVE j # k
    BY <1>2, <2>2, <2>4
  <2> QED BY <1>2, <2>1, <2>3, <2>4, CopiesStay
<1>7. ASSUME NEW k \in Job, NEW kind \in Kind, Create(k, kind) PROVE CopyInv'
  <2>1. UNCHANGED <<flushVars, pending, up>> /\ row[k] = NoRow
        /\ (UNCHANGED <<task, spawned>> \/ Spawn(k, kind))
    BY <1>7 DEF Create
  <2>2. \A j \in Job : j # k => row'[j] = row[j]
    BY <1>1, <1>7 DEF Create
  <2>3. spawned[k] = 0
    <3>1. row[k].status = "none"
      BY <2>1 DEF NoRow
    <3> QED BY <1>1, <3>1 DEF VideoInv, Counted
  <2>4. ASSUME NEW r \in Reader, NEW j \in Job, copied[r][j] # NoCharge
        PROVE  /\ up' /\ spawned'[j] > 0
               /\ spawned'[j] <= 1 =>
                    /\ spawned[j] <= 1 /\ pending'[j] = pending[j] /\ row'[j] = row[j]
                    /\ \A t \in Task : t[1] = j => task'[t].at = task[t].at
    <3>1. j # k /\ up /\ spawned[j] > 0
      BY <1>2, <2>3, <2>4
    <3>2. spawned'[j] = spawned[j] /\ \A t \in Task : t[1] = j => task'[t] = task[t]
      BY <1>3, <2>1, <3>1
    <3> QED BY <2>1, <2>2, <3>1, <3>2
  <2> QED BY <2>1, <2>4, CopiesStay
<1> QED BY <1>4, <1>5, <1>6, <1>7 DEF Recovery

LEMMA CopiesOfRead ==
  ASSUME VideoInv, CopyInv, NEW q \in Reader, FlushRead(q)
  PROVE  CopyInv'
<1>1. /\ UNCHANGED <<row, task, pending, saved, up, spawned>> /\ up
      /\ copied[q] = NoCharges /\ copied' = [copied EXCEPT ![q] = pending]
  BY DEF FlushRead, dbVars
<1>2. pending \in [Job -> Charge]
  BY DEF VideoInv, JobsOK, Charge
<1>3. /\ copied' \in [Reader -> [Job -> Charge]] /\ copied'[q] = pending
      /\ \A r \in Reader : r # q => copied'[r] = copied[r]
  BY <1>1, <1>2 DEF CopyInv
<1>4. \A j \in Job : <<q, j>> \notin saved
  BY <1>1 DEF CopyInv, NoCharges
<1>5. ASSUME NEW j \in Job, pending[j] # NoCharge
      PROVE  /\ spawned[j] > 0 /\ pending[j].status \in Ended
             /\ spawned[j] <= 1 => \A t \in Task : t[1] = j => task[t].at = "none"
  BY <1>5 DEF VideoInv, Counted, AttendedOnce
<1>6. ASSUME NEW r \in Reader, NEW j \in Job, copied'[r][j] # NoCharge
      PROVE  /\ up /\ spawned[j] > 0 /\ copied'[r][j].status \in Ended
             /\ spawned[j] <= 1 =>
                  /\ \A t \in Task : t[1] = j => task[t].at = "none"
                  /\ \/ pending[j] = copied'[r][j]
                     \/ pending[j] = NoCharge /\ row[j].status = copied'[r][j].status
  <2>1. CASE r = q
    BY <1>1, <1>3, <1>5, <1>6, <2>1
  <2>2. CASE r # q
    BY <1>3, <1>6, <2>2 DEF CopyInv
  <2> QED BY <2>1, <2>2
<1>7. ASSUME NEW r \in Reader, NEW j \in Job, <<r, j>> \in saved
      PROVE  copied'[r] = copied[r]
  BY <1>3, <1>4, <1>7
<1>8. \A r \in Reader, j \in Job : <<r, j>> \in saved =>
        /\ copied'[r][j] # NoCharge
        /\ spawned[j] <= 1 => /\ row[j].status = copied'[r][j].status
                              /\ copied'[r][j].cost => row[j].cost
  BY <1>7 DEF CopyInv
<1> QED BY <1>1, <1>3, <1>6, <1>8 DEF CopyInv

\* One that was recorded is in the row; two of a job attended once are the same.
LEMMA CopiesOfWrite ==
  ASSUME VideoInv, CopyInv, NEW q \in Reader, NEW k \in Job, FlushWrite(q, k)
  PROVE  CopyInv'
<1> DEFINE c == copied[q][k]
<1>1. /\ c # NoCharge /\ \A j \in Job : <<q, j>> \notin saved
      /\ UNCHANGED <<task, pending, up, spawned>>
      /\ \/ /\ Update(k, c.status, FALSE, c.cost, c.failure)
            /\ saved' = saved \cup {<<q, k>>} /\ copied' = copied
         \/ /\ Update(k, c.status, FALSE, c.cost, c.failure) \/ UNCHANGED dbVars
            /\ saved' = saved /\ copied' = [copied EXCEPT ![q] = NoCharges]
  BY DEF FlushWrite, Retry
<1>2. /\ c \in Charge /\ c.status \in Ended
      /\ spawned[k] <= 1 => pending[k] = c \/ (pending[k] = NoCharge /\ row[k].status = c.status)
  BY <1>1 DEF CopyInv
<1>3. c.cost \in BOOLEAN /\ c.failure \in Failure /\ c.status \in Ended \cup Live \cup {"none"}
  BY <1>2 DEF Charge
<1>4. NoCharges \in [Job -> Charge] /\ \A j \in Job : NoCharges[j] = NoCharge
  BY DEF NoCharges, NoCharge, Charge, Failure
<1>5. /\ \A j \in Job : j # k => row'[j] = row[j]
      /\ row'[k].status \in {c.status, row[k].status}
      /\ row[k].cost => row'[k].cost
      /\ Update(k, c.status, FALSE, c.cost, c.failure) => row'[k].status = c.status /\ (c.cost => row'[k].cost)
  <2>1. Update(k, c.status, FALSE, c.cost, c.failure) \/ UNCHANGED dbVars
    BY <1>1
  <2>2. row \in [Job -> Row] /\ debits \in [Job -> Nat] /\ DebitedOnce
    BY DEF VideoInv, JobsOK, Row
  <2> HIDE DEF c
  <2>3. FALSE \in BOOLEAN
    OBVIOUS
  <2>4. /\ \A j \in Job : j # k => row'[j] = row[j]
        /\ row'[k].status \in {c.status, row[k].status}
        /\ row[k].cost => row'[k].cost
    BY <1>3, <2>1, <2>3, Written
  <2>5. ASSUME Update(k, c.status, FALSE, c.cost, c.failure)
        PROVE  row'[k].status = c.status /\ (c.cost => row'[k].cost)
    BY <1>3, <2>2, <2>3, <2>5, Updates
  <2> QED BY <2>4, <2>5
<1>6. /\ copied' \in [Reader -> [Job -> Charge]] /\ saved' \subseteq Reader \X Job
      /\ \A r \in Reader : r # q => copied'[r] = copied[r]
      /\ \A j \in Job : copied'[q][j] # NoCharge => copied'[q] = copied[q]
  <2>1. copied \in [Reader -> [Job -> Charge]] /\ saved \subseteq Reader \X Job
    BY DEF CopyInv
  <2>2. saved' \subseteq Reader \X Job
    <3>1. saved' = saved \/ saved' = saved \cup {<<q, k>>}
      BY <1>1, Zenon
    <3> QED BY <2>1, <3>1
  <2>3. CASE copied' = copied
    BY <2>1, <2>2, <2>3
  <2>4. CASE copied' = [copied EXCEPT ![q] = NoCharges]
    <3>1. /\ copied' \in [Reader -> [Job -> Charge]] /\ copied'[q] = NoCharges
          /\ \A r \in Reader : r # q => copied'[r] = copied[r]
      BY <1>4, <2>1, <2>4
    <3> QED BY <1>4, <2>2, <3>1
  <2> QED BY <1>1, <2>3, <2>4
<1>7. \A r \in Reader, i, j \in Job : <<r, i>> \in saved' /\ <<r, j>> \in saved' => i = j
  BY <1>1 DEF CopyInv
<1> HIDE DEF c
<1>8. ASSUME NEW r \in Reader, NEW j \in Job, copied'[r][j] # NoCharge
      PROVE  /\ copied'[r][j] = copied[r][j] /\ up /\ spawned[j] > 0 /\ copied[r][j].status \in Ended
             /\ spawned[j] <= 1 =>
                  /\ \A t \in Task : t[1] = j => task[t].at = "none"
                  /\ \/ pending[j] = copied[r][j]
                     \/ pending[j] = NoCharge /\ row'[j].status = copied[r][j].status
  <2>1. copied'[r][j] = copied[r][j] /\ copied[r][j] # NoCharge
    BY <1>6, <1>8
  <2>2. /\ up /\ spawned[j] > 0 /\ copied[r][j].status \in Ended
        /\ spawned[j] <= 1 =>
             /\ \A t \in Task : t[1] = j => task[t].at = "none"
             /\ \/ pending[j] = copied[r][j]
                \/ pending[j] = NoCharge /\ row[j].status = copied[r][j].status
    BY <2>1 DEF CopyInv
  <2>3. CASE j # k
    BY <1>5, <2>1, <2>2, <2>3
  <2>4. CASE j = k
    BY <1>1, <1>2, <1>5, <2>1, <2>2, <2>4
  <2> QED BY <2>3, <2>4
<1>9. ASSUME NEW r \in Reader, NEW j \in Job, <<r, j>> \in saved'
      PROVE  /\ copied'[r][j] # NoCharge
             /\ spawned[j] <= 1 => /\ row'[j].status = copied'[r][j].status
                                   /\ copied'[r][j].cost => row'[j].cost
  <2>1. CASE <<r, j>> \in saved
    <3>1. r # q /\ copied'[r] = copied[r]
      BY <1>1, <1>6, <2>1
    <3>2. /\ copied[r][j] # NoCharge
          /\ spawned[j] <= 1 => /\ row[j].status = copied[r][j].status
                                /\ copied[r][j].cost => row[j].cost
                                /\ \/ pending[j] = copied[r][j]
                                   \/ pending[j] = NoCharge
      BY <2>1 DEF CopyInv
    <3>3. CASE j # k
      BY <1>5, <3>1, <3>2, <3>3
    <3>4. CASE j = k
      <4>1. spawned[k] <= 1 => c.status = copied[r][k].status
        BY <1>1, <1>2, <3>2, <3>4
      <4> QED BY <1>5, <3>1, <3>2, <3>4, <4>1
    <3> QED BY <3>3, <3>4
  <2>2. CASE <<r, j>> \notin saved
    <3>1. saved' # saved
      BY <1>9, <2>2
    <3>3. /\ saved' = saved \cup {<<q, k>>} /\ copied' = copied
          /\ Update(k, c.status, FALSE, c.cost, c.failure)
      BY <1>1, <3>1
    <3>4. r = q /\ j = k
      BY <1>9, <2>2, <3>3
    <3>2. copied'[r][j] = c
      BY <3>3, <3>4 DEF c
    <3> QED BY <1>1, <1>5, <3>2, <3>3, <3>4
  <2> QED BY <2>1, <2>2
<1> QED BY <1>1, <1>6, <1>7, <1>8, <1>9 DEF CopyInv

LEMMA CopiesOfForget ==
  ASSUME VideoInv, CopyInv, NEW q \in Reader, NEW k \in Job, FlushForget(q, k)
  PROVE  CopyInv'
<1> DEFINE rest == IF pending[k] = NoCharge THEN NoCharges ELSE [copied[q] EXCEPT ![k] = NoCharge]
<1>1. /\ UNCHANGED <<row, task, up, spawned>>
      /\ <<q, k>> \in saved /\ saved' = saved \ {<<q, k>>}
      /\ pending' = [pending EXCEPT ![k] = NoCharge]
      /\ copied' = [copied EXCEPT ![q] = rest]
  BY DEF FlushForget, dbVars
<1>2. /\ NoCharges \in [Job -> Charge] /\ \A j \in Job : NoCharges[j] = NoCharge
      /\ NoCharge \in Charge
  BY DEF NoCharges, NoCharge, Charge, Failure
<1>3. /\ copied \in [Reader -> [Job -> Charge]] /\ saved \subseteq Reader \X Job
      /\ pending \in [Job -> Charge]
  BY DEF CopyInv, VideoInv, JobsOK, Charge
<1>4. /\ rest \in [Job -> Charge] /\ rest[k] = NoCharge
      /\ \A j \in Job : rest[j] # NoCharge => rest[j] = copied[q][j]
  BY <1>2, <1>3
<1> HIDE DEF rest
<1>5. /\ copied' \in [Reader -> [Job -> Charge]] /\ saved' \subseteq Reader \X Job
      /\ copied'[q] = rest /\ \A r \in Reader : r # q => copied'[r] = copied[r]
      /\ pending'[k] = NoCharge /\ \A j \in Job : j # k => pending'[j] = pending[j]
  BY <1>1, <1>3, <1>4
<1>6. \A j \in Job : <<q, j>> \notin saved'
  BY <1>1 DEF CopyInv
<1>7. ASSUME NEW r \in Reader, NEW j \in Job, copied'[r][j] # NoCharge
      PROVE  /\ copied'[r][j] = copied[r][j] /\ up /\ spawned[j] > 0 /\ copied[r][j].status \in Ended
             /\ spawned[j] <= 1 =>
                  /\ \A t \in Task : t[1] = j => task[t].at = "none"
                  /\ \/ pending'[j] = copied[r][j]
                     \/ pending'[j] = NoCharge /\ row[j].status = copied[r][j].status
  <2>1. copied'[r][j] = copied[r][j] /\ copied[r][j] # NoCharge
    BY <1>4, <1>5, <1>7
  <2>2. /\ up /\ spawned[j] > 0 /\ copied[r][j].status \in Ended
        /\ spawned[j] <= 1 =>
             /\ \A t \in Task : t[1] = j => task[t].at = "none"
             /\ \/ pending[j] = copied[r][j]
                \/ pending[j] = NoCharge /\ row[j].status = copied[r][j].status
    BY <2>1 DEF CopyInv
  <2>3. CASE j # k
    BY <1>5, <2>1, <2>2, <2>3
  <2>4. CASE j = k
    <3>1. spawned[k] <= 1 => /\ row[k].status = copied[q][k].status
                             /\ pending[k] = copied[q][k] \/ pending[k] = NoCharge
      BY <1>1 DEF CopyInv
    <3> QED BY <1>5, <2>1, <2>2, <2>4, <3>1
  <2> QED BY <2>3, <2>4
<1>8. ASSUME NEW r \in Reader, NEW j \in Job, <<r, j>> \in saved'
      PROVE  /\ copied'[r][j] # NoCharge
             /\ spawned[j] <= 1 => /\ row[j].status = copied'[r][j].status
                                   /\ copied'[r][j].cost => row[j].cost
  <2>1. r # q /\ <<r, j>> \in saved /\ copied'[r] = copied[r]
    BY <1>1, <1>5, <1>6, <1>8
  <2> QED BY <2>1 DEF CopyInv
<1>9. \A r \in Reader, i, j \in Job : <<r, i>> \in saved' /\ <<r, j>> \in saved' => i = j
  BY <1>1 DEF CopyInv
<1> QED BY <1>1, <1>5, <1>7, <1>8, <1>9 DEF CopyInv

LEMMA CopiesKept == VideoInv /\ CopyInv /\ [Next]_videoVars => CopyInv'
<1> SUFFICES ASSUME VideoInv, CopyInv, [Next]_videoVars PROVE CopyInv'
  OBVIOUS
<1>1. ASSUME NEW t \in Task, Step(t) PROVE CopyInv'
  BY <1>1, CopiesOfStep
<1>2. CASE Recovery
  BY <1>2, CopiesOfRecovery
<1>3. ASSUME NEW j \in Job, Create(j, "async") \/ Create(j, "single") PROVE CopyInv'
  BY <1>3, CopiesOfRecovery DEF Kind
<1>4. ASSUME NEW r \in Reader, Flush(r) PROVE CopyInv'
  BY <1>4, CopiesOfRead, CopiesOfWrite, CopiesOfForget DEF Flush
<1>5. ASSUME UNCHANGED videoVars \/ \E j \in Job : Repeat(j) PROVE CopyInv'
  <2>1. /\ copied' = copied /\ saved' = saved /\ up' = up /\ spawned' = spawned
        /\ pending' = pending /\ row' = row /\ task' = task
    BY <1>5 DEF Repeat, videoVars
  <2> QED BY <2>1 DEF CopyInv
<1>6. CASE Crash \/ Exit
  <2>1. copied' = [r \in Reader |-> NoCharges] /\ saved' = {}
    BY <1>6 DEF Crash, Exit, Restarted
  <2>2. NoCharges \in [Job -> Charge] /\ \A j \in Job : NoCharges[j] = NoCharge
    BY DEF NoCharges, NoCharge, Charge, Failure
  <2>3. copied' \in [Reader -> [Job -> Charge]] /\ \A r \in Reader, j \in Job : copied'[r][j] = NoCharge
    BY <2>1, <2>2
  <2> QED BY <2>1, <2>3 DEF CopyInv
<1>7. CASE Shutdown
  <2>1. UNCHANGED flushVars /\ \A r \in Reader, j \in Job : copied[r][j] = NoCharge
    BY <1>7 DEF Shutdown, NoCharges
  <2> QED BY <2>1, CopiesStay
<1> QED BY <1>1, <1>2, <1>3, <1>4, <1>5, <1>6, <1>7 DEF Next

-----------------------------------------------------------------------------
(* The theorems.                                                           *)

\* Everything the gateway does keeps the invariant of its video jobs and of the
\* charges that requests retry, overlapping at their awaits.
THEOREM VideoCorrect == Spec => [](VideoInv /\ CopyInv)
<1>1. Init => CopyInv
  <2> SUFFICES ASSUME Init PROVE CopyInv
    OBVIOUS
  <2>1. copied = [r \in Reader |-> NoCharges] /\ saved = {}
    BY DEF Init
  <2>2. NoCharges \in [Job -> Charge] /\ \A j \in Job : NoCharges[j] = NoCharge
    BY DEF NoCharges, NoCharge, Charge, Failure
  <2>3. copied \in [Reader -> [Job -> Charge]] /\ \A r \in Reader, j \in Job : copied[r][j] = NoCharge
    BY <2>1, <2>2
  <2> QED BY <2>1, <2>3 DEF CopyInv
<1> QED BY <1>1, InitIsGood, NextKeeps, CopiesKept, PTL DEF Spec

\* Rows, debits, tasks, kept charges and their copies have their types.
THEOREM VideoTypes == Spec => []TypeOK
<1>1. VideoInv /\ CopyInv => TypeOK
  BY DEF VideoInv, CopyInv, TypeOK, Charge
<1> QED BY <1>1, VideoCorrect, PTL

\* A job's cost is debited once and in one transaction with its row, whatever
\* is retried, resumed, flushed or attended twice (PostgresStore.update).
THEOREM DebitsOnce == Spec => []DebitedOnce
<1>1. VideoInv => DebitedOnce
  BY DEF VideoInv
<1> QED BY <1>1, VideoCorrect, PTL

\* No job is paid for twice: recovery polls or gives up, and a repeated start
\* finds its row (recover, handle).
THEOREM PaysOnce == Spec => []PaidOnce
<1>1. VideoInv => PaidOnce
  BY DEF VideoInv
<1> QED BY <1>1, VideoCorrect, PTL

\* While the gateway lives it loses no cost that the one task of a job has
\* learnt (the finally of run, pending_charge).
THEOREM KeepsCost == Spec => []CostKept
<1>1. VideoInv => CostKept
  BY DEF VideoInv
<1> QED BY <1>1, VideoCorrect, PTL

\* A job that has ended, and was attended once, keeps its ending: its task is
\* gone, its kept charge says the same, and recovery does not read it.
THEOREM EndingsStay == Spec => EndedStays
<1>1. ASSUME VideoInv, CopyInv, [Next]_videoVars, NEW j \in Job, row[j].status \in Ended, spawned[j] <= 1
      PROVE  row'[j].status = row[j].status
  <2>0. row \in [Job -> Row] /\ "none" \notin Ended
    BY <1>1 DEF VideoInv, JobsOK, Row, Ended
  <2>1. ASSUME NEW t \in Task, Step(t) PROVE row'[j].status = row[j].status
    <3>1. task[t].at # "none"
      BY <2>1 DEF Step, Begin, Send, Answer, Save, Poll, Finish, Cancel
    <3>2. j # t[1]
      BY <1>1, <3>1 DEF VideoInv, AttendedOnce
    <3> QED BY <1>1, <2>1, <3>2, StepsOwnRow
  <2>2. CASE UNCHANGED row
    BY <2>2
  <2>3. ASSUME NEW k \in Job, NEW status, NEW cost, NEW failure, Update(k, status, FALSE, cost, failure),
               k # j \/ status = row[j].status
        PROVE  row'[j].status = row[j].status
    BY <2>0, <2>3 DEF Update
  <2>4. ASSUME NEW r \in Reader, Flush(r) PROVE row'[j].status = row[j].status
    <3>1. ASSUME NEW k \in Job, FlushWrite(r, k) PROVE row'[j].status = row[j].status
      <4>1. k = j => copied[r][k].status = row[j].status
        BY <1>1, <3>1 DEF VideoInv, AttendedOnce, FlushWrite, CopyInv
      <4> QED BY <2>2, <2>3, <3>1, <4>1 DEF FlushWrite, Retry, dbVars
    <3>2. CASE FlushRead(r) \/ \E k \in Job : FlushForget(r, k)
      BY <2>2, <3>2 DEF FlushRead, FlushForget, dbVars
    <3> QED BY <2>4, <3>1, <3>2 DEF Flush
  <2>5. ASSUME NEW k \in Job, GiveUp(k) PROVE row'[j].status = row[j].status
    <3>1. <<k, FALSE>> \in rows => spawned[k] = 0 /\ (spawned[k] = 0 => row[k].status \in Live)
      BY <1>1 DEF VideoInv, Unattended
    <3>2. k # j
      BY <1>1, <2>5, <3>1 DEF GiveUp, Ended, Live
    <3> QED BY <2>2, <2>3, <2>5, <3>2 DEF GiveUp, Interrupted, dbVars
  <2>6. ASSUME NEW k \in Job, NEW kind, Create(k, kind) PROVE row'[j].status = row[j].status
    <3>1. k # j
      BY <1>1, <2>0, <2>6 DEF Create, NoRow
    <3> QED BY <2>0, <2>6, <3>1 DEF Create
  <2>7. CASE RecoverBegin \/ RecoverEnd \/ Shutdown \/ Crash \/ Exit
    BY <2>2, <2>7 DEF RecoverBegin, RecoverEnd, Shutdown, Crash, Exit, Restarted, dbVars
  <2>8. ASSUME NEW k \in Job, Resume(k) \/ Repeat(k) PROVE row'[j].status = row[j].status
    BY <2>2, <2>8 DEF Resume, Repeat, dbVars, videoVars
  <2>9. CASE UNCHANGED videoVars
    BY <2>2, <2>9 DEF videoVars
  <2> QED BY <1>1, <2>1, <2>4, <2>5, <2>6, <2>7, <2>8, <2>9 DEF Next, Recovery
<1>2. VideoInv /\ CopyInv /\ [Next]_videoVars =>
        \A j \in Job : row[j].status \in Ended /\ spawned[j] <= 1 => row'[j].status = row[j].status
  BY <1>1
<1> QED BY <1>2, VideoCorrect, PTL DEF Spec, EndedStays
=============================================================================

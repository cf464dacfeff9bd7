------------------------------ MODULE TaskProofs ------------------------------
(*****************************************************************************)
(* The theorems of TaskStore, of its refinement of TaskLifecycle, and of     *)
(* TaskRunner, which composes the store with the runner, in this order: each *)
(* part rests on the one before.  They hold for every set of tasks, slices   *)
(* and submissions and for any number of routes, faults and crashes.         *)
(*****************************************************************************)
EXTENDS TaskRunner, WellFoundedInduction, TLAPS

-----------------------------------------------------------------------------
(*****************************************************************************)
(* I. The task store.                                                        *)
(* Its types, and what its transactions keep of tasks, jobs, slices and      *)
(* submissions.                                                              *)
(*****************************************************************************)

\* Rewriting every job of a task keeps its number of jobs.
LEMMA RewriteSeq ==
  ASSUME NEW S, NEW s \in Seq(S), NEW D, NEW v \in S
  PROVE  /\ [i \in DOMAIN s |-> IF i \in D THEN v ELSE s[i]] \in Seq(S)
         /\ DOMAIN [i \in DOMAIN s |-> IF i \in D THEN v ELSE s[i]] = DOMAIN s
  OBVIOUS

LEMMA AppendSeq ==
  ASSUME NEW S, NEW s \in Seq(S), NEW v \in S
  PROVE  /\ Append(s, v) \in Seq(S)
         /\ DOMAIN Append(s, v) = DOMAIN s \cup {Len(s) + 1}
         /\ Len(s) + 1 \notin DOMAIN s
         /\ Append(s, v)[Len(s) + 1] = v
         /\ \A i \in DOMAIN s : Append(s, v)[i] = s[i]
  OBVIOUS

LEMMA ExceptSeq ==
  ASSUME NEW S, NEW s \in Seq(S), NEW k \in DOMAIN s, NEW v \in S
  PROVE  /\ [s EXCEPT ![k] = v] \in Seq(S)
         /\ DOMAIN [s EXCEPT ![k] = v] = DOMAIN s
  OBVIOUS

LEMMA DiscardType ==
  ASSUME TypeOK, NEW D
  PROVE  /\ AfterDiscard(D) \in [Task -> Seq(JobStatus)]
         /\ \A t \in Task : DOMAIN AfterDiscard(D)[t] = DOMAIN jobs[t]
  <1> SUFFICES ASSUME NEW t \in Task
               PROVE  /\ AfterDiscard(D)[t] \in Seq(JobStatus)
                      /\ DOMAIN AfterDiscard(D)[t] = DOMAIN jobs[t]
    BY DEF AfterDiscard
  <1> DEFINE N == {k \in DOMAIN jobs[t] : <<t, k>> \in D}
  <1>1. AfterDiscard(D)[t] = [k \in DOMAIN jobs[t] |-> IF k \in N THEN "aborted" ELSE jobs[t][k]]
    BY DEF AfterDiscard
  <1>2. jobs[t] \in Seq(JobStatus) /\ "aborted" \in JobStatus
    BY DEF TypeOK, JobStatus
  <1> HIDE DEF N
  <1> QED BY <1>1, <1>2, RewriteSeq

-----------------------------------------------------------------------------
(* Types.                                                                  *)

LEMMA EarlierType ==
  ASSUME NEW w \in Submission
  PROVE  Earlier(w) \subseteq Task
  BY DEF Earlier, Submission

\* What a step of a submission is, whichever slice its file is of.
LEMMA SubmitCases ==
  ASSUME SubmitStep
  PROVE  \E c \in Client :
           \/ \E file \in SUBSET Task : \E deps \in [file -> SUBSET Task] :
                ValidFile(file, deps) /\ SubmitBegin(c, file, deps)
           \/ SubmitCommit(c)
           \/ SubmitAbort(c)
  <1>1. PICK c \in Client :
          \/ \E s \in Slice :
               \E file \in SUBSET {t \in Task : SliceOf[t] = s} :
                 \E deps \in [file -> SUBSET {t \in Task : SliceOf[t] = s}] :
                   ValidFile(file, deps) /\ SubmitBegin(c, file, deps)
          \/ SubmitCommit(c)
          \/ SubmitAbort(c)
    BY DEF SubmitStep, Graphs
  <1>2. ASSUME NEW s \in Slice, NEW file \in SUBSET {t \in Task : SliceOf[t] = s},
               NEW deps \in [file -> SUBSET {t \in Task : SliceOf[t] = s}],
               ValidFile(file, deps), SubmitBegin(c, file, deps)
        PROVE  \E f \in SUBSET Task : \E d \in [f -> SUBSET Task] :
                 ValidFile(f, d) /\ SubmitBegin(c, f, d)
    <2>1. file \in SUBSET Task /\ deps \in [file -> SUBSET Task]
      OBVIOUS
    <2> QED BY <1>2, <2>1
  <1> QED BY <1>1, <1>2

LEMMA SubmitType ==
  ASSUME TypeOK, SubmitStep
  PROVE  TypeOK'
  <1>0. NoFile \in Submission
    BY DEF NoFile, Submission
  <1>1. ASSUME NEW c \in Client, NEW file \in SUBSET Task,
               NEW deps \in [file -> SUBSET Task], SubmitBegin(c, file, deps)
        PROVE  TypeOK'
    <2> DEFINE w == [file |-> file,
                     deps |-> [t \in Task |-> IF t \in file THEN deps[t] ELSE {}],
                     done |-> {}]
    <2>1. w \in Submission
      BY DEF Submission
    <2>2. Earlier(w) \subseteq Task
      BY <2>1, EarlierType
    <2>3. [w EXCEPT !.done = {d \in Earlier(w) : status[d] = "done"}] \in Submission
      BY <2>1, <2>2 DEF Submission
    <2>4. writing' = [writing EXCEPT ![c] =
                        [w EXCEPT !.done = {d \in Earlier(w) : status[d] = "done"}]]
      BY <1>1 DEF SubmitBegin
    <2> HIDE DEF w
    <2> QED BY <1>1, <2>3, <2>4 DEF SubmitBegin, TypeOK
  <1>2. ASSUME NEW c \in Client, SubmitCommit(c)
        PROVE  TypeOK'
    <2>1. writing' \in [Client -> Submission]
      BY <1>0, <1>2 DEF SubmitCommit, TypeOK
    <2>2. writing[c].file \subseteq Task /\ writing[c].deps \in [Task -> SUBSET Task]
      BY DEF TypeOK, Submission
    <2>3. CASE UNCHANGED <<status, depends, jobs>>
      BY <1>2, <2>1, <2>3 DEF SubmitCommit, TypeOK
    <2>4. CASE \A t \in writing[c].file : status[t] = "absent"
      <3> DEFINE ready == {t \in writing[c].file : writing[c].deps[t] \subseteq writing[c].done}
      <3>1. /\ status' = [t \in Task |-> IF t \in writing[c].file THEN "queued" ELSE status[t]]
            /\ depends' = [t \in Task |-> IF t \in writing[c].file THEN writing[c].deps[t]
                                                                   ELSE depends[t]]
            /\ jobs' = [t \in Task |-> IF t \in ready THEN Append(jobs[t], "todo") ELSE jobs[t]]
        BY <1>2, <2>4 DEF SubmitCommit
      <3> HIDE DEF ready
      <3>2. status' \in [Task -> TaskStatus] /\ depends' \in [Task -> SUBSET Task]
        BY <2>2, <3>1 DEF TypeOK, TaskStatus
      <3>3. jobs' \in [Task -> Seq(JobStatus)]
        <4>1. \A t \in Task : jobs[t] \in Seq(JobStatus) /\ "todo" \in JobStatus
          BY DEF TypeOK, JobStatus
        <4>2. \A t \in Task : Append(jobs[t], "todo") \in Seq(JobStatus)
          BY <4>1, AppendSeq
        <4> QED BY <3>1, <4>1, <4>2
      <3> QED BY <1>2, <2>1, <3>2, <3>3 DEF SubmitCommit, TypeOK
    <2> QED BY <1>2, <2>3, <2>4 DEF SubmitCommit
  <1>3. ASSUME NEW c \in Client, SubmitAbort(c)
        PROVE  TypeOK'
    BY <1>0, <1>3 DEF SubmitAbort, TypeOK
  <1> QED BY <1>1, <1>2, <1>3, SubmitCases

LEMMA ClaimType ==
  ASSUME TypeOK, NEW p \in JobsIn("todo"), Claim(p[1], p[2])
  PROVE  TypeOK'
  <1>1. PICK t \in Task : p[1] = t /\ p[2] \in DOMAIN jobs[t]
    BY DEF JobsIn
  <1>2. PICK D : jobs' = [AfterDiscard(D) EXCEPT ![t][p[2]] = "doing"]
    BY <1>1 DEF Claim
  <1>3. jobs' \in [Task -> Seq(JobStatus)]
    <2>1. AfterDiscard(D)[t] \in Seq(JobStatus) /\ p[2] \in DOMAIN AfterDiscard(D)[t]
      BY <1>1, DiscardType
    <2>2. [AfterDiscard(D)[t] EXCEPT ![p[2]] = "doing"] \in Seq(JobStatus)
      BY <2>1, ExceptSeq DEF JobStatus
    <2> QED BY <1>2, <2>2, DiscardType
  <1>4. p[2] \in Nat \ {0}
    BY <1>1 DEF TypeOK
  <1> QED BY <1>1, <1>3, <1>4 DEF Claim, TypeOK, TaskStatus

LEMMA RecoverType ==
  ASSUME TypeOK, Recover
  PROVE  TypeOK'
  <1>1. jobs' \in [Task -> Seq(JobStatus)]
    <2> SUFFICES ASSUME NEW t \in Task PROVE jobs'[t] \in Seq(JobStatus)
      BY DEF Recover, Returned, TasksReturned
    <2> DEFINE N == {k \in DOMAIN jobs[t] : jobs[t][k] = "doing"}
    <2>1. jobs'[t] = [k \in DOMAIN jobs[t] |-> IF k \in N THEN "todo" ELSE jobs[t][k]]
      BY DEF Recover, Returned, TasksReturned
    <2>2. jobs[t] \in Seq(JobStatus) /\ "todo" \in JobStatus
      BY DEF TypeOK, JobStatus
    <2> HIDE DEF N
    <2> QED BY <2>1, <2>2, RewriteSeq
  <1> QED BY <1>1 DEF Recover, TasksReturned, TypeOK, TaskStatus, AttemptStatus

LEMMA CloseType ==
  ASSUME TypeOK, NEW t \in Task, NEW k, NEW ending \in {"done", "failed", "escalated"},
         CloseTask(t, k, ending)
  PROVE  TypeOK'
  <1> DEFINE closed == [jobs EXCEPT ![t][k] = JobEnding(ending)]
  <1>1. closed \in [Task -> Seq(JobStatus)]
    <2>1. jobs[t] \in Seq(JobStatus) /\ k \in DOMAIN jobs[t] /\ JobEnding(ending) \in JobStatus
      BY DEF TypeOK, CloseTask, JobEnding, JobStatus
    <2>2. [jobs[t] EXCEPT ![k] = JobEnding(ending)] \in Seq(JobStatus)
      BY <2>1, ExceptSeq
    <2> QED BY <2>2 DEF TypeOK
  <1>2. jobs' \in [Task -> Seq(JobStatus)]
    <2>1. \A u \in Task : Append(closed[u], "todo") \in Seq(JobStatus)
      BY <1>1, AppendSeq DEF JobStatus
    <2> HIDE DEF closed
    <2>2. jobs' = [u \in Task |-> IF ending = "done" /\ u \in Released(t)
                                   THEN Append(closed[u], "todo") ELSE closed[u]]
      BY DEF CloseTask, closed
    <2> QED BY <1>1, <2>1, <2>2
  <1>3. stopped' \subseteq Slice
    <2>1. SliceOf[t] \in Slice /\ stopped \subseteq Slice
      BY StoreAssumption DEF TypeOK
    <2> QED BY <2>1 DEF CloseTask
  <1> QED BY <1>2, <1>3 DEF CloseTask, TypeOK, TaskStatus

LEMMA FinishType ==
  ASSUME TypeOK, FinishStep
  PROVE  TypeOK'
  <1>1. PICK p \in handed :
          \/ \E n \in Number : BeginAttempt(p[1], n)
          \/ \E n \in Number, result \in {"done", "failed"} : EndAttempt(p[1], n, result)
          \/ \E ending \in {"done", "failed", "escalated"} : EndTask(p[1], p[2], ending)
    BY DEF FinishStep
  <1>2. p[1] \in Task
    BY DEF TypeOK
  <1>3. ASSUME NEW n \in Number, BeginAttempt(p[1], n)
        PROVE  TypeOK'
    BY <1>2, <1>3 DEF BeginAttempt, TypeOK, AttemptStatus
  <1>4. ASSUME NEW n \in Number, NEW result \in {"done", "failed"}, EndAttempt(p[1], n, result)
        PROVE  TypeOK'
    <2>1. CASE UNCHANGED <<attempts, leads>>
      BY <1>4, <2>1 DEF EndAttempt, TypeOK
    <2>2. CASE attempts[p[1]][n] = "running"
      <3>0. /\ attempts' = [attempts EXCEPT ![p[1]][n] = result]
            /\ leads' = [leads EXCEPT ![p[1]][n] = @ + 1]
        BY <1>4, <2>2 DEF EndAttempt
      <3>1. attempts' \in [Task -> [Number -> AttemptStatus]]
        <4>1. attempts \in [Task -> [Number -> AttemptStatus]] /\ result \in AttemptStatus
          BY DEF TypeOK, AttemptStatus
        <4> QED BY <1>2, <3>0, <4>1
      <3>2. leads[p[1]][n] + 1 \in Nat
        BY <1>2 DEF TypeOK
      <3>3. leads' \in [Task -> [Number -> Nat]]
        <4>1. leads \in [Task -> [Number -> Nat]]
          BY DEF TypeOK
        <4> QED BY <1>2, <3>0, <3>2, <4>1
      <3> QED BY <1>4, <3>1, <3>3 DEF EndAttempt, TypeOK
    <2> QED BY <1>4, <2>1, <2>2 DEF EndAttempt
  <1>5. ASSUME NEW ending \in {"done", "failed", "escalated"}, EndTask(p[1], p[2], ending)
        PROVE  TypeOK'
    <2>1. CASE CloseTask(p[1], p[2], ending)
      BY <1>2, <2>1, CloseType
    <2>2. CASE UNCHANGED storeVars
      BY <2>2 DEF storeVars, TypeOK
    <2> QED BY <1>5, <2>1, <2>2 DEF EndTask
  <1> QED BY <1>1, <1>3, <1>4, <1>5

LEMMA OwnerType ==
  ASSUME TypeOK, OwnerStep
  PROVE  TypeOK'
  <1>1. ASSUME NEW t \in Task, OwnerClear(t) PROVE TypeOK'
    BY <1>1 DEF OwnerClear, TypeOK, TaskStatus
  <1>2. ASSUME NEW t \in Task, OwnerDefer(t) PROVE TypeOK'
    BY <1>2, AppendSeq DEF OwnerDefer, TypeOK, JobStatus
  <1> QED BY <1>1, <1>2 DEF OwnerStep

LEMMA TypeStep ==
  ASSUME TypeOK, [Next]_storeVars
  PROVE  TypeOK'
  <1>1. CASE ClaimNothing
    BY <1>1, DiscardType DEF ClaimNothing, TypeOK
  <1>2. CASE UNCHANGED storeVars
    BY <1>2 DEF storeVars, TypeOK
  <1> QED
    BY <1>1, <1>2, SubmitType, ClaimType, RecoverType, FinishType, OwnerType DEF Next

LEMMA InitType == Init => TypeOK
  <1> <<>> \in Seq(JobStatus)
    OBVIOUS
  <1> QED BY DEF Init, TypeOK, NoFile, Submission, TaskStatus, AttemptStatus

\* TypeOK holds of every reachable state, whatever the constants.
THEOREM TypeCorrect == Spec => []TypeOK
  <1>1. Init => TypeOK
    BY InitType
  <1>2. TypeOK /\ [Next]_storeVars => TypeOK'
    BY TypeStep
  <1> QED BY <1>1, <1>2, PTL DEF Spec

-----------------------------------------------------------------------------
(* The inductive invariant: one lemma per transaction.                     *)

\* Steps that touch only attempts, traces and histories keep the invariant.
LEMMA FrameInv ==
  ASSUME StoreInv, TypeOK', UNCHANGED <<status, depends, jobs, writing, stopped>>
  PROVE  StoreInv'
  BY DEF StoreInv, JobTaskAgree, OneLiveJob, NoTaskStranded, DependenciesFirst,
         OpenSubmissions, TablesFit, HasJobIn, Ready, DepsDone, Earlier

LEMMA EarlierDef ==
  ASSUME NEW w
  PROVE  \A d : d \in Earlier(w) <=> d \notin w.file /\ \E t \in w.file : d \in w.deps[t]
  <1> SUFFICES ASSUME NEW d
               PROVE  d \in Earlier(w) <=> d \notin w.file /\ \E t \in w.file : d \in w.deps[t]
    OBVIOUS
  <1>1. d \in UNION {w.deps[t] : t \in w.file} <=> \E S \in {w.deps[t] : t \in w.file} : d \in S
    OBVIOUS
  <1>2. (\E S \in {w.deps[t] : t \in w.file} : d \in S) <=> \E t \in w.file : d \in w.deps[t]
    OBVIOUS
  <1> QED BY <1>1, <1>2 DEF Earlier

LEMMA FirstJob ==
  ASSUME NEW v
  PROVE  DOMAIN Append(<<>>, v) = {1} /\ Append(<<>>, v)[1] = v /\ DOMAIN <<>> = {}
  OBVIOUS

LEMMA NoFileEarlier == Earlier(NoFile) = {} /\ NoFile.file = {} /\ NoFile.done = {}
  BY DEF Earlier, NoFile

\* Opening or dropping a submission: only OpenSubmissions looks at it.
LEMMA SubmitBeginInv ==
  ASSUME StoreInv, TypeOK', NEW c \in Client, NEW file \in SUBSET Task,
         NEW deps \in [file -> SUBSET Task], ValidFile(file, deps), SubmitBegin(c, file, deps)
  PROVE  StoreInv'
  <1> DEFINE w == [file |-> file,
                   deps |-> [t \in Task |-> IF t \in file THEN deps[t] ELSE {}],
                   done |-> {}]
             v == [w EXCEPT !.done = {d \in Earlier(w) : status[d] = "done"}]
  <1>1. /\ writing' = [writing EXCEPT ![c] = v]
        /\ UNCHANGED <<status, depends, jobs, stopped>>
        /\ \A d \in Earlier(w) : status[d] # "absent"
    BY DEF SubmitBegin
  <1>2. Earlier(v) = Earlier(w) /\ v.done = {d \in Earlier(w) : status[d] = "done"}
    BY DEF Earlier
  <1>3. \A t \in v.file : \A d \in v.deps[t] : SliceOf[d] = SliceOf[t]
    <2>1. \A t \in file : \A d \in deps[t] : SliceOf[d] = SliceOf[t]
      BY DEF ValidFile
    <2>2. v.file = file /\ \A t \in file : v.deps[t] = deps[t]
      OBVIOUS
    <2> HIDE DEF v
    <2> QED BY <2>1, <2>2
  <1> HIDE DEF v, w
  <1>4. \A e \in Client : writing'[e] = IF e = c THEN v ELSE writing[e]
    BY <1>1 DEF StoreInv, TypeOK
  <1>5. OpenSubmissions'
    BY <1>1, <1>2, <1>3, <1>4 DEF StoreInv, OpenSubmissions
  <1>6. (JobTaskAgree /\ OneLiveJob /\ NoTaskStranded /\ DependenciesFirst /\ TablesFit)'
    BY <1>1 DEF StoreInv, JobTaskAgree, OneLiveJob, NoTaskStranded, DependenciesFirst, TablesFit,
                HasJobIn, Ready, DepsDone
  <1> QED BY <1>5, <1>6 DEF StoreInv

LEMMA DropSubmissionInv ==
  ASSUME StoreInv, TypeOK', NEW c \in Client, writing' = [writing EXCEPT ![c] = NoFile],
         UNCHANGED <<status, depends, jobs, stopped>>
  PROVE  StoreInv'
  <1>1. \A e \in Client : writing'[e] = IF e = c THEN NoFile ELSE writing[e]
    BY DEF StoreInv, TypeOK
  <1>2. OpenSubmissions'
    BY <1>1, NoFileEarlier DEF StoreInv, OpenSubmissions
  <1>3. (JobTaskAgree /\ OneLiveJob /\ NoTaskStranded /\ DependenciesFirst /\ TablesFit)'
    BY DEF StoreInv, JobTaskAgree, OneLiveJob, NoTaskStranded, DependenciesFirst, TablesFit,
           HasJobIn, Ready, DepsDone
  <1> QED BY <1>2, <1>3 DEF StoreInv

\* A file's rows and jobs appear at once.  What the share lock bought is used
\* here: the dependencies the submission saw done are exactly those done now.
LEMMA SubmitCommitInv ==
  ASSUME StoreInv, TypeOK', NEW c \in Client, SubmitCommit(c)
  PROVE  StoreInv'
  <1> DEFINE w == writing[c]
             F == w.file
             ready == {t \in F : w.deps[t] \subseteq w.done}
  <1>1. writing' = [writing EXCEPT ![c] = NoFile] /\ UNCHANGED stopped
    BY DEF SubmitCommit
  <1>2. CASE UNCHANGED <<status, depends, jobs>>
    BY <1>1, <1>2, DropSubmissionInv
  <1>3. CASE \A t \in F : status[t] = "absent"
    <2>1. /\ status' = [t \in Task |-> IF t \in F THEN "queued" ELSE status[t]]
          /\ depends' = [t \in Task |-> IF t \in F THEN w.deps[t] ELSE depends[t]]
          /\ jobs' = [t \in Task |-> IF t \in ready THEN Append(jobs[t], "todo") ELSE jobs[t]]
      BY <1>3 DEF SubmitCommit
    <2>2. F \subseteq Task /\ \A t \in F : w.deps[t] \subseteq Task
      BY DEF StoreInv, TypeOK, Submission
    <2>3. \A t \in F : jobs[t] = <<>> /\ depends[t] = {}
      BY <1>3, <2>2 DEF StoreInv, TablesFit
    <2>4. \A t \in ready : DOMAIN jobs'[t] = {1} /\ jobs'[t][1] = "todo"
      BY <2>1, <2>2, <2>3, FirstJob
    <2>5. \A t \in F : t \notin ready => jobs'[t] = <<>>
      BY <2>1, <2>2, <2>3
    <2>6. \A t \in Task : t \notin F => /\ jobs'[t] = jobs[t] /\ status'[t] = status[t]
                                       /\ depends'[t] = depends[t]
      BY <2>1
    <2>7. \A t \in F : status'[t] = "queued" /\ depends'[t] = w.deps[t]
      BY <2>1, <2>2
    <2>8. \A t \in F : \A d \in w.deps[t] : d \in F \/ d \in Earlier(w)
      BY EarlierDef
    <2>9. /\ \A d \in Earlier(w) : d \in Task /\ d \notin F /\ status[d] # "absent"
          /\ w.done = {d \in Earlier(w) : status[d] = "done"}
      BY <2>2, EarlierDef DEF StoreInv, OpenSubmissions
    <2>10. \A t \in Task : \A d \in depends[t] : d \in Task /\ d \notin F
      BY <1>3, <2>2 DEF StoreInv, TypeOK, TablesFit
    <2>11. \A t \in Task : t \notin F => (DepsDone(t)' <=> DepsDone(t))
      BY <2>6, <2>10 DEF DepsDone
    <2>12. \A t \in F : DepsDone(t)' <=> t \in ready
      <3> SUFFICES ASSUME NEW t \in F PROVE DepsDone(t)' <=> t \in ready
        OBVIOUS
      <3>1. ASSUME t \in ready, NEW d \in w.deps[t] PROVE status'[d] = "done"
        BY <2>6, <2>9, <3>1
      <3>2. ASSUME \A d \in w.deps[t] : status'[d] = "done" PROVE t \in ready
        <4> SUFFICES ASSUME NEW d \in w.deps[t] PROVE d \in w.done
          OBVIOUS
        <4>1. d \in Earlier(w)
          BY <2>7, <2>8, <3>2
        <4> QED BY <2>6, <2>9, <3>2, <4>1
      <3> QED BY <2>7, <3>1, <3>2 DEF DepsDone
    <2> HIDE DEF ready, F
    <2>13. DOMAIN <<>> = {}
      BY FirstJob
    <2>14. JobTaskAgree'
      BY <2>4, <2>5, <2>6, <2>7, <2>13 DEF StoreInv, JobTaskAgree, HasJobIn
    <2>15. OneLiveJob'
      BY <2>4, <2>5, <2>6, <2>13 DEF StoreInv, OneLiveJob
    <2>16. NoTaskStranded'
      BY <1>1, <2>4, <2>6, <2>11, <2>12, <2>13 DEF StoreInv, NoTaskStranded, Ready, HasJobIn
    <2>17. DependenciesFirst'
      BY <2>5, <2>6, <2>7, <2>11, <2>12, <2>13 DEF StoreInv, DependenciesFirst, HasJobIn
    <2>18. TablesFit'
      <3>1. ASSUME NEW t \in Task, NEW d \in depends'[t] PROVE status'[d] # "absent"
        <4>1. CASE t \in F
          BY <2>6, <2>7, <2>8, <2>9, <3>1, <4>1
        <4>2. CASE t \notin F
          <5>1. d \in depends[t] /\ d \in Task /\ d \notin F
            BY <2>6, <2>10, <3>1, <4>2
          <5> QED BY <2>6, <5>1 DEF StoreInv, TablesFit
        <4> QED BY <4>1, <4>2
      <3> QED BY <1>1, <2>4, <2>5, <2>6, <2>7, <2>13, <3>1 DEF StoreInv, TablesFit, HasJobIn
    <2>19. OpenSubmissions'
      <3>1. \A e \in Client : writing'[e] = IF e = c THEN NoFile ELSE writing[e]
        BY <1>1 DEF StoreInv, TypeOK
      <3>2. \A e \in Client : \A d \in Earlier(writing[e]) : status'[d] = status[d]
        <4> SUFFICES ASSUME NEW e \in Client, NEW d \in Earlier(writing[e])
                     PROVE  status'[d] = status[d]
          OBVIOUS
        <4>1. d \in Task
          BY EarlierType DEF StoreInv, TypeOK
        <4>2. d \notin F
          BY <1>3 DEF StoreInv, OpenSubmissions, F
        <4> QED BY <2>6, <4>1, <4>2
      <3>3. \A e \in Client : e # c => /\ Earlier(writing'[e]) = Earlier(writing[e])
                                      /\ writing'[e] = writing[e]
        BY <3>1
      <3> QED BY <3>1, <3>2, <3>3, NoFileEarlier DEF StoreInv, OpenSubmissions
    <2> QED BY <2>14, <2>15, <2>16, <2>17, <2>18, <2>19 DEF StoreInv
  <1> QED BY <1>2, <1>3 DEF SubmitCommit

\* A job the claim discards belongs to a queued task of a stopped slice.
LEMMA Discarded ==
  ASSUME StoreInv, NEW D, D \subseteq Discardable, NEW t \in Task, NEW k \in DOMAIN jobs[t]
  PROVE  \/ AfterDiscard(D)[t][k] = jobs[t][k]
         \/ /\ AfterDiscard(D)[t][k] = "aborted"
            /\ jobs[t][k] = "todo" /\ status[t] = "queued"
            /\ SliceStopped(SliceOf[t]) /\ SliceOf[t] \in stopped
  <1>1. AfterDiscard(D)[t][k] = IF <<t, k>> \in D THEN "aborted" ELSE jobs[t][k]
    BY DEF AfterDiscard
  <1>2. CASE <<t, k>> \in D
    <2>1. <<t, k>> \in Discardable
      BY <1>2
    <2>2. jobs[t][k] = "todo" /\ (status[t] # "queued" \/ SliceStopped(SliceOf[t]))
      BY <2>1 DEF Discardable, JobsIn
    <2>3. status[t] = "queued"
      BY <2>2 DEF StoreInv, TablesFit, HasJobIn
    <2> QED BY <1>1, <1>2, <2>2, <2>3 DEF StoreInv, TablesFit, SliceStopped
  <1> QED BY <1>1, <1>2

\* Throwing away jobs of stopped slices keeps every promise.
LEMMA ClaimNothingInv ==
  ASSUME StoreInv, TypeOK', ClaimNothing
  PROVE  StoreInv'
  <1>1. jobs' = AfterDiscard(Discardable) /\ UNCHANGED <<status, depends, writing, stopped>>
    BY DEF ClaimNothing
  <1>2. \A t \in Task : DOMAIN jobs'[t] = DOMAIN jobs[t]
    BY <1>1, DiscardType DEF StoreInv
  <1>3. \A t \in Task : \A k \in DOMAIN jobs[t] :
          \/ jobs'[t][k] = jobs[t][k]
          \/ jobs'[t][k] = "aborted" /\ jobs[t][k] = "todo" /\ SliceOf[t] \in stopped
    <2>1. Discardable \subseteq Discardable
      OBVIOUS
    <2> QED BY <1>1, <2>1, Discarded
  <1>4. JobTaskAgree' /\ OneLiveJob'
    BY <1>1, <1>2, <1>3 DEF StoreInv, JobTaskAgree, OneLiveJob, HasJobIn
  <1>5. NoTaskStranded' /\ DependenciesFirst'
    BY <1>1, <1>2, <1>3
       DEF StoreInv, NoTaskStranded, DependenciesFirst, HasJobIn, Ready, DepsDone
  <1>6. OpenSubmissions'
    BY <1>1 DEF StoreInv, OpenSubmissions, Earlier
  <1>7. TablesFit'
    <2>1. \A t \in Task : jobs[t] = <<>> => jobs'[t] = <<>>
      BY <1>1 DEF AfterDiscard
    <2> QED BY <1>1, <1>2, <1>3, <2>1 DEF StoreInv, TablesFit, HasJobIn
  <1> QED BY <1>4, <1>5, <1>6, <1>7 DEF StoreInv

\* A claim turns one todo job into doing as its task turns running.
LEMMA ClaimInv ==
  ASSUME StoreInv, TypeOK', NEW t \in Task, NEW k \in DOMAIN jobs[t], Claim(t, k)
  PROVE  StoreInv'
  <1>1. PICK D \in SUBSET Discardable : jobs' = [AfterDiscard(D) EXCEPT ![t][k] = "doing"]
    BY DEF Claim
  <1>2. /\ jobs[t][k] = "todo" /\ status[t] = "queued" /\ t \notin Locked
        /\ status' = [status EXCEPT ![t] = "running"]
        /\ UNCHANGED <<depends, writing, stopped>>
    BY DEF Claim, JobsIn
  <1>3. \A u \in Task : DOMAIN jobs'[u] = DOMAIN jobs[u]
    BY <1>1, DiscardType DEF StoreInv
  <1>4. jobs'[t][k] = "doing"
    BY <1>1, DiscardType DEF StoreInv
  <1>5. \A u \in Task : \A i \in DOMAIN jobs[u] :
          \/ u = t /\ i = k
          \/ jobs'[u][i] = jobs[u][i]
          \/ jobs'[u][i] = "aborted" /\ jobs[u][i] = "todo" /\ SliceOf[u] \in stopped
    <2> SUFFICES ASSUME NEW u \in Task, NEW i \in DOMAIN jobs[u], ~(u = t /\ i = k)
                 PROVE  jobs'[u][i] = AfterDiscard(D)[u][i]
      <3>1. \A u \in Task : \A i \in DOMAIN jobs[u] :
              \/ AfterDiscard(D)[u][i] = jobs[u][i]
              \/ AfterDiscard(D)[u][i] = "aborted" /\ jobs[u][i] = "todo" /\ SliceOf[u] \in stopped
        <4>1. D \subseteq Discardable
          OBVIOUS
        <4> QED BY <4>1, Discarded
      <3> QED BY <3>1
    <2> QED BY <1>1, DiscardType DEF StoreInv
  <1>6. /\ status'[t] = "running"
        /\ \A u \in Task : u # t => status'[u] = status[u]
    BY <1>2 DEF StoreInv, TypeOK
  <1>7. \A u \in Task : DepsDone(u)' <=> DepsDone(u)
    BY <1>2, <1>6 DEF DepsDone, StoreInv, TypeOK
  <1>8. JobTaskAgree'
    BY <1>3, <1>4, <1>5, <1>6 DEF StoreInv, JobTaskAgree, HasJobIn
  <1>9. OneLiveJob'
    BY <1>2, <1>3, <1>5 DEF StoreInv, OneLiveJob
  <1>10. NoTaskStranded'
    BY <1>2, <1>3, <1>5, <1>6, <1>7 DEF StoreInv, NoTaskStranded, Ready, HasJobIn
  <1>11. DependenciesFirst'
    <2>1. DepsDone(t)
      BY <1>2 DEF StoreInv, DependenciesFirst, HasJobIn
    <2> QED BY <1>3, <1>5, <1>6, <1>7, <2>1 DEF StoreInv, DependenciesFirst, HasJobIn
  <1>12. OpenSubmissions'
    <2>1. \A c \in Client : \A d \in Earlier(writing[c]) : d \in Task
      BY EarlierType DEF StoreInv, TypeOK
    <2>2. \A c \in Client : \A d \in Earlier(writing[c]) :
            (status'[d] = "done" <=> status[d] = "done") /\ status'[d] # "absent"
      BY <1>2, <1>6, <2>1 DEF StoreInv, OpenSubmissions
    <2>3. \A c \in Client : Earlier(writing[c])' = Earlier(writing[c])
      BY <1>2
    <2> QED BY <1>2, <2>2, <2>3 DEF StoreInv, OpenSubmissions
  <1>13. TablesFit'
    <2>1. \A u \in Task : HasJobIn(u, {"todo"})' => status'[u] = "queued"
      <3>1. ~HasJobIn(t, {"todo"})'
        BY <1>2, <1>3, <1>4, <1>5 DEF HasJobIn, StoreInv, OneLiveJob
      <3> QED BY <1>3, <1>5, <1>6, <3>1 DEF StoreInv, TablesFit, HasJobIn
    <2>2. \A u \in Task : status'[u] = "absent" => jobs'[u] = <<>> /\ depends'[u] = {}
      <3>1. \A u \in Task : u # t /\ jobs[u] = <<>> => jobs'[u] = <<>>
        BY <1>1, DiscardType DEF AfterDiscard, StoreInv
      <3> QED BY <1>2, <1>6, <3>1 DEF StoreInv, TablesFit
    <2>3. \A u \in Task : \A d \in depends'[u] : status'[d] # "absent"
      BY <1>2, <1>6 DEF StoreInv, TablesFit, TypeOK
    <2>4. \A u \in Task : status'[u] \in {"failed", "escalated"} => SliceOf[u] \in stopped'
      BY <1>2, <1>6 DEF StoreInv, TablesFit
    <2> QED BY <2>1, <2>2, <2>3, <2>4 DEF TablesFit
  <1> QED BY <1>8, <1>9, <1>10, <1>11, <1>12, <1>13 DEF StoreInv

\* Recovery undoes every claim at once: job, task and attempt together.
LEMMA RecoverInv ==
  ASSUME StoreInv, TypeOK', Recover
  PROVE  StoreInv'
  <1>1. /\ \A t \in Task : DOMAIN jobs'[t] = DOMAIN jobs[t]
        /\ \A t \in Task : \A k \in DOMAIN jobs[t] :
             jobs'[t][k] = IF jobs[t][k] = "doing" THEN "todo" ELSE jobs[t][k]
    BY DEF Recover, Returned, TasksReturned
  <1>2. /\ \A t \in Task : status'[t] = IF status[t] = "running" THEN "queued" ELSE status[t]
        /\ UNCHANGED <<depends, writing, stopped>>
        /\ \A t \in Locked : status[t] # "running"
    BY DEF Recover, Returned, TasksReturned
  <1>3. \A t \in Task : DepsDone(t)' <=> DepsDone(t)
    BY <1>2 DEF DepsDone, StoreInv, TypeOK
  <1>4. JobTaskAgree' /\ OneLiveJob'
    BY <1>1, <1>2 DEF StoreInv, JobTaskAgree, OneLiveJob, HasJobIn
  <1>5. NoTaskStranded'
    BY <1>1, <1>2, <1>3 DEF StoreInv, NoTaskStranded, JobTaskAgree, HasJobIn, Ready
  <1>6. DependenciesFirst'
    BY <1>1, <1>2, <1>3 DEF StoreInv, DependenciesFirst, HasJobIn
  <1>7. OpenSubmissions'
    <2>1. \A c \in Client : \A d \in Earlier(writing[c]) : d \in Task
      BY EarlierType DEF StoreInv, TypeOK
    <2>2. \A c \in Client : \A d \in Earlier(writing[c]) :
            (status'[d] = "done" <=> status[d] = "done") /\ status'[d] # "absent"
      BY <1>2, <2>1 DEF StoreInv, OpenSubmissions
    <2>3. \A c \in Client : Earlier(writing[c])' = Earlier(writing[c])
      BY <1>2
    <2> QED BY <1>2, <2>2, <2>3 DEF StoreInv, OpenSubmissions
  <1>8. TablesFit'
    <2>1. \A t \in Task : HasJobIn(t, {"todo"})' => status'[t] = "queued"
      BY <1>1, <1>2 DEF StoreInv, TablesFit, JobTaskAgree, HasJobIn
    <2>2. \A t \in Task : jobs[t] = <<>> => jobs'[t] = <<>>
      BY DEF Recover, Returned, TasksReturned
    <2>3. \A t \in Task : \A d \in depends'[t] : status'[d] # "absent"
      BY <1>2 DEF StoreInv, TablesFit, TypeOK
    <2> QED BY <1>2, <2>1, <2>2, <2>3 DEF StoreInv, TablesFit
  <1> QED BY <1>4, <1>5, <1>6, <1>7, <1>8 DEF StoreInv

\* The end of a task.  Its one live job is the doing job the event names; the
\* tasks released have no job yet, because their last dependency ends here.
LEMMA CloseTaskInv ==
  ASSUME StoreInv, TypeOK', NEW t \in Task, NEW k \in Nat, NEW ending,
         ending \in {"done", "failed", "escalated"}, CloseTask(t, k, ending)
  PROVE  StoreInv'
  <1> DEFINE R == {u \in Released(t) : ending = "done"}
  <1>1. /\ status[t] = "running" /\ t \notin Locked
        /\ k \in DOMAIN jobs[t] /\ jobs[t][k] \in {"todo", "doing"}
        /\ status' = [status EXCEPT ![t] = ending]
        /\ UNCHANGED <<depends, writing>>
        /\ stopped \subseteq stopped'
        /\ ending = "done" \/ SliceOf[t] \in stopped'
    BY DEF CloseTask
  <1>2. jobs' = [u \in Task |-> IF u \in R
                                 THEN Append([jobs EXCEPT ![t][k] = JobEnding(ending)][u], "todo")
                                 ELSE [jobs EXCEPT ![t][k] = JobEnding(ending)][u]]
    BY DEF CloseTask
  <1>3. \A u \in R : /\ u \in Task /\ u # t /\ status[u] = "queued" /\ t \in depends[u]
                     /\ \A d \in depends[u] : d = t \/ status[d] = "done"
    BY <1>1 DEF Released
  <1>4. \A u \in R : \A i \in DOMAIN jobs[u] : jobs[u][i] \notin {"todo", "doing"}
    BY <1>1, <1>3 DEF StoreInv, DependenciesFirst, DepsDone, HasJobIn
  <1>5. /\ DOMAIN jobs'[t] = DOMAIN jobs[t]
        /\ \A i \in DOMAIN jobs[t] : jobs'[t][i] \notin {"todo", "doing"}
    <2>1. jobs'[t] = [jobs[t] EXCEPT ![k] = JobEnding(ending)]
      BY <1>2, <1>3 DEF StoreInv, TypeOK
    <2>2. \A i \in DOMAIN jobs[t] : i # k => jobs[t][i] \notin {"todo", "doing"}
      BY <1>1 DEF StoreInv, OneLiveJob
    <2> QED BY <1>1, <2>1, <2>2 DEF JobEnding
  <1>6. \A u \in Task : u # t /\ u \notin R => jobs'[u] = jobs[u]
    BY <1>2 DEF StoreInv, TypeOK
  <1>7. \A u \in R : /\ Len(jobs[u]) + 1 \in DOMAIN jobs'[u]
                     /\ jobs'[u][Len(jobs[u]) + 1] = "todo"
                     /\ \A i \in DOMAIN jobs'[u] :
                          \/ i = Len(jobs[u]) + 1
                          \/ i \in DOMAIN jobs[u] /\ jobs'[u][i] = jobs[u][i]
    <2> SUFFICES ASSUME NEW u \in R
                 PROVE  /\ Len(jobs[u]) + 1 \in DOMAIN jobs'[u]
                        /\ jobs'[u][Len(jobs[u]) + 1] = "todo"
                        /\ \A i \in DOMAIN jobs'[u] :
                             \/ i = Len(jobs[u]) + 1
                             \/ i \in DOMAIN jobs[u] /\ jobs'[u][i] = jobs[u][i]
      OBVIOUS
    <2>1. u \in Task /\ u # t /\ jobs[u] \in Seq(JobStatus)
      BY <1>3 DEF StoreInv, TypeOK
    <2>2. jobs'[u] = Append(jobs[u], "todo")
      BY <1>2, <2>1 DEF StoreInv, TypeOK
    <2>3. "todo" \in JobStatus
      BY DEF JobStatus
    <2> HIDE DEF R
    <2> QED BY <2>1, <2>2, <2>3, AppendSeq
  <1>8. /\ status'[t] = ending
        /\ \A u \in Task : u # t => status'[u] = status[u]
    BY <1>1 DEF StoreInv, TypeOK
  <1>9. \A u \in Task : DepsDone(u) => DepsDone(u)'
    BY <1>1, <1>8 DEF DepsDone, StoreInv, TypeOK
  <1>10. \A u \in R : DepsDone(u)'
    BY <1>1, <1>3, <1>8 DEF DepsDone, StoreInv, TypeOK
  <1>11. \A u \in Task : DepsDone(u)' /\ u \notin R /\ status[u] = "queued" => DepsDone(u)
    BY <1>1, <1>8 DEF DepsDone, StoreInv, TypeOK, Released
  <1> HIDE DEF R
  <1>12. JobTaskAgree'
    BY <1>3, <1>4, <1>5, <1>6, <1>7, <1>8 DEF StoreInv, JobTaskAgree, HasJobIn
  <1>13. OneLiveJob'
    BY <1>3, <1>4, <1>5, <1>6, <1>7 DEF StoreInv, OneLiveJob
  <1>14. NoTaskStranded'
    BY <1>1, <1>3, <1>6, <1>7, <1>8, <1>11 DEF StoreInv, NoTaskStranded, Ready, HasJobIn
  <1>15. DependenciesFirst'
    <2>1. DepsDone(t)
      BY <1>1 DEF StoreInv, DependenciesFirst
    <2> QED BY <1>3, <1>6, <1>8, <1>9, <1>10, <2>1 DEF StoreInv, DependenciesFirst, HasJobIn
  <1>16. OpenSubmissions'
    <2>1. \A c \in Client : \A d \in Earlier(writing[c]) : d \in Task /\ d # t
      BY <1>1, EarlierType DEF StoreInv, TypeOK, Locked
    <2>2. \A c \in Client : \A d \in Earlier(writing[c]) : status'[d] = status[d]
      BY <1>8, <2>1
    <2>3. \A c \in Client : Earlier(writing[c])' = Earlier(writing[c])
      BY <1>1
    <2> QED BY <1>1, <2>2, <2>3 DEF StoreInv, OpenSubmissions
  <1>17. TablesFit'
    <2>1. \A u \in Task : HasJobIn(u, {"todo"})' => status'[u] = "queued"
      BY <1>3, <1>5, <1>6, <1>8 DEF StoreInv, TablesFit, HasJobIn
    <2>2. \A u \in Task : status'[u] = "absent" => jobs'[u] = <<>> /\ depends'[u] = {}
      BY <1>1, <1>3, <1>6, <1>8 DEF StoreInv, TablesFit
    <2>3. \A u \in Task : \A d \in depends'[u] : status'[d] # "absent"
      BY <1>1, <1>8 DEF StoreInv, TablesFit, TypeOK
    <2>4. \A u \in Task : status'[u] \in {"failed", "escalated"} => SliceOf[u] \in stopped'
      BY <1>1, <1>8 DEF StoreInv, TablesFit
    <2> QED BY <2>1, <2>2, <2>3, <2>4 DEF TablesFit
  <1> QED BY <1>12, <1>13, <1>14, <1>15, <1>16, <1>17 DEF StoreInv

\* Finish events: only the end of a task reaches what the invariant is about.
LEMMA FinishInv ==
  ASSUME StoreInv, TypeOK', FinishStep
  PROVE  StoreInv'
  <1>1. PICK p \in handed :
          \/ \E n \in Number : BeginAttempt(p[1], n)
          \/ \E n \in Number, result \in {"done", "failed"} : EndAttempt(p[1], n, result)
          \/ \E ending \in {"done", "failed", "escalated"} : EndTask(p[1], p[2], ending)
    BY DEF FinishStep
  <1>2. p[1] \in Task /\ p[2] \in Nat
    BY DEF StoreInv, TypeOK
  <1>3. ASSUME NEW n \in Number, BeginAttempt(p[1], n) PROVE StoreInv'
    BY <1>3, FrameInv DEF BeginAttempt
  <1>4. ASSUME NEW n \in Number, NEW result, EndAttempt(p[1], n, result) PROVE StoreInv'
    BY <1>4, FrameInv DEF EndAttempt
  <1>5. ASSUME NEW ending \in {"done", "failed", "escalated"}, EndTask(p[1], p[2], ending)
        PROVE  StoreInv'
    <2>1. CASE CloseTask(p[1], p[2], ending)
      BY <1>2, <2>1, CloseTaskInv
    <2>2. CASE UNCHANGED storeVars
      BY <2>2, FrameInv DEF storeVars
    <2> QED BY <1>5, <2>1, <2>2 DEF EndTask
  <1> QED BY <1>1, <1>3, <1>4, <1>5

\* A task the owner clears has no live job, and its slice is on record as
\* stopped: until the owner defers one, nothing is promised of it.
LEMMA OwnerClearInv ==
  ASSUME StoreInv, TypeOK', NEW t \in Task, OwnerClear(t)
  PROVE  StoreInv'
  <1>1. /\ status[t] \in {"failed", "escalated"}
        /\ status'[t] = "queued"
        /\ \A u \in Task : u # t => status'[u] = status[u]
        /\ UNCHANGED <<depends, jobs, writing, stopped>>
    BY DEF OwnerClear, StoreInv, TypeOK
  <1>2. ~HasJobIn(t, {"todo"}) /\ ~HasJobIn(t, {"doing"}) /\ SliceOf[t] \in stopped
    BY <1>1 DEF StoreInv, TablesFit, JobTaskAgree
  <1>3. \A u \in Task : DepsDone(u)' <=> DepsDone(u)
    BY <1>1 DEF DepsDone, StoreInv, TypeOK
  <1>4. JobTaskAgree' /\ OneLiveJob'
    BY <1>1, <1>2 DEF StoreInv, JobTaskAgree, OneLiveJob, HasJobIn
  <1>5. NoTaskStranded'
    BY <1>1, <1>2, <1>3 DEF StoreInv, NoTaskStranded, Ready, HasJobIn
  <1>6. DependenciesFirst'
    BY <1>1, <1>2, <1>3 DEF StoreInv, DependenciesFirst, HasJobIn
  <1>7. OpenSubmissions'
    <2>1. \A c \in Client : \A d \in Earlier(writing[c]) : d \in Task
      BY EarlierType DEF StoreInv, TypeOK
    <2>2. \A c \in Client : \A d \in Earlier(writing[c]) :
            (status'[d] = "done" <=> status[d] = "done") /\ status'[d] # "absent"
      BY <1>1, <2>1 DEF StoreInv, OpenSubmissions
    <2>3. \A c \in Client : Earlier(writing[c])' = Earlier(writing[c])
      BY <1>1
    <2> QED BY <1>1, <2>2, <2>3 DEF StoreInv, OpenSubmissions
  <1>8. TablesFit'
    BY <1>1, <1>2 DEF StoreInv, TablesFit, HasJobIn, TypeOK
  <1> QED BY <1>4, <1>5, <1>6, <1>7, <1>8 DEF StoreInv

LEMMA OwnerDeferInv ==
  ASSUME StoreInv, TypeOK', NEW t \in Task, OwnerDefer(t)
  PROVE  StoreInv'
  <1>1. /\ Ready(t) /\ UNCHANGED <<status, depends, writing, stopped>>
        /\ \A i \in DOMAIN jobs[t] : jobs[t][i] \notin {"todo", "doing"}
        /\ jobs' = [jobs EXCEPT ![t] = Append(@, "todo")]
    BY DEF OwnerDefer, HasJobIn
  <1>2. /\ Len(jobs[t]) + 1 \in DOMAIN jobs'[t]
        /\ jobs'[t][Len(jobs[t]) + 1] = "todo"
        /\ \A i \in DOMAIN jobs'[t] : \/ i = Len(jobs[t]) + 1
                                      \/ i \in DOMAIN jobs[t] /\ jobs'[t][i] = jobs[t][i]
    <2>1. jobs[t] \in Seq(JobStatus) /\ "todo" \in JobStatus
      BY DEF StoreInv, TypeOK, JobStatus
    <2>2. jobs'[t] = Append(jobs[t], "todo")
      BY <1>1 DEF StoreInv, TypeOK
    <2> QED BY <2>1, <2>2, AppendSeq
  <1>3. \A u \in Task : u # t => jobs'[u] = jobs[u]
    BY <1>1 DEF StoreInv, TypeOK
  <1>4. status[t] = "queued" /\ DepsDone(t)
    BY <1>1 DEF Ready
  <1>5. JobTaskAgree' /\ OneLiveJob'
    BY <1>1, <1>2, <1>3, <1>4 DEF StoreInv, JobTaskAgree, OneLiveJob, HasJobIn
  <1>6. NoTaskStranded' /\ DependenciesFirst'
    BY <1>1, <1>2, <1>3, <1>4
       DEF StoreInv, NoTaskStranded, DependenciesFirst, Ready, DepsDone, HasJobIn
  <1>7. OpenSubmissions'
    BY <1>1 DEF StoreInv, OpenSubmissions, Earlier
  <1>8. TablesFit'
    BY <1>1, <1>2, <1>3, <1>4 DEF StoreInv, TablesFit, HasJobIn
  <1> QED BY <1>5, <1>6, <1>7, <1>8 DEF StoreInv

LEMMA InitInv == Init => StoreInv
  <1> SUFFICES ASSUME Init PROVE StoreInv
    OBVIOUS
  <1>1. TypeOK
    BY InitType
  <1>2. \A c \in Client : Earlier(writing[c]) = {} /\ writing[c].file = {} /\ writing[c].done = {}
    BY NoFileEarlier DEF Init
  <1>3. OpenSubmissions
    BY <1>2 DEF OpenSubmissions
  <1>4. \A t \in Task : status[t] = "absent" /\ jobs[t] = <<>> /\ depends[t] = {}
    BY DEF Init
  <1> QED BY <1>1, <1>3, <1>4, FirstJob
          DEF StoreInv, JobTaskAgree, OneLiveJob, NoTaskStranded, DependenciesFirst, TablesFit,
              Ready, HasJobIn

LEMMA StoreInvStep ==
  ASSUME StoreInv, [Next]_storeVars
  PROVE  StoreInv'
  <1>1. TypeOK'
    BY TypeStep DEF StoreInv
  <1>2. CASE SubmitStep
    <2>1. ASSUME NEW c \in Client, SubmitAbort(c) PROVE StoreInv'
      BY <1>1, <2>1, DropSubmissionInv DEF SubmitAbort
    <2> QED BY <1>1, <1>2, <2>1, SubmitCases, SubmitBeginInv, SubmitCommitInv
  <1>3. CASE \E p \in JobsIn("todo") : Claim(p[1], p[2])
    <2>1. PICK p \in JobsIn("todo") : Claim(p[1], p[2])
      BY <1>3
    <2>2. p[1] \in Task /\ p[2] \in DOMAIN jobs[p[1]]
      BY <2>1 DEF JobsIn
    <2> QED BY <1>1, <2>1, <2>2, ClaimInv
  <1>4. CASE ClaimNothing
    BY <1>1, <1>4, ClaimNothingInv
  <1>5. CASE Recover
    BY <1>1, <1>5, RecoverInv
  <1>6. CASE FinishStep
    BY <1>1, <1>6, FinishInv
  <1>7. CASE OwnerStep
    BY <1>1, <1>7, OwnerClearInv, OwnerDeferInv DEF OwnerStep
  <1>8. CASE UNCHANGED storeVars
    BY <1>1, <1>8, FrameInv DEF storeVars
  <1> QED BY <1>2, <1>3, <1>4, <1>5, <1>6, <1>7, <1>8 DEF Next

\* The inductive invariant holds of every reachable state: any interleaving of
\* submissions, claims, recoveries, repeated or late finish events and owners.
THEOREM StoreCorrect == Spec => []StoreInv
  <1>1. Init => StoreInv
    BY InitInv
  <1>2. StoreInv /\ [Next]_storeVars => StoreInv'
    BY StoreInvStep
  <1> QED BY <1>1, <1>2, PTL DEF Spec

\* claim.py: "never a doing job with a queued task, or the reverse".
THEOREM JobAndTaskAgree == Spec => []JobTaskAgree
  <1>1. StoreInv => JobTaskAgree
    BY DEF StoreInv
  <1> QED BY <1>1, StoreCorrect, PTL

\* No task has two jobs that could still run it.
THEOREM OneJobAtATime == Spec => []OneLiveJob
  <1>1. StoreInv => OneLiveJob
    BY DEF StoreInv
  <1> QED BY <1>1, StoreCorrect, PTL

\* A submission racing the end of a dependency never leaves a task without a
\* job, while its slice has not stopped.
THEOREM NoneLeftWithoutAJob == Spec => []NoTaskStranded
  <1>1. StoreInv => NoTaskStranded
    BY DEF StoreInv
  <1> QED BY <1>1, StoreCorrect, PTL

\* No task gets a job, or runs, before everything it depends on is done.
THEOREM OnlyDependenciesGate == Spec => []DependenciesFirst
  <1>1. StoreInv => DependenciesFirst
    BY DEF StoreInv
  <1> QED BY <1>1, StoreCorrect, PTL

-----------------------------------------------------------------------------
(* What a step may never do, and the traces.                               *)

LEMMA DiscardStep ==
  ASSUME StoreInv, [Next]_storeVars, NEW t \in Task, NEW k \in DOMAIN jobs[t],
         jobs[t][k] # "aborted", jobs'[t][k] = "aborted"
  PROVE  SliceStopped(SliceOf[t])
  <1>0. jobs[t] \in Seq(JobStatus) /\ "todo" \in JobStatus
    BY DEF StoreInv, TypeOK, JobStatus
  <1>1. CASE UNCHANGED jobs
    BY <1>1
  <1>2. CASE jobs'[t] = Append(jobs[t], "todo")
    BY <1>0, <1>2, AppendSeq
  <1>3. CASE SubmitStep
    <2>1. CASE \E c \in Client : SubmitCommit(c)
      <3>1. jobs'[t] = Append(jobs[t], "todo") \/ jobs'[t] = jobs[t]
        BY <2>1 DEF SubmitCommit
      <3> QED BY <1>2, <3>1
    <2>2. CASE UNCHANGED jobs
      BY <2>2
    <2> QED BY <1>3, <2>1, <2>2 DEF SubmitStep, SubmitBegin, SubmitAbort
  <1>4. ASSUME NEW D, D \subseteq Discardable,
               jobs'[t][k] = "doing" \/ jobs'[t][k] = AfterDiscard(D)[t][k]
        PROVE  SliceStopped(SliceOf[t])
    BY <1>4, Discarded
  <1>5. CASE \E p \in JobsIn("todo") : Claim(p[1], p[2])
    <2>1. PICK p \in JobsIn("todo"), D \in SUBSET Discardable :
            jobs' = [AfterDiscard(D) EXCEPT ![p[1]][p[2]] = "doing"]
      BY <1>5 DEF Claim
    <2>2. jobs'[t][k] = "doing" \/ jobs'[t][k] = AfterDiscard(D)[t][k]
      BY <2>1, DiscardType DEF StoreInv
    <2> QED BY <1>4, <2>2
  <1>6. CASE ClaimNothing
    BY <1>4, <1>6 DEF ClaimNothing
  <1>7. CASE Recover
    BY <1>7 DEF Recover, Returned
  <1>8. CASE FinishStep
    <2>1. CASE \E p \in handed, ending \in {"done", "failed", "escalated"} :
                 CloseTask(p[1], p[2], ending)
      <3>0. PICK p \in handed, ending \in {"done", "failed", "escalated"} :
              CloseTask(p[1], p[2], ending)
        BY <2>1
      <3> DEFINE u == p[1]
                 i == p[2]
      <3>1. CloseTask(u, i, ending)
        BY <3>0
      <3> HIDE DEF u, i
      <3> DEFINE closed == [jobs EXCEPT ![u][i] = JobEnding(ending)]
      <3>2. jobs'[t] = Append(closed[t], "todo") \/ jobs'[t] = closed[t]
        BY <3>1 DEF CloseTask
      <3>3. i \in DOMAIN jobs[u] /\ JobEnding(ending) \in JobStatus \ {"aborted"}
        BY <3>1 DEF CloseTask, JobEnding, JobStatus
      <3>4. /\ closed[t] \in Seq(JobStatus) /\ k \in DOMAIN closed[t]
            /\ closed[t][k] # "aborted"
        <4>1. CASE t = u
          <5>1. closed[t] = [jobs[t] EXCEPT ![i] = JobEnding(ending)]
            BY <4>1 DEF StoreInv, TypeOK
          <5> QED BY <1>0, <3>3, <4>1, <5>1, ExceptSeq
        <4>2. CASE t # u
          BY <1>0, <4>2 DEF StoreInv, TypeOK
        <4> QED BY <4>1, <4>2
      <3> HIDE DEF closed
      <3>5. jobs'[t][k] # "aborted"
        BY <1>0, <3>2, <3>4, AppendSeq
      <3> QED BY <3>5
    <2>2. CASE UNCHANGED jobs
      BY <2>2
    <2> QED BY <1>8, <2>1, <2>2 DEF FinishStep, BeginAttempt, EndAttempt, EndTask, storeVars
  <1>9. CASE OwnerStep
    <2>1. jobs'[t] = Append(jobs[t], "todo") \/ jobs'[t] = jobs[t]
      BY <1>9 DEF OwnerStep, OwnerClear, OwnerDefer, StoreInv, TypeOK
    <2> QED BY <1>2, <2>1
  <1>10. CASE UNCHANGED storeVars
    BY <1>1, <1>10 DEF storeVars
  <1> QED BY <1>3, <1>5, <1>6, <1>7, <1>8, <1>9, <1>10 DEF Next

\* A claim discards the jobs of stopped slices and no others.
THEOREM OnlyStoppedSlicesDiscard == Spec => DiscardOnlyWhenStopped
  <1>1. StoreInv /\ [Next]_storeVars =>
          [\A t \in Task : \A k \in DOMAIN jobs[t] :
             jobs[t][k] # "aborted" /\ jobs'[t][k] = "aborted"
               => SliceStopped(SliceOf[t])]_storeVars
    BY DiscardStep
  <1> QED BY <1>1, StoreCorrect, PTL DEF Spec, DiscardOnlyWhenStopped

\* What the report of an attempt's end does, point by point.
LEMMA EndAttemptAt ==
  ASSUME TypeOK, NEW t \in Task, NEW n \in Number, NEW result, EndAttempt(t, n, result)
  PROVE  /\ UNCHANGED status
         /\ \/ UNCHANGED <<attempts, leads>>
            \/ /\ attempts[t][n] = "running"
               /\ \A u \in Task, m \in Number :
                    /\ attempts'[u][m] = IF u = t /\ m = n THEN result ELSE attempts[u][m]
                    /\ leads'[u][m] = IF u = t /\ m = n THEN leads[u][m] + 1 ELSE leads[u][m]
  <1>1. UNCHANGED status
    BY DEF EndAttempt
  <1>2. CASE attempts[t][n] # "running"
    BY <1>1, <1>2 DEF EndAttempt
  <1>3. CASE attempts[t][n] = "running"
    <2>1. /\ attempts' = [attempts EXCEPT ![t][n] = result]
          /\ leads' = [leads EXCEPT ![t][n] = @ + 1]
      BY <1>3 DEF EndAttempt
    <2>2. \A u \in Task, m \in Number :
            attempts'[u][m] = IF u = t /\ m = n THEN result ELSE attempts[u][m]
      BY <2>1 DEF TypeOK
    <2>3. \A u \in Task, m \in Number :
            leads'[u][m] = IF u = t /\ m = n THEN leads[u][m] + 1 ELSE leads[u][m]
      BY <2>1 DEF TypeOK
    <2> QED BY <1>1, <1>3, <2>2, <2>3
  <1> QED BY <1>2, <1>3

LEMMA ClosedStep ==
  ASSUME TypeOK, [Next]_storeVars
  PROVE  /\ \A t \in Task : status[t] = "done" => status'[t] = "done"
         /\ \A t \in Task, n \in Number :
              attempts[t][n] \in {"done", "failed", "died"} => attempts'[t][n] = attempts[t][n]
  <1>1. CASE UNCHANGED <<status, attempts>>
    BY <1>1
  <1>2. CASE SubmitStep
    <2>1. ASSUME NEW c \in Client, SubmitCommit(c)
          PROVE  UNCHANGED attempts /\ \A t \in Task : status[t] = "done" => status'[t] = "done"
      BY <2>1 DEF SubmitCommit
    <2> QED BY <1>1, <1>2, <2>1 DEF SubmitStep, SubmitBegin, SubmitAbort
  <1>3. CASE \E p \in JobsIn("todo") : Claim(p[1], p[2])
    BY <1>3 DEF Claim, TypeOK
  <1>4. CASE ClaimNothing
    BY <1>1, <1>4 DEF ClaimNothing
  <1>5. CASE Recover
    BY <1>5 DEF Recover, TasksReturned
  <1>6. CASE FinishStep
    <2>1. PICK p \in handed :
            \/ \E n \in Number : BeginAttempt(p[1], n)
            \/ \E n \in Number, result \in {"done", "failed"} : EndAttempt(p[1], n, result)
            \/ \E ending \in {"done", "failed", "escalated"} : EndTask(p[1], p[2], ending)
      BY <1>6 DEF FinishStep
    <2>0. p[1] \in Task
      BY DEF TypeOK
    <2>2. ASSUME NEW n \in Number, BeginAttempt(p[1], n)
          PROVE  /\ UNCHANGED status
                 /\ \A t \in Task, m \in Number :
                      attempts[t][m] # "absent" => attempts'[t][m] = attempts[t][m]
      BY <2>2 DEF BeginAttempt, TypeOK
    <2>3. ASSUME NEW n \in Number, NEW result, EndAttempt(p[1], n, result)
          PROVE  /\ UNCHANGED status
                 /\ \A t \in Task, m \in Number :
                      attempts[t][m] # "running" => attempts'[t][m] = attempts[t][m]
      BY <2>0, <2>3, EndAttemptAt
    <2>4. ASSUME NEW ending, EndTask(p[1], p[2], ending)
          PROVE  /\ UNCHANGED attempts
                 /\ \A t \in Task : status[t] = "done" => status'[t] = "done"
      BY <2>4 DEF EndTask, CloseTask, storeVars, TypeOK
    <2> QED BY <2>1, <2>2, <2>3, <2>4
  <1>7. CASE OwnerStep
    BY <1>7 DEF OwnerStep, OwnerClear, OwnerDefer, TypeOK
  <1>8. CASE UNCHANGED storeVars
    BY <1>1, <1>8 DEF storeVars
  <1> QED BY <1>2, <1>3, <1>4, <1>5, <1>6, <1>7, <1>8 DEF Next

\* A done task stays done and a closed attempt keeps its result.
THEOREM WhatIsOverStaysOver == Spec => ClosedStaysClosed
  <1>1. TypeOK /\ [Next]_storeVars =>
          [/\ \A t \in Task : status[t] = "done" => status'[t] = "done"
           /\ \A t \in Task, n \in Number :
                attempts[t][n] \in {"done", "failed", "died"}
                  => attempts'[t][n] = attempts[t][n]]_storeVars
    BY ClosedStep
  <1> QED BY <1>1, TypeCorrect, PTL DEF Spec, ClosedStaysClosed

LEMMA TraceStep ==
  ASSUME TypeOK, OneLeadTrace, [Next]_storeVars
  PROVE  OneLeadTrace'
  <1>1. CASE UNCHANGED <<attempts, leads>>
    BY <1>1 DEF OneLeadTrace
  <1>2. CASE Recover
    BY <1>2 DEF Recover, TasksReturned, OneLeadTrace
  <1>3. CASE FinishStep
    <2>1. PICK p \in handed :
            \/ \E n \in Number : BeginAttempt(p[1], n)
            \/ \E n \in Number, result \in {"done", "failed"} : EndAttempt(p[1], n, result)
            \/ \E ending \in {"done", "failed", "escalated"} : EndTask(p[1], p[2], ending)
      BY <1>3 DEF FinishStep
    <2>0. p[1] \in Task
      BY DEF TypeOK
    <2>2. ASSUME NEW n \in Number, BeginAttempt(p[1], n) PROVE OneLeadTrace'
      BY <2>2 DEF BeginAttempt, OneLeadTrace, TypeOK
    <2>3. ASSUME NEW n \in Number, NEW result \in {"done", "failed"},
                 EndAttempt(p[1], n, result)
          PROVE  OneLeadTrace'
      <3>1. CASE UNCHANGED <<attempts, leads>>
        BY <1>1, <3>1
      <3>2. CASE attempts[p[1]][n] = "running"
        BY <2>0, <2>3, <3>1, <3>2, EndAttemptAt DEF OneLeadTrace
      <3> QED BY <2>0, <2>3, <3>1, <3>2, EndAttemptAt
    <2>4. ASSUME NEW ending, EndTask(p[1], p[2], ending)
          PROVE  UNCHANGED <<attempts, leads>>
      BY <2>4 DEF EndTask, CloseTask, storeVars
    <2> QED BY <1>1, <2>1, <2>2, <2>3, <2>4
  <1>4. CASE UNCHANGED storeVars
    BY <1>1, <1>4 DEF storeVars
  <1> QED
    BY <1>1, <1>2, <1>3, <1>4
       DEF Next, SubmitStep, SubmitBegin, SubmitCommit, SubmitAbort, Claim, ClaimNothing,
           OwnerStep, OwnerClear, OwnerDefer

\* However often an end is reported, an attempt has one lead trace.
THEOREM TracesWrittenOnce == Spec => []OneLeadTrace
  <1>1. Init => OneLeadTrace
    BY DEF Init, OneLeadTrace
  <1>2. TypeOK /\ OneLeadTrace /\ [Next]_storeVars => OneLeadTrace'
    BY TraceStep
  <1> QED BY <1>1, <1>2, TypeCorrect, PTL DEF Spec

-----------------------------------------------------------------------------
(*****************************************************************************)
(* II. The store implements TaskLifecycle.                                   *)
(* Each transaction is one step of a task's life or none.  The inductive     *)
(* invariant supplies what the code does not check again: a job in the queue *)
(* has its dependencies done, and an open submission has seen its            *)
(* dependencies truly.                                                       *)
(*****************************************************************************)

Life == [t \in Task |-> StateOf(t)]

LEMMA LifeOf ==
  ASSUME NEW t \in Task, status[t] \in TaskStatus
  PROVE  /\ Life[t] = StateOf(t)
         /\ Life[t] = "absent"  <=> status[t] = "absent"
         /\ Life[t] = "waiting" <=> status[t] = "queued"
         /\ Life[t] = "running" <=> status[t] = "running"
         /\ Life[t] = "done"    <=> status[t] = "done"
         /\ Life[t] = "stopped" <=> status[t] \in {"failed", "escalated"}
  BY DEF Life, StateOf, TaskStatus

\* Steps that leave the statuses and the graph alone.
LEMMA Stutter ==
  ASSUME UNCHANGED <<status, depends>>
  PROVE  UNCHANGED Lifecycle!vars
  BY DEF Lifecycle!vars, StateOf

\* A step seen through Life.
LEMMA Changed ==
  ASSUME TypeOK, TypeOK', NEW S \in SUBSET Task, NEW v,
         \A t \in S : Life[t]' = v,
         \A t \in Task : t \notin S => status'[t] = status[t]
  PROVE  Life' = [t \in Task |-> IF t \in S THEN v ELSE Life[t]]
  BY DEF Life, StateOf

LEMMA PlanStep ==
  ASSUME StoreInv, TypeOK', NEW c \in Client, SubmitCommit(c)
  PROVE  [Lifecycle!Next]_Lifecycle!vars
  <1> DEFINE w == writing[c]
  <1>1. CASE UNCHANGED <<status, depends>>
    BY <1>1, Stutter
  <1>2. CASE \A t \in w.file : status[t] = "absent"
    <2>1. /\ status' = [t \in Task |-> IF t \in w.file THEN "queued" ELSE status[t]]
          /\ depends' = [t \in Task |-> IF t \in w.file THEN w.deps[t] ELSE depends[t]]
      BY <1>2 DEF SubmitCommit
    <2>2. w.file \in SUBSET Task /\ \A t \in w.file : w.deps[t] \subseteq Task
      BY DEF StoreInv, TypeOK, Submission
    <2>3. CASE w.file = {}
      BY <2>1, <2>3, Stutter DEF StoreInv, TypeOK
    <2>4. CASE w.file # {}
      <3>1. \A t \in w.file : Life[t]' = "waiting" /\ Life[t] = "absent"
        BY <1>2, <2>1, <2>2 DEF Life, StateOf
      <3>2. Life' = [t \in Task |-> IF t \in w.file THEN "waiting" ELSE Life[t]]
        BY <2>1, <2>2, <3>1, Changed DEF StoreInv
      <3>3. depends' \in [Task -> SUBSET Task]
        BY DEF TypeOK
      <3>4. \A t \in Task \ w.file : depends'[t] = depends[t]
        BY <2>1
      <3>5. ASSUME NEW t \in w.file, NEW d \in depends'[t]
            PROVE  SliceOf[d] = SliceOf[t] /\ Life'[d] # "absent"
        <4>1. d \in w.deps[t] /\ d \in Task
          BY <2>1, <2>2, <3>5
        <4>2. SliceOf[d] = SliceOf[t]
          BY <4>1 DEF StoreInv, OpenSubmissions
        <4>3. d \in w.file \/ d \in Earlier(w)
          BY <4>1, EarlierDef
        <4>4. status'[d] # "absent"
          BY <2>1, <4>1, <4>3 DEF StoreInv, OpenSubmissions
        <4>5. status'[d] \in TaskStatus
          BY <4>1 DEF TypeOK
        <4>6. Life'[d] # "absent"
          BY <4>1, <4>4, <4>5 DEF Life, StateOf, TaskStatus
        <4> QED BY <4>2, <4>6
      <3>6. Lifecycle!Plan(w.file)
        BY <2>4, <3>1, <3>2, <3>3, <3>4, <3>5 DEF Lifecycle!Plan, Life
      <3> QED BY <2>2, <3>6 DEF Lifecycle!Next
    <2> QED BY <2>3, <2>4
  <1> QED BY <1>1, <1>2 DEF SubmitCommit

LEMMA StartStep ==
  ASSUME StoreInv, TypeOK', NEW t \in Task, NEW k \in DOMAIN jobs[t], Claim(t, k)
  PROVE  Lifecycle!Next
  <1>1. /\ status[t] = "queued" /\ jobs[t][k] = "todo" /\ ~SliceStopped(SliceOf[t])
        /\ status' = [status EXCEPT ![t] = "running"] /\ depends' = depends
    BY DEF Claim, JobsIn
  <1>2. DepsDone(t)
    BY <1>1 DEF StoreInv, DependenciesFirst, HasJobIn
  <1>3. Life[t] = "waiting" /\ \A d \in depends[t] : Life[d] = "done"
    BY <1>1, <1>2 DEF Life, StateOf, DepsDone, StoreInv, TypeOK
  <1>4. \A u \in Task : SliceOf[u] = SliceOf[t] => Life[u] # "stopped"
    BY <1>1, LifeOf DEF SliceStopped, StoreInv, TypeOK
  <1>5. Life' = [Life EXCEPT ![t] = "running"]
    BY <1>1 DEF Life, StateOf, StoreInv, TypeOK
  <1> QED BY <1>1, <1>3, <1>4, <1>5 DEF Lifecycle!Start, Lifecycle!Next, Life

LEMMA EndStep ==
  ASSUME StoreInv, NEW t \in Task, NEW k, NEW ending \in {"done", "failed", "escalated"},
         CloseTask(t, k, ending)
  PROVE  Lifecycle!Next
  <1>1. /\ status[t] = "running" /\ status' = [status EXCEPT ![t] = ending]
        /\ depends' = depends
    BY DEF CloseTask
  <1>2. Life[t] = "running"
    BY <1>1 DEF Life, StateOf
  <1>3. \E end \in {"done", "stopped"} : Life' = [Life EXCEPT ![t] = end]
    <2>1. CASE ending = "done"
      <3>1. Life' = [Life EXCEPT ![t] = "done"]
        BY <1>1, <2>1 DEF Life, StateOf, StoreInv, TypeOK
      <3> QED BY <3>1
    <2>2. CASE ending \in {"failed", "escalated"}
      <3>1. Life' = [Life EXCEPT ![t] = "stopped"]
        BY <1>1, <2>2 DEF Life, StateOf, StoreInv, TypeOK
      <3> QED BY <3>1
    <2> QED BY <2>1, <2>2
  <1> QED BY <1>1, <1>2, <1>3 DEF Lifecycle!End, Lifecycle!Next, Life

LEMMA GiveBackStep ==
  ASSUME StoreInv, Recover
  PROVE  Lifecycle!Next
  <1>1. /\ status' = [t \in Task |-> IF status[t] = "running" THEN "queued" ELSE status[t]]
        /\ depends' = depends
    BY DEF Recover, TasksReturned
  <1>2. Life' = [t \in Task |-> IF Life[t] = "running" THEN "waiting" ELSE Life[t]]
    BY <1>1 DEF Life, StateOf, StoreInv, TypeOK
  <1> QED BY <1>1, <1>2 DEF Lifecycle!GiveBack, Lifecycle!Next, Life

LEMMA ReopenStep ==
  ASSUME StoreInv, NEW t \in Task, OwnerClear(t)
  PROVE  Lifecycle!Next
  <1>1. /\ status[t] \in {"failed", "escalated"} /\ depends' = depends
        /\ status' = [status EXCEPT ![t] = "queued"]
    BY DEF OwnerClear
  <1>2. Life[t] = "stopped" /\ Life' = [Life EXCEPT ![t] = "waiting"]
    BY <1>1 DEF Life, StateOf, StoreInv, TypeOK
  <1> QED BY <1>1, <1>2 DEF Lifecycle!Reopen, Lifecycle!Next, Life

LEMMA StepIsLife ==
  ASSUME StoreInv, TypeOK', [Next]_storeVars
  PROVE  [Lifecycle!Next]_Lifecycle!vars
  <1>1. CASE UNCHANGED <<status, depends>>
    BY <1>1, Stutter
  <1>2. CASE SubmitStep
    <2>1. ASSUME NEW c \in Client, NEW file, NEW deps, SubmitBegin(c, file, deps)
          PROVE  UNCHANGED <<status, depends>>
      BY <2>1 DEF SubmitBegin
    <2>2. ASSUME NEW c \in Client, SubmitAbort(c) PROVE UNCHANGED <<status, depends>>
      BY <2>2 DEF SubmitAbort
    <2> QED BY <1>1, <1>2, <2>1, <2>2, PlanStep, SubmitCases
  <1>3. CASE \E p \in JobsIn("todo") : Claim(p[1], p[2])
    <2>1. PICK p \in JobsIn("todo") : Claim(p[1], p[2])
      BY <1>3
    <2>2. p[1] \in Task /\ p[2] \in DOMAIN jobs[p[1]]
      BY <2>1 DEF JobsIn
    <2> QED BY <2>1, <2>2, StartStep
  <1>4. CASE ClaimNothing
    BY <1>1, <1>4 DEF ClaimNothing
  <1>5. CASE Recover
    BY <1>5, GiveBackStep
  <1>6. CASE FinishStep
    <2>1. PICK p \in handed :
            \/ \E n \in Number : BeginAttempt(p[1], n)
            \/ \E n \in Number, result \in {"done", "failed"} : EndAttempt(p[1], n, result)
            \/ \E ending \in {"done", "failed", "escalated"} : EndTask(p[1], p[2], ending)
      BY <1>6 DEF FinishStep
    <2>2. p[1] \in Task
      BY DEF StoreInv, TypeOK
    <2>3. \/ UNCHANGED <<status, depends>>
          \/ \E ending \in {"done", "failed", "escalated"} : CloseTask(p[1], p[2], ending)
      BY <2>1 DEF BeginAttempt, EndAttempt, EndTask, storeVars
    <2> QED BY <1>1, <2>2, <2>3, EndStep
  <1>7. CASE OwnerStep
    <2>1. ASSUME NEW t \in Task, OwnerDefer(t) PROVE UNCHANGED <<status, depends>>
      BY <2>1 DEF OwnerDefer
    <2> QED BY <1>1, <1>7, <2>1, ReopenStep DEF OwnerStep
  <1>8. CASE UNCHANGED storeVars
    BY <1>1, <1>8 DEF storeVars
  <1> QED BY <1>2, <1>3, <1>4, <1>5, <1>6, <1>7, <1>8 DEF Next

\* The store implements the life of a task: nothing starts before what it
\* needs, in a stopped slice or twice at once, and what is done stays done.
THEOREM StoreImplementsLifecycle == Spec => LifecycleSpec
  <1>1. Init => Lifecycle!Init
    BY DEF Init, Lifecycle!Init, StateOf
  <1>2. StoreInv /\ StoreInv' /\ [Next]_storeVars => [Lifecycle!Next]_Lifecycle!vars
    BY StepIsLife DEF StoreInv
  <1> QED BY <1>1, <1>2, StoreCorrect, PTL DEF Spec, LifecycleSpec, Lifecycle!Spec

-----------------------------------------------------------------------------
(*****************************************************************************)
(* III. The task runner.                                                     *)
(* It implements TaskStore, and what it promises of pushes, of what is held  *)
(* and of results holds.  Each theorem says which commands may outlive the   *)
(* runner that sent them: any, finish events, or attempt events only.        *)
(*****************************************************************************)

FinishOps == {"begin", "end", "close"}
Endings   == {"done", "failed", "escalated"}

\* A finish event for a task that was handed out.
Proper(cmd, given) ==
  /\ <<cmd.task, cmd.job>> \in given
  /\ \/ cmd.op = "begin" /\ cmd.number \in Number
     \/ cmd.op = "end"   /\ cmd.number \in Number /\ cmd.ending \in {"done", "failed"}
     \/ cmd.op = "close" /\ cmd.ending \in Endings

\* What the runner is doing and what it has left behind are such events.
RunnerInv ==
  /\ TypeOK
  /\ held \subseteq handed
  /\ run = [f \in DOMAIN NoRun |-> run[f]]
  /\ pc \in {"begin", "work", "end"} => run.number \in Number
  /\ pc = "close" => run.ended \in Endings
  /\ \A cmd \in late : Proper(cmd, handed)

LEMMA ProperGrows ==
  ASSUME NEW cmd, NEW H, NEW G, H \subseteq G, Proper(cmd, H)
  PROVE  Proper(cmd, G)
  BY DEF Proper

\* The events a runner sends are proper ones.
LEMMA EventProper ==
  ASSUME RunnerInv, NEW p \in held, pc \in FinishOps
  PROVE  Proper(Event(p), handed)
  <1>1. p \in handed /\ p = <<p[1], p[2]>>
    BY DEF RunnerInv, TypeOK
  <1>2. CASE pc = "begin"
    BY <1>1, <1>2 DEF RunnerInv, Event, Command, Proper
  <1>3. CASE pc = "end"
    BY <1>1, <1>3 DEF RunnerInv, Event, Command, Proper
  <1>4. CASE pc = "close"
    BY <1>1, <1>4 DEF RunnerInv, Event, Command, Proper
  <1> QED BY <1>2, <1>3, <1>4 DEF FinishOps

\* A proper event is a step of the store.
LEMMA PerformIsFinish ==
  ASSUME NEW cmd, Proper(cmd, handed), Perform(cmd)
  PROVE  FinishStep
  <1> DEFINE p == <<cmd.task, cmd.job>>
  <1>1. p \in handed /\ p[1] = cmd.task /\ p[2] = cmd.job
    BY DEF Proper
  <1>2. CASE cmd.op = "begin" /\ BeginAttempt(cmd.task, cmd.number)
    BY <1>1, <1>2 DEF FinishStep, Proper
  <1>3. CASE cmd.op = "end" /\ EndAttempt(cmd.task, cmd.number, cmd.ending)
    BY <1>1, <1>3 DEF FinishStep, Proper
  <1>4. CASE cmd.op = "close" /\ EndTask(cmd.task, cmd.job, cmd.ending)
    BY <1>1, <1>4 DEF FinishStep, Proper, Endings
  <1> QED BY <1>2, <1>3, <1>4 DEF Perform

\* Nothing that was handed out is forgotten.
LEMMA HandedGrows ==
  ASSUME [Next]_storeVars
  PROVE  handed \subseteq handed'
  <1>1. CASE SubmitStep
    BY <1>1 DEF SubmitStep, SubmitBegin, SubmitCommit, SubmitAbort
  <1>2. CASE \E p \in JobsIn("todo") : Claim(p[1], p[2])
    BY <1>2 DEF Claim
  <1>3. CASE ClaimNothing \/ Recover
    BY <1>3 DEF ClaimNothing, Recover
  <1>4. CASE FinishStep
    BY <1>4 DEF FinishStep, BeginAttempt, EndAttempt, EndTask, CloseTask, storeVars
  <1>5. CASE OwnerStep
    BY <1>5 DEF OwnerStep, OwnerClear, OwnerDefer
  <1>6. CASE UNCHANGED storeVars
    BY <1>6 DEF storeVars
  <1> QED BY <1>1, <1>2, <1>3, <1>4, <1>5, <1>6 DEF Next

\* Every step of the runner is a step of the store, or none.
LEMMA StepIsStore ==
  ASSUME LateOps \subseteq FinishOps, RunnerInv, [RunnerNext]_vars
  PROVE  [Next]_storeVars
  <1>1. \A cmd \in late : Proper(cmd, handed) /\ cmd.op \notin {"claim", "recover"}
    BY DEF RunnerInv, Proper
  <1>2. CASE TurnRecover
    BY <1>1, <1>2 DEF TurnRecover, Next
  <1>3. CASE TurnClaim
    BY <1>1, <1>3 DEF TurnClaim, Next
  <1>4. CASE TurnEmpty
    BY <1>4 DEF TurnEmpty, Next
  <1>5. CASE TurnUnavailable
    BY <1>5 DEF TurnUnavailable, ClaimAny, Next
  <1>6. CASE RunTask \/ Work \/ RunnerError \/ Crash
    BY <1>6 DEF RunTask, Work, RunnerError, Crash
  <1>7. CASE Recorded
    <2>1. PICK p \in held : Perform(Event(p)) /\ pc \in FinishOps
      BY <1>7 DEF Recorded, FinishOps
    <2> QED BY <2>1, EventProper, PerformIsFinish DEF Next
  <1>8. CASE Unrecorded
    <2>1. ASSUME NEW p \in held, Perform(Event(p)), pc \in FinishOps PROVE Next
      BY <2>1, EventProper, PerformIsFinish DEF Next
    <2> QED BY <1>8, <2>1 DEF Unrecorded, FinishOps
  <1>9. CASE LateLands
    BY <1>1, <1>9, PerformIsFinish DEF LateLands, Next
  <1>10. CASE Others
    BY <1>10 DEF Others, Next
  <1>11. CASE UNCHANGED vars
    BY <1>11 DEF vars
  <1> QED BY <1>2, <1>3, <1>4, <1>5, <1>6, <1>7, <1>8, <1>9, <1>10, <1>11 DEF RunnerNext

LEMMA RunFields ==
  /\ DOMAIN NoRun = {"number", "routes", "route", "retried", "rerun", "ended"}
  /\ NoRun = [f \in DOMAIN NoRun |-> NoRun[f]]
  BY DEF NoRun

LEMMA CloseKeeps ==
  ASSUME run = [f \in DOMAIN NoRun |-> run[f]], NEW ending, Close(ending)
  PROVE  /\ run' = [f \in DOMAIN NoRun |-> run'[f]]
         /\ pc' = "close" /\ run'.ended = ending
  BY RunFields DEF Close

LEMMA NextTryKeeps ==
  ASSUME run = [f \in DOMAIN NoRun |-> run[f]], NEW a, NEW b, NEW c, NextTry(a, b, c)
  PROVE  /\ run' = [f \in DOMAIN NoRun |-> run'[f]]
         /\ pc' = "begin" /\ run'.number \in Number
  BY RunFields DEF NextTry

LEMMA RunnerInvStep ==
  ASSUME LateOps \subseteq FinishOps, RunnerInv, [RunnerNext]_vars
  PROVE  RunnerInv'
  <1>1. TypeOK' /\ handed \subseteq handed'
    BY StepIsStore, TypeStep, HandedGrows DEF RunnerInv
  <1>2. \A cmd \in late : Proper(cmd, handed')
    BY <1>1, ProperGrows DEF RunnerInv
  <1>3. run = [f \in DOMAIN NoRun |-> run[f]]
    BY DEF RunnerInv
  <1>4. CASE /\ UNCHANGED <<pc, held, run>>
             /\ \A cmd \in late' : Proper(cmd, handed')
    BY <1>1, <1>4 DEF RunnerInv
  <1>5. CASE TurnRecover \/ TurnEmpty
    BY <1>2, <1>4, <1>5 DEF TurnRecover, TurnEmpty, runnerVars
  <1>6. CASE TurnClaim
    <2>1. PICK p \in JobsIn("todo") :
            /\ Claim(p[1], p[2]) \/ ClaimDuringRecover(p[1], p[2])
            /\ late' \subseteq late
            /\ held' = {p}
            /\ run' = [NoRun EXCEPT !.number = NextAttempt(p[1])]
            /\ pc' = "start"
      BY <1>6 DEF TurnClaim
    <2>2. p = <<p[1], p[2]>>
      BY DEF JobsIn
    <2>3. held' \subseteq handed'
      BY <2>1, <2>2 DEF Claim, ClaimDuringRecover
    <2>4. run' = [f \in DOMAIN NoRun |-> run'[f]]
      BY <2>1, RunFields
    <2> QED BY <1>1, <1>2, <2>1, <2>3, <2>4 DEF RunnerInv
  <1>7. CASE TurnUnavailable
    <2>1. UNCHANGED <<pc, held, run>> /\ late' = late
      BY <1>7 DEF TurnUnavailable, FinishOps
    <2> QED BY <1>2, <1>4, <2>1
  <1>8. CASE RunTask
    <2>1. UNCHANGED <<held, late>>
      BY <1>8 DEF RunTask
    <2>2. \/ Close("failed") \/ Close("escalated")
          \/ pc' = "begin" /\ run.number \in Number /\ run' = [f \in DOMAIN NoRun |-> run'[f]]
             /\ run'.number = run.number
      BY <1>3, <1>8, RunFields DEF RunTask
    <2> QED BY <1>1, <1>2, <1>3, <2>1, <2>2, CloseKeeps DEF RunnerInv, Endings
  <1>9. CASE Work
    <2>1. UNCHANGED <<held, late>> /\ pc' = "end" /\ pc = "work"
      BY <1>9 DEF Work
    <2>2. PICK end \in AttemptEnd : run' = [run EXCEPT !.ended = end]
      BY <1>9 DEF Work
    <2>3. run' = [f \in DOMAIN NoRun |-> run'[f]] /\ run'.number = run.number
      BY <1>3, <2>2, RunFields
    <2> QED BY <1>1, <1>2, <2>1, <2>3 DEF RunnerInv
  <1>10. CASE RunnerError
    BY <1>1, <1>2, <1>3, <1>10, CloseKeeps DEF RunnerError, RunnerInv, Endings
  <1>11. CASE Recorded
    <2>1. UNCHANGED late
      BY <1>11 DEF Recorded
    <2>2. CASE pc = "begin"
      BY <1>1, <1>2, <1>11, <2>1, <2>2 DEF Recorded, RunnerInv
    <2>3. CASE pc = "end"
      <3>1. AfterAttempt /\ UNCHANGED held
        BY <1>11, <2>3 DEF Recorded
      <3>2. \/ Close("done") \/ Close("failed") \/ Close("escalated")
            \/ \E a, b, c : NextTry(a, b, c)
        BY <3>1 DEF AfterAttempt
      <3>3. /\ run' = [f \in DOMAIN NoRun |-> run'[f]]
            /\ \/ pc' = "close" /\ run'.ended \in Endings
               \/ pc' = "begin" /\ run'.number \in Number
        BY <1>3, <3>2, CloseKeeps, NextTryKeeps DEF Endings
      <3> QED BY <1>1, <1>2, <2>1, <3>1, <3>3 DEF RunnerInv
    <2>4. CASE pc = "close"
      BY <1>1, <1>2, <1>11, <2>1, <2>4, RunFields DEF Recorded, RunnerInv
    <2> QED BY <1>11, <2>2, <2>3, <2>4 DEF Recorded
  <1>12. CASE Unrecorded
    <2>1. UNCHANGED <<pc, held, run>>
      BY <1>12 DEF Unrecorded, runnerVars
    <2>2. PICK p \in held : pc \in FinishOps /\ late' \subseteq late \cup {Event(p)}
      BY <1>12 DEF Unrecorded, FinishOps
    <2>3. Proper(Event(p), handed')
      BY <1>1, <2>2, EventProper, ProperGrows
    <2> QED BY <1>2, <1>4, <2>1, <2>2, <2>3
  <1>k. CASE Crash
    BY <1>1, <1>2, <1>k, RunFields DEF Crash, RunnerInv
  <1>14. CASE LateLands
    BY <1>2, <1>4, <1>14 DEF LateLands, runnerVars
  <1>15. CASE Others
    BY <1>2, <1>4, <1>15 DEF Others, runnerVars
  <1>16. CASE UNCHANGED vars
    BY <1>2, <1>4, <1>16 DEF vars, runnerVars
  <1> QED BY <1>5, <1>6, <1>7, <1>8, <1>9, <1>10, <1>11, <1>12, <1>k, <1>14, <1>15, <1>16
          DEF RunnerNext

\* If neither a claim nor a recovery outlives its runner, the store sees only
\* the transactions TaskStore allows, however often the runner repeats itself,
\* whenever its lost events land and whenever it dies.
THEOREM RunnerImplementsStore ==
  ASSUME LateOps \subseteq FinishOps
  PROVE  RunnerSpec => StoreSpec
  <1>1. RunnerInit => RunnerInv /\ Init
    BY InitType, RunFields DEF RunnerInit, RunnerInv
  <1>2. RunnerInv /\ [RunnerNext]_vars => RunnerInv' /\ [Next]_storeVars
    BY RunnerInvStep, StepIsStore
  <1> QED BY <1>1, <1>2, PTL DEF RunnerSpec, StoreSpec, Spec

\* So what holds of the store holds with the runner at work.
THEOREM RunnerKeepsStore ==
  ASSUME LateOps \subseteq FinishOps
  PROVE  RunnerSpec => []StoreInv
  BY RunnerImplementsStore, StoreCorrect, PTL DEF StoreSpec

-----------------------------------------------------------------------------
(* A task is done only with a commit pushed, whatever lands late.          *)

\* Who says that a task is done, the runner or a command it left behind, has
\* pushed a commit of it.
PushedInv ==
  /\ status = [t \in Task |-> status[t]]
  /\ pushes \in [Task -> Nat]
  /\ run = [f \in DOMAIN NoRun |-> run[f]]
  /\ DoneIsPushed
  /\ (pc = "end" /\ run.ended = "pushed") \/ (pc = "close" /\ run.ended = "done")
       => \A t \in Task : (\E p \in held : p[1] = t) => pushes[t] > 0
  /\ \A cmd \in late : cmd.op = "close" /\ cmd.ending = "done"
       => \A t \in Task : cmd.task = t => pushes[t] > 0

\* No transaction but end_task makes a task done.
NoneDone ==
  /\ status' = [t \in Task |-> status'[t]]
  /\ \A t \in Task : status'[t] = "done" => status[t] = "done"

LEMMA ClaimEndsNone ==
  ASSUME status = [t \in Task |-> status[t]], NEW t, NEW k,
         Claim(t, k) \/ ClaimDuringRecover(t, k)
  PROVE  NoneDone
  BY DEF Claim, ClaimDuringRecover, TasksReturned, NoneDone

LEMMA QueueEndsNone ==
  ASSUME status = [t \in Task |-> status[t]], ClaimAny \/ Recover \/ ClaimNothing
  PROVE  NoneDone
  <1>1. CASE Recover
    BY <1>1 DEF Recover, TasksReturned, NoneDone
  <1>2. CASE ClaimNothing
    BY <1>2 DEF ClaimNothing, NoneDone
  <1> QED BY <1>1, <1>2, ClaimEndsNone DEF ClaimAny

LEMMA OthersEndNone ==
  ASSUME status = [t \in Task |-> status[t]], SubmitStep \/ OwnerStep
  PROVE  NoneDone
  <1>1. CASE SubmitStep
    BY <1>1 DEF SubmitStep, SubmitBegin, SubmitCommit, SubmitAbort, NoneDone
  <1>2. CASE OwnerStep
    BY <1>2 DEF OwnerStep, OwnerClear, OwnerDefer, NoneDone
  <1> QED BY <1>1, <1>2

\* A command makes its own task done, and only if it is an end_task that says so.
LEMMA PerformEnds ==
  ASSUME status = [t \in Task |-> status[t]], NEW cmd, Perform(cmd)
  PROVE  /\ status' = [t \in Task |-> status'[t]]
         /\ \A t \in Task : status'[t] = "done" =>
              \/ status[t] = "done"
              \/ cmd.op = "close" /\ cmd.ending = "done" /\ cmd.task = t
  <1>1. CASE BeginAttempt(cmd.task, cmd.number) \/ EndAttempt(cmd.task, cmd.number, cmd.ending)
    BY <1>1 DEF BeginAttempt, EndAttempt
  <1>2. CASE cmd.op = "close" /\ EndTask(cmd.task, cmd.job, cmd.ending)
    BY <1>2 DEF EndTask, CloseTask, storeVars
  <1> QED BY <1>1, <1>2 DEF Perform

\* What the runner sends as an end_task says what it holds.
LEMMA EventEnds ==
  ASSUME NEW p, pc \in FinishOps, Event(p).op = "close"
  PROVE  pc = "close" /\ Event(p).ending = run.ended /\ Event(p).task = p[1]
  BY DEF Event, Command, FinishOps

LEMMA PushedIdle ==
  ASSUME PushedInv, NoneDone, late' \subseteq late, UNCHANGED <<pc, held, run, pushes>>
  PROVE  PushedInv'
  BY DEF PushedInv, NoneDone, DoneIsPushed

LEMMA PushedStep ==
  ASSUME PushedInv, [RunnerNext]_vars
  PROVE  PushedInv'
  <1>0. status = [t \in Task |-> status[t]] /\ run = [f \in DOMAIN NoRun |-> run[f]]
    BY DEF PushedInv
  <1>1. CASE TurnRecover
    BY <1>0, <1>1, QueueEndsNone, ClaimEndsNone, PushedIdle DEF TurnRecover
  <1>2. CASE TurnClaim
    <2>1. NoneDone /\ late' \subseteq late /\ pc' = "start" /\ UNCHANGED pushes
      BY <1>0, <1>2, ClaimEndsNone DEF TurnClaim
    <2>2. run' = [f \in DOMAIN NoRun |-> run'[f]]
      BY <1>2, RunFields DEF TurnClaim
    <2> QED BY <2>1, <2>2 DEF PushedInv, NoneDone, DoneIsPushed
  <1>3. CASE TurnEmpty
    BY <1>0, <1>3, QueueEndsNone, PushedIdle DEF TurnEmpty, runnerVars
  <1>4. CASE TurnUnavailable
    <2>1. NoneDone /\ UNCHANGED <<pc, held, run, pushes>>
      BY <1>0, <1>4, QueueEndsNone DEF TurnUnavailable, NoneDone, storeVars
    <2>2. \A cmd \in late' : cmd \in late \/ cmd.op \in {"claim", "recover"}
      BY <1>4 DEF TurnUnavailable, Command
    <2> QED BY <2>1, <2>2 DEF PushedInv, NoneDone, DoneIsPushed
  <1>5. CASE RunTask \/ RunnerError
    <2>1. UNCHANGED <<status, held, late, pushes>>
      BY <1>5 DEF RunTask, RunnerError, storeVars
    <2>2. /\ run' = [f \in DOMAIN NoRun |-> run'[f]]
          /\ pc' = "begin" \/ (pc' = "close" /\ run'.ended # "done")
      <3>1. CASE Close("failed") \/ Close("escalated")
        BY <1>0, <3>1, CloseKeeps
      <3>2. CASE pc' = "begin" /\ \E routes \in 1..MaxRoutes :
                   run' = [run EXCEPT !.routes = routes, !.route = 1]
        BY <1>0, <3>2, RunFields
      <3> QED BY <1>5, <3>1, <3>2 DEF RunTask, RunnerError
    <2> QED BY <2>1, <2>2 DEF PushedInv, DoneIsPushed
  <1>6. CASE Work
    <2>1. PICK end \in AttemptEnd :
            /\ run' = [run EXCEPT !.ended = end]
            /\ \/ pushes' = [t \in Task |-> IF \E p \in held : p[1] = t THEN pushes[t] + 1
                                                                       ELSE pushes[t]]
               \/ end # "pushed" /\ UNCHANGED pushes
      BY <1>6 DEF Work
    <2>2. UNCHANGED <<status, held, late>> /\ pc' = "end"
      BY <1>6 DEF Work, storeVars
    <2>3. /\ run' = [f \in DOMAIN NoRun |-> run'[f]]
          /\ run'.ended = end
      BY <1>0, <2>1, RunFields
    <2>4. /\ pushes' \in [Task -> Nat]
          /\ \A t \in Task : /\ pushes[t] > 0 => pushes'[t] > 0
                             /\ end = "pushed" /\ (\E p \in held : p[1] = t) => pushes'[t] > 0
      BY <2>1 DEF PushedInv
    <2> QED BY <2>2, <2>3, <2>4 DEF PushedInv, DoneIsPushed
  <1>7. CASE Recorded
    <2>1. PICK p \in held : Perform(Event(p)) /\ pc \in FinishOps
      BY <1>7 DEF Recorded, FinishOps
    <2>2. DoneIsPushed' /\ status' = [t \in Task |-> status'[t]] /\ UNCHANGED <<late, pushes>>
      BY <1>0, <1>7, <2>1, PerformEnds, EventEnds DEF Recorded, PushedInv, DoneIsPushed
    <2>3. CASE pc = "begin"
      BY <1>7, <2>2, <2>3 DEF Recorded, PushedInv
    <2>4. CASE pc = "end"
      <3>1. AfterAttempt /\ UNCHANGED held
        BY <1>7, <2>4 DEF Recorded
      <3>2. \/ run.ended = "pushed" /\ Close("done")
            \/ Close("failed") \/ Close("escalated") \/ \E a, b, c : NextTry(a, b, c)
        BY <3>1 DEF AfterAttempt
      <3>3. /\ run' = [f \in DOMAIN NoRun |-> run'[f]]
            /\ \/ pc' = "close" /\ (run'.ended # "done" \/ run.ended = "pushed")
               \/ pc' = "begin"
        BY <1>0, <3>2, CloseKeeps, NextTryKeeps
      <3> QED BY <2>2, <2>4, <3>1, <3>3 DEF PushedInv
    <2>5. CASE pc = "close"
      BY <1>7, <2>2, <2>5, RunFields DEF Recorded, PushedInv
    <2> QED BY <1>7, <2>3, <2>4, <2>5 DEF Recorded
  <1>8. CASE Unrecorded
    <2>1. PICK p \in held :
            /\ pc \in FinishOps
            /\ \/ Perform(Event(p)) /\ UNCHANGED late
               \/ late' = late \cup {Event(p)} /\ UNCHANGED storeVars
      BY <1>8 DEF Unrecorded, FinishOps
    <2>2. UNCHANGED <<pc, held, run, pushes>>
      BY <1>8 DEF Unrecorded, runnerVars
    <2>3. DoneIsPushed' /\ status' = [t \in Task |-> status'[t]]
      BY <1>0, <2>1, <2>2, PerformEnds, EventEnds DEF PushedInv, DoneIsPushed, storeVars
    <2>4. \A cmd \in late' : cmd \in late \/ (cmd = Event(p) /\ pc \in FinishOps)
      BY <2>1
    <2> QED BY <2>2, <2>3, <2>4, EventEnds DEF PushedInv
  <1>9. CASE Crash
    BY <1>9, RunFields DEF Crash, PushedInv, DoneIsPushed, storeVars
  <1>10. CASE LateLands
    <2>1. PICK cmd \in late :
            /\ late' = late \ {cmd}
            /\ Perform(cmd) \/ ClaimAny \/ Recover
      BY <1>10 DEF LateLands
    <2>2. UNCHANGED <<pc, held, run, pushes>>
      BY <1>10 DEF LateLands, runnerVars
    <2>3. CASE ClaimAny \/ Recover
      BY <1>0, <2>1, <2>2, <2>3, QueueEndsNone, PushedIdle
    <2>4. CASE Perform(cmd)
      BY <1>0, <2>1, <2>2, <2>4, PerformEnds DEF PushedInv, DoneIsPushed
    <2> QED BY <2>1, <2>3, <2>4
  <1>11. CASE Others
    BY <1>0, <1>11, OthersEndNone, PushedIdle DEF Others, runnerVars
  <1>12. CASE UNCHANGED vars
    BY <1>12 DEF vars, storeVars, runnerVars, PushedInv, DoneIsPushed
  <1> QED BY <1>1, <1>2, <1>3, <1>4, <1>5, <1>6, <1>7, <1>8, <1>9, <1>10, <1>11, <1>12
          DEF RunnerNext

\* A task is done only once a commit of its own is on the branch: for any set
\* of commands that may land late, however often answers are lost and the
\* service dies.
THEOREM DoneNeedsPush == RunnerSpec => []DoneIsPushed
  <1>1. RunnerInit => PushedInv
    BY RunFields DEF RunnerInit, Init, PushedInv, DoneIsPushed
  <1>2. PushedInv /\ [RunnerNext]_vars => PushedInv'
    BY PushedStep
  <1>3. PushedInv => DoneIsPushed
    BY DEF PushedInv
  <1> QED BY <1>1, <1>2, <1>3, PTL DEF RunnerSpec

-----------------------------------------------------------------------------
(* What runs is held, if no claim and no recovery outlives the runner.     *)

\* The runner holds one task at most, and none between two turns.
HoldsOne ==
  /\ pc = "idle" <=> held = {}
  /\ \A p, q \in held : p = q

HoldInv == RunnerInv /\ StoreInv /\ HoldsOne /\ RunningIsHeld

\* No transaction but a claim starts a task.
NoneStarts == \A t \in Task : status'[t] = "running" => status[t] = "running"

LEMMA OthersStartNone ==
  ASSUME StoreInv, SubmitStep \/ OwnerStep \/ ClaimNothing
  PROVE  NoneStarts
  <1>1. CASE SubmitStep
    BY <1>1 DEF SubmitStep, SubmitBegin, SubmitCommit, SubmitAbort, NoneStarts
  <1>2. CASE OwnerStep
    BY <1>2 DEF OwnerStep, OwnerClear, OwnerDefer, NoneStarts, StoreInv, TypeOK
  <1>3. CASE ClaimNothing
    BY <1>3 DEF ClaimNothing, NoneStarts
  <1> QED BY <1>1, <1>2, <1>3

LEMMA EventsStartNone ==
  ASSUME StoreInv, NEW cmd, Perform(cmd), Proper(cmd, handed)
  PROVE  NoneStarts
  <1>1. CASE BeginAttempt(cmd.task, cmd.number) \/ EndAttempt(cmd.task, cmd.number, cmd.ending)
    BY <1>1 DEF BeginAttempt, EndAttempt, NoneStarts
  <1>2. CASE cmd.op = "close" /\ EndTask(cmd.task, cmd.job, cmd.ending)
    <2>1. cmd.ending \in Endings
      BY <1>2 DEF Proper
    <2> QED BY <1>2, <2>1 DEF EndTask, CloseTask, storeVars, NoneStarts, Endings, StoreInv, TypeOK
  <1> QED BY <1>1, <1>2 DEF Perform

\* An end_task leaves its task not running.
LEMMA CloseStops ==
  ASSUME StoreInv, NEW t \in Task, NEW k, NEW ending \in Endings, EndTask(t, k, ending)
  PROVE  status'[t] # "running"
  BY DEF EndTask, CloseTask, storeVars, Endings, StoreInv, TypeOK

LEMMA HoldIdle ==
  ASSUME HoldInv, NoneStarts, UNCHANGED <<recovered, held>>, pc' = "idle" <=> pc = "idle"
  PROVE  HoldsOne' /\ RunningIsHeld'
  BY DEF HoldInv, HoldsOne, NoneStarts, RunningIsHeld

LEMMA HoldStep ==
  ASSUME LateOps \subseteq FinishOps, HoldInv, [RunnerNext]_vars
  PROVE  HoldInv'
  <1>0. RunnerInv' /\ StoreInv'
    BY RunnerInvStep, StepIsStore, StoreInvStep DEF HoldInv
  <1>a. \A cmd \in late : Proper(cmd, handed) /\ cmd.op \notin {"claim", "recover"}
    BY DEF HoldInv, RunnerInv, Proper
  <1> SUFFICES HoldsOne' /\ RunningIsHeld'
    BY <1>0 DEF HoldInv
  <1>1. CASE TurnRecover
    <2>1. Recover /\ UNCHANGED <<pc, held>>
      BY <1>1, <1>a DEF TurnRecover
    <2> QED BY <2>1 DEF Recover, TasksReturned, HoldInv, HoldsOne, RunningIsHeld
  <1>2. CASE TurnClaim
    <2>1. PICK p \in JobsIn("todo") : Claim(p[1], p[2]) /\ held' = {p}
      BY <1>2, <1>a DEF TurnClaim
    <2>2. pc = "idle" /\ recovered /\ pc' = "start"
      BY <1>2 DEF TurnClaim
    <2>3. \A t \in Task : status'[t] = "running" => status[t] = "running" \/ t = p[1]
      BY <2>1 DEF Claim, HoldInv, StoreInv, TypeOK
    <2> QED BY <2>1, <2>2, <2>3 DEF HoldInv, HoldsOne, RunningIsHeld
  <1>3. CASE TurnEmpty
    BY <1>3, OthersStartNone, HoldIdle DEF TurnEmpty, runnerVars, HoldInv
  <1>4. CASE TurnUnavailable
    BY <1>4 DEF TurnUnavailable, HoldInv, HoldsOne, RunningIsHeld
  <1>5. CASE RunTask \/ Work \/ RunnerError
    <2>1. pc # "idle" /\ pc' # "idle" /\ UNCHANGED <<recovered, held, status>>
      BY <1>5 DEF RunTask, Work, RunnerError, Close, storeVars
    <2> QED BY <2>1, HoldIdle DEF NoneStarts
  <1>6. CASE Recorded
    <2>1. PICK p \in held : Perform(Event(p)) /\ pc \in FinishOps
      BY <1>6 DEF Recorded, FinishOps
    <2>2. Proper(Event(p), handed) /\ NoneStarts /\ UNCHANGED recovered
      BY <1>6, <2>1, EventProper, EventsStartNone DEF HoldInv, Recorded
    <2>3. CASE pc # "close"
      <3>1. pc' # "idle" /\ UNCHANGED held
        BY <1>6, <2>3 DEF Recorded, AfterAttempt, Close, NextTry
      <3> QED BY <2>1, <2>2, <3>1, HoldIdle DEF FinishOps
    <2>4. CASE pc = "close"
      <3>1. pc' = "idle" /\ held' = {}
        BY <1>6, <2>4 DEF Recorded
      <3>2. EndTask(p[1], p[2], run.ended) /\ run.ended \in Endings
        BY <2>1, <2>4 DEF Perform, Event, Command, HoldInv, RunnerInv
      <3>3. p[1] \in Task
        BY DEF HoldInv, RunnerInv, TypeOK
      <3>4. status'[p[1]] # "running"
        BY <3>2, <3>3, CloseStops DEF HoldInv
      <3> QED BY <2>2, <3>1, <3>4 DEF HoldInv, HoldsOne, RunningIsHeld, NoneStarts
    <2> QED BY <2>3, <2>4
  <1>7. CASE Unrecorded
    <2>1. PICK p \in held : /\ pc \in FinishOps
                            /\ Perform(Event(p)) \/ UNCHANGED storeVars
      BY <1>7 DEF Unrecorded, FinishOps
    <2>2. NoneStarts
      BY <2>1, EventProper, EventsStartNone DEF HoldInv, NoneStarts, storeVars
    <2> QED BY <1>7, <2>2, HoldIdle DEF Unrecorded, runnerVars
  <1>8. CASE Crash
    BY <1>8 DEF Crash, HoldsOne, RunningIsHeld
  <1>9. CASE LateLands
    <2>1. PICK cmd \in late : Perform(cmd)
      BY <1>9, <1>a DEF LateLands
    <2> QED BY <1>9, <1>a, <2>1, EventsStartNone, HoldIdle DEF LateLands, runnerVars, HoldInv
  <1>10. CASE Others
    BY <1>10, OthersStartNone, HoldIdle DEF Others, runnerVars, HoldInv
  <1>11. CASE UNCHANGED vars
    BY <1>11, HoldIdle DEF vars, storeVars, runnerVars, NoneStarts
  <1> QED BY <1>1, <1>2, <1>3, <1>4, <1>5, <1>6, <1>7, <1>8, <1>9, <1>10, <1>11
          DEF RunnerNext

LEMMA HoldInit == RunnerInit => HoldInv
  <1>1. RunnerInit => RunnerInv /\ StoreInv
    BY InitType, InitInv, RunFields DEF RunnerInit, RunnerInv
  <1>2. RunnerInit => HoldsOne /\ RunningIsHeld
    BY DEF RunnerInit, HoldsOne, RunningIsHeld
  <1> QED BY <1>1, <1>2 DEF HoldInv

LEMMA HoldsAlways ==
  ASSUME LateOps \subseteq FinishOps
  PROVE  RunnerSpec => []HoldInv
  <1>1. HoldInv /\ [RunnerNext]_vars => HoldInv'
    BY HoldStep
  <1> QED BY <1>1, HoldInit, PTL DEF RunnerSpec

\* Once the runner has recovered, no task is running that it does not hold,
\* whatever answers were lost, whatever events land late and however often the
\* service died before.
THEOREM NothingRunsUnheld ==
  ASSUME LateOps \subseteq FinishOps
  PROVE  RunnerSpec => []RunningIsHeld
  <1>1. HoldInv => RunningIsHeld
    BY DEF HoldInv
  <1> QED BY <1>1, HoldsAlways, PTL

-----------------------------------------------------------------------------
(* What a transaction may do to the jobs of a task.                        *)

LiveJob == {"todo", "doing"}

\* It ends some, or appends one.
Grown(old, new) ==
  \/ DOMAIN new = DOMAIN old /\ \A k \in DOMAIN old : new[k] \in LiveJob => old[k] \in LiveJob
  \/ new = Append(old, "todo")

\* Only a recovery gives a job back.
NoneBack(old, new) == \A k \in DOMAIN old : new[k] = "todo" => old[k] = "todo"

LEMMA AppendMoves ==
  ASSUME NEW s \in Seq(JobStatus)
  PROVE  Grown(s, Append(s, "todo")) /\ NoneBack(s, Append(s, "todo"))
  <1>1. "todo" \in JobStatus
    BY DEF JobStatus
  <1> QED BY <1>1, AppendSeq DEF Grown, NoneBack

LEMMA SameMoves ==
  ASSUME NEW s
  PROVE  Grown(s, s) /\ NoneBack(s, s)
  BY DEF Grown, NoneBack

LEMMA DiscardMoves ==
  ASSUME StoreInv, NEW D, D \subseteq Discardable, NEW t \in Task
  PROVE  /\ DOMAIN AfterDiscard(D)[t] = DOMAIN jobs[t]
         /\ \A k \in DOMAIN jobs[t] :
              AfterDiscard(D)[t][k] = jobs[t][k] \/ AfterDiscard(D)[t][k] = "aborted"
         /\ Grown(jobs[t], AfterDiscard(D)[t]) /\ NoneBack(jobs[t], AfterDiscard(D)[t])
  <1>1. DOMAIN AfterDiscard(D)[t] = DOMAIN jobs[t]
    BY DiscardType DEF StoreInv
  <1>2. \A k \in DOMAIN jobs[t] :
          AfterDiscard(D)[t][k] = jobs[t][k] \/ AfterDiscard(D)[t][k] = "aborted"
    BY DEF AfterDiscard
  <1> QED BY <1>1, <1>2 DEF Grown, NoneBack, LiveJob

LEMMA ClaimMoves ==
  ASSUME StoreInv, NEW p \in JobsIn("todo"), Claim(p[1], p[2]), NEW u \in Task
  PROVE  Grown(jobs[u], jobs'[u]) /\ NoneBack(jobs[u], jobs'[u])
  <1>1. PICK t \in Task : p[1] = t /\ p[2] \in DOMAIN jobs[t] /\ jobs[t][p[2]] = "todo"
    BY DEF JobsIn
  <1>2. PICK D \in SUBSET Discardable : jobs' = [AfterDiscard(D) EXCEPT ![t][p[2]] = "doing"]
    BY <1>1 DEF Claim
  <1>3. /\ DOMAIN AfterDiscard(D)[u] = DOMAIN jobs[u]
        /\ \A k \in DOMAIN jobs[u] :
             AfterDiscard(D)[u][k] = jobs[u][k] \/ AfterDiscard(D)[u][k] = "aborted"
        /\ Grown(jobs[u], AfterDiscard(D)[u]) /\ NoneBack(jobs[u], AfterDiscard(D)[u])
    BY DiscardMoves
  <1>4. AfterDiscard(D) \in [Task -> Seq(JobStatus)]
    BY DiscardType DEF StoreInv
  <1>5. CASE u # t
    BY <1>2, <1>3, <1>4, <1>5
  <1>6. CASE u = t
    <2>1. jobs'[u] = [AfterDiscard(D)[u] EXCEPT ![p[2]] = "doing"]
      BY <1>2, <1>4, <1>6
    <2> QED BY <1>1, <1>3, <1>6, <2>1 DEF Grown, NoneBack, LiveJob
  <1> QED BY <1>5, <1>6

LEMMA CloseMoves ==
  ASSUME StoreInv, NEW t, NEW k, NEW ending, CloseTask(t, k, ending), t \in Task,
         NEW u \in Task
  PROVE  Grown(jobs[u], jobs'[u]) /\ NoneBack(jobs[u], jobs'[u])
  <1> DEFINE closed == [jobs EXCEPT ![t][k] = JobEnding(ending)]
  <1>1. /\ jobs'[u] = IF ending = "done" /\ u \in Released(t)
                        THEN Append(closed[u], "todo") ELSE closed[u]
        /\ status[t] = "running"
    BY DEF CloseTask
  <1>2. jobs \in [Task -> Seq(JobStatus)]
    BY DEF StoreInv, TypeOK
  <1>3. CASE u = t
    <2>1. u \notin Released(t)
      BY <1>1, <1>3 DEF Released
    <2>2. jobs'[u] = [jobs[u] EXCEPT ![k] = JobEnding(ending)]
      BY <1>1, <1>2, <1>3, <2>1
    <2> QED BY <1>2, <2>2 DEF Grown, NoneBack, JobEnding, LiveJob
  <1>4. CASE u # t
    <2>1. closed[u] = jobs[u]
      BY <1>2, <1>4
    <2> HIDE DEF closed
    <2> QED BY <1>1, <1>2, <2>1, AppendMoves, SameMoves
  <1> QED BY <1>3, <1>4

LEMMA RecoverMoves ==
  ASSUME StoreInv, Recover, NEW u \in Task
  PROVE  Grown(jobs[u], jobs'[u])
  BY DEF Recover, Returned, Grown, LiveJob

LEMMA SubmitMoves ==
  ASSUME StoreInv, SubmitStep, NEW u \in Task
  PROVE  Grown(jobs[u], jobs'[u]) /\ NoneBack(jobs[u], jobs'[u])
  <1>1. jobs[u] \in Seq(JobStatus)
    BY DEF StoreInv, TypeOK
  <1>2. jobs'[u] = jobs[u] \/ jobs'[u] = Append(jobs[u], "todo")
    BY DEF SubmitStep, SubmitBegin, SubmitCommit, SubmitAbort
  <1> QED BY <1>1, <1>2, AppendMoves, SameMoves

LEMMA OwnerMoves ==
  ASSUME StoreInv, OwnerStep, NEW u \in Task
  PROVE  Grown(jobs[u], jobs'[u]) /\ NoneBack(jobs[u], jobs'[u])
  <1>1. jobs \in [Task -> Seq(JobStatus)]
    BY DEF StoreInv, TypeOK
  <1>2. jobs'[u] = jobs[u] \/ jobs'[u] = Append(jobs[u], "todo")
    BY <1>1 DEF OwnerStep, OwnerClear, OwnerDefer
  <1> QED BY <1>1, <1>2, AppendMoves, SameMoves

LEMMA FinishMoves ==
  ASSUME StoreInv, FinishStep, NEW u \in Task
  PROVE  Grown(jobs[u], jobs'[u]) /\ NoneBack(jobs[u], jobs'[u])
  <1>1. CASE UNCHANGED jobs
    BY <1>1, SameMoves
  <1>2. ASSUME NEW p \in handed, NEW ending, CloseTask(p[1], p[2], ending)
        PROVE  Grown(jobs[u], jobs'[u]) /\ NoneBack(jobs[u], jobs'[u])
    <2>1. p[1] \in Task
      BY DEF StoreInv, TypeOK
    <2> QED BY <1>2, <2>1, CloseMoves
  <1> QED BY <1>1, <1>2 DEF FinishStep, BeginAttempt, EndAttempt, EndTask, storeVars

LEMMA JobsMove ==
  ASSUME StoreInv, [Next]_storeVars, NEW u \in Task
  PROVE  Grown(jobs[u], jobs'[u])
  <1>1. CASE ClaimNothing
    <2>1. jobs' = AfterDiscard(Discardable) /\ Discardable \subseteq Discardable
      BY <1>1 DEF ClaimNothing
    <2> QED BY <2>1, DiscardMoves
  <1>2. CASE UNCHANGED storeVars
    BY <1>2, SameMoves DEF storeVars
  <1> QED BY <1>1, <1>2, ClaimMoves, RecoverMoves, SubmitMoves, OwnerMoves, FinishMoves DEF Next

-----------------------------------------------------------------------------
(* One push for each job, or one more for each death.                      *)

\* The runner will push no more for what it holds.
Pushed == pc = "close" \/ (pc = "end" /\ run.ended \in {"pushed", "push_failed"})

\* The push that is still to come of the task it holds, and the one of a job
\* that is still to be claimed, or to be recovered and claimed.
ToPush(t) == IF (\E p \in held : p[1] = t) /\ ~Pushed THEN 1 ELSE 0

Loose(t) == IF \E k \in DOMAIN jobs[t] : jobs[t][k] \in LiveJob /\ <<t, k>> \notin held
            THEN 1 ELSE 0

\* Every job pays for one push, and every death for one.
BudgetInv ==
  /\ HoldInv
  /\ run = [f \in DOMAIN NoRun |-> run[f]]
  /\ pushes \in [Task -> Nat] /\ crashes \in Nat
  /\ \A p \in held : p[2] \in DOMAIN jobs[p[1]] /\ jobs[p[1]][p[2]] # "todo"
  /\ \A t \in Task : pushes[t] + ToPush(t) + Loose(t) <= Len(jobs[t]) + crashes

LEMMA SameLength ==
  ASSUME NEW s \in Seq(JobStatus), NEW r \in Seq(JobStatus), DOMAIN s = DOMAIN r
  PROVE  Len(s) = Len(r)
  OBVIOUS

\* A job that is appended pays for itself.
LEMMA LooseMoves ==
  ASSUME BudgetInv, StoreInv', NEW t \in Task, Grown(jobs[t], jobs'[t]), held' = held
  PROVE  Loose(t)' + Len(jobs[t]) <= Loose(t) + Len(jobs'[t])
  <1>1. /\ jobs[t] \in Seq(JobStatus) /\ jobs'[t] \in Seq(JobStatus)
        /\ Len(jobs[t]) \in Nat /\ Len(jobs'[t]) \in Nat
        /\ Loose(t) \in {0, 1} /\ Loose(t)' \in {0, 1}
    BY DEF BudgetInv, HoldInv, StoreInv, TypeOK, Loose
  <1>2. CASE jobs'[t] = Append(jobs[t], "todo")
    <2>1. Len(jobs'[t]) = Len(jobs[t]) + 1
      BY <1>1, <1>2
    <2> QED BY <1>1, <2>1
  <1>3. CASE /\ DOMAIN jobs'[t] = DOMAIN jobs[t]
             /\ \A k \in DOMAIN jobs[t] : jobs'[t][k] \in LiveJob => jobs[t][k] \in LiveJob
    <2>1. Len(jobs'[t]) = Len(jobs[t])
      BY <1>1, <1>3, SameLength
    <2>2. Loose(t)' = 1 => Loose(t) = 1
      BY <1>3 DEF Loose
    <2> QED BY <1>1, <2>1, <2>2
  <1> QED BY <1>2, <1>3 DEF Grown

\* Jobs that are held stay out of the queue, but for a recovery.
LEMMA HeldStaysOut ==
  ASSUME BudgetInv, [Next]_storeVars, NEW p \in held, NoneBack(jobs[p[1]], jobs'[p[1]])
  PROVE  p[2] \in DOMAIN jobs'[p[1]] /\ jobs'[p[1]][p[2]] # "todo"
  <1> DEFINE t == p[1]
  <1>1. /\ t \in Task /\ p[2] \in DOMAIN jobs[t] /\ jobs[t][p[2]] # "todo"
        /\ jobs[t] \in Seq(JobStatus) /\ "todo" \in JobStatus
    BY DEF BudgetInv, HoldInv, RunnerInv, TypeOK, JobStatus
  <1>2. Grown(jobs[t], jobs'[t])
    BY <1>1, JobsMove DEF BudgetInv, HoldInv
  <1>3. p[2] \in DOMAIN jobs'[t]
    BY <1>1, <1>2, AppendSeq DEF Grown
  <1> QED BY <1>1, <1>2, <1>3 DEF NoneBack

\* A step in which the runner keeps what it holds, and pushes nothing.
LEMMA BudgetFrame ==
  ASSUME BudgetInv, HoldInv', [Next]_storeVars, held' = held,
         held = {} \/ \A u \in Task : NoneBack(jobs[u], jobs'[u]),
         UNCHANGED <<pushes, crashes>>, Pushed => Pushed',
         run' = [f \in DOMAIN NoRun |-> run'[f]]
  PROVE  BudgetInv'
  <1>1. \A p \in held : p[2] \in DOMAIN jobs'[p[1]] /\ jobs'[p[1]][p[2]] # "todo"
    BY SMTT(20), HeldStaysOut DEF BudgetInv, HoldInv, RunnerInv, TypeOK
  <1>2. ASSUME NEW t \in Task
        PROVE  pushes[t] + ToPush(t)' + Loose(t)' <= Len(jobs'[t]) + crashes
    <2>1. Loose(t)' + Len(jobs[t]) <= Loose(t) + Len(jobs'[t])
      BY JobsMove, LooseMoves DEF BudgetInv, HoldInv
    <2>2. /\ Len(jobs[t]) \in Nat /\ Len(jobs'[t]) \in Nat
          /\ Loose(t) \in {0, 1} /\ Loose(t)' \in {0, 1}
          /\ ToPush(t) \in {0, 1} /\ ToPush(t)' \in {0, 1}
          /\ pushes[t] \in Nat /\ crashes \in Nat
      BY DEF BudgetInv, HoldInv, StoreInv, TypeOK, Loose, ToPush
    <2>3. ToPush(t)' <= ToPush(t)
      BY DEF ToPush
    <2>4. pushes[t] + ToPush(t) + Loose(t) <= Len(jobs[t]) + crashes
      BY DEF BudgetInv
    <2>5. /\ Loose(t) \in Nat /\ Loose(t)' \in Nat
          /\ ToPush(t) \in Nat /\ ToPush(t)' \in Nat
      BY <2>2
    <2> DEFINE a == ToPush(t)
               c == ToPush(t)'
               b == Loose(t)
               d == Loose(t)'
               m == Len(jobs[t])
               n == Len(jobs'[t])
               q == pushes[t]
    <2>6. /\ a \in Nat /\ b \in Nat /\ c \in Nat /\ d \in Nat
          /\ m \in Nat /\ n \in Nat /\ q \in Nat /\ crashes \in Nat
          /\ q + a + b <= m + crashes /\ c <= a /\ d + m <= b + n
      BY <2>1, <2>2, <2>3, <2>4, <2>5
    <2>7. q + c + d <= n + crashes
      <3> HIDE DEF a, b, c, d, m, n, q
      <3> QED BY <2>6
    <2> QED BY <2>7
  <1> QED BY <1>1, <1>2 DEF BudgetInv

LEMMA BudgetTypes ==
  ASSUME BudgetInv, NEW t \in Task
  PROVE  /\ jobs[t] \in Seq(JobStatus) /\ Len(jobs[t]) \in Nat
         /\ pushes[t] \in Nat /\ crashes \in Nat
         /\ Loose(t) \in {0, 1} /\ ToPush(t) \in {0, 1}
         /\ pushes[t] + ToPush(t) + Loose(t) <= Len(jobs[t]) + crashes
  <1>1. jobs[t] \in Seq(JobStatus) /\ Len(jobs[t]) \in Nat
    BY DEF BudgetInv, HoldInv, StoreInv, TypeOK
  <1>2. pushes[t] \in Nat /\ crashes \in Nat
    BY DEF BudgetInv
  <1>3. Loose(t) \in {0, 1} /\ ToPush(t) \in {0, 1}
    BY DEF Loose, ToPush
  <1>4. pushes[t] + ToPush(t) + Loose(t) <= Len(jobs[t]) + crashes
    BY DEF BudgetInv
  <1> QED BY <1>1, <1>2, <1>3, <1>4

\* A claimed job is loose no more, and its task has no other.
LEMMA ClaimBudget ==
  ASSUME LateOps \subseteq FinishOps, BudgetInv, HoldInv', TurnClaim
  PROVE  BudgetInv'
  <1>1. \A cmd \in late : cmd.op # "recover"
    BY DEF BudgetInv, HoldInv, RunnerInv, Proper
  <1>2. PICK p \in JobsIn("todo") :
          /\ Claim(p[1], p[2]) /\ held' = {p}
          /\ run' = [NoRun EXCEPT !.number = NextAttempt(p[1])]
    BY <1>1 DEF TurnClaim
  <1>3. pc = "idle" /\ held = {} /\ pc' = "start" /\ UNCHANGED <<pushes, crashes>>
    BY DEF TurnClaim, countVars, BudgetInv, HoldInv, HoldsOne
  <1>4. PICK t \in Task : \E k \in DOMAIN jobs[t] : p = <<t, k>> /\ jobs[t][k] = "todo"
    BY DEF JobsIn
  <1>k. PICK k \in DOMAIN jobs[t] : p = <<t, k>> /\ jobs[t][k] = "todo"
    BY <1>4
  <1>5. k \in DOMAIN jobs'[t] /\ jobs'[t][k] = "doing"
    <2>1. PICK D \in SUBSET Discardable : jobs' = [AfterDiscard(D) EXCEPT ![t][k] = "doing"]
      BY <1>2, <1>k DEF Claim
    <2> QED BY <2>1, <1>k, DiscardType DEF BudgetInv, HoldInv, StoreInv
  <1>6. \A i \in DOMAIN jobs'[t] : jobs'[t][i] \in LiveJob => i = k
    BY <1>5 DEF HoldInv, StoreInv, OneLiveJob, LiveJob
  <1>7. ASSUME NEW u \in Task
        PROVE  pushes[u] + ToPush(u)' + Loose(u)' <= Len(jobs'[u]) + crashes
    <2>1. /\ Grown(jobs[u], jobs'[u]) /\ DOMAIN jobs'[u] = DOMAIN jobs[u]
          /\ jobs[u] \in Seq(JobStatus) /\ jobs'[u] \in Seq(JobStatus)
      <3>1. PICK D \in SUBSET Discardable : jobs' = [AfterDiscard(D) EXCEPT ![t][k] = "doing"]
        BY <1>2, <1>k DEF Claim
      <3>2. DOMAIN jobs'[u] = DOMAIN jobs[u]
        BY <3>1, DiscardType DEF BudgetInv, HoldInv, StoreInv
      <3> QED BY <1>2, <3>2, ClaimMoves DEF BudgetInv, HoldInv, StoreInv, TypeOK
    <2>2. Len(jobs'[u]) = Len(jobs[u])
      BY <2>1, SameLength
    <2>3. CASE u = t
      <3>1. Loose(u) = 1
        BY <1>3, <1>k, <2>3 DEF Loose, LiveJob
      <3>2. Loose(u)' = 0 /\ ToPush(u)' \in {0, 1}
        BY <1>2, <1>k, <1>6, <2>3 DEF Loose, ToPush
      <3> QED BY <1>3, <2>2, <3>1, <3>2, BudgetTypes
    <2>4. CASE u # t
      <3>1. ToPush(u)' = 0
        BY <1>2, <1>k, <2>4 DEF ToPush
      <3>2. Loose(u)' = 1 => Loose(u) = 1
        <4>1. \A i \in DOMAIN jobs[u] : jobs'[u][i] \in LiveJob => jobs[u][i] \in LiveJob
          BY <1>2, <2>1, <2>2, AppendSeq DEF Grown, JobStatus
        <4> QED BY <1>3, <2>1, <4>1 DEF Loose
      <3>3. Loose(u)' \in {0, 1}
        BY DEF Loose
      <3> QED BY <1>3, <2>2, <3>1, <3>2, <3>3, BudgetTypes
    <2> QED BY <2>3, <2>4
  <1>8. run' = [f \in DOMAIN NoRun |-> run'[f]]
    BY <1>2, RunFields
  <1> QED BY <1>2, <1>3, <1>k, <1>5, <1>7, <1>8 DEF BudgetInv

\* A push uses up what the task held had to its credit.
LEMMA WorkBudget ==
  ASSUME BudgetInv, HoldInv', Work
  PROVE  BudgetInv'
  <1>1. PICK end \in AttemptEnd :
          /\ run' = [run EXCEPT !.ended = end]
          /\ \/ /\ end \in {"pushed", "push_failed"}
                /\ pushes' = [t \in Task |-> IF \E p \in held : p[1] = t THEN pushes[t] + 1
                                                                       ELSE pushes[t]]
             \/ UNCHANGED pushes
    BY DEF Work
  <1>2. pc = "work" /\ pc' = "end" /\ UNCHANGED <<held, jobs, crashes>>
    BY DEF Work, storeVars, countVars
  <1>3. run' = [f \in DOMAIN NoRun |-> run'[f]] /\ run'.ended = end
    BY <1>1, RunFields DEF BudgetInv
  <1>4. ~Pushed /\ (end \in {"pushed", "push_failed"} => Pushed')
    BY <1>2, <1>3 DEF Pushed
  <1>5. ASSUME NEW t \in Task
        PROVE  /\ pushes'[t] \in Nat
               /\ pushes'[t] + ToPush(t)' + Loose(t)' <= Len(jobs'[t]) + crashes'
    <2>1. Loose(t)' = Loose(t) /\ UNCHANGED <<jobs, crashes>>
      BY <1>2 DEF Loose
    <2>2. pushes'[t] + ToPush(t)' <= pushes[t] + ToPush(t) /\ pushes'[t] \in Nat
      <3>1. pushes[t] \in Nat
        BY BudgetTypes
      <3>2. CASE \E p \in held : p[1] = t
        BY <1>1, <1>2, <1>4, <3>1, <3>2 DEF ToPush, BudgetInv
      <3>3. CASE ~\E p \in held : p[1] = t
        BY <1>1, <1>2, <3>1, <3>3 DEF ToPush, BudgetInv
      <3> QED BY <3>2, <3>3
    <2>3. ToPush(t)' \in Nat /\ ToPush(t) \in Nat /\ Loose(t) \in Nat
      BY DEF ToPush, Loose
    <2> DEFINE a == ToPush(t)
               c == ToPush(t)'
               b == Loose(t)
               m == Len(jobs[t])
               q == pushes[t]
               r == pushes'[t]
    <2>4. /\ a \in Nat /\ b \in Nat /\ c \in Nat /\ m \in Nat
          /\ q \in Nat /\ r \in Nat /\ crashes \in Nat
          /\ q + a + b <= m + crashes /\ r + c <= q + a
      BY <2>2, <2>3, BudgetTypes
    <2>5. r + c + b <= m + crashes
      <3> HIDE DEF a, b, c, m, q, r
      <3> QED BY <2>4
    <2> QED BY <2>1, <2>2, <2>5
  <1>6. pushes' \in [Task -> Nat]
    BY <1>1, <1>5 DEF BudgetInv
  <1> QED BY <1>2, <1>3, <1>5, <1>6 DEF BudgetInv

\* What the dead service held is to be run, and pushed, once more.
LEMMA CrashBudget ==
  ASSUME BudgetInv, HoldInv', Crash
  PROVE  BudgetInv'
  <1>1. held' = {} /\ crashes' = crashes + 1 /\ UNCHANGED <<jobs, pushes>> /\ run' = NoRun
    BY DEF Crash, storeVars
  <1>2. ASSUME NEW t \in Task
        PROVE  pushes[t] + ToPush(t)' + Loose(t)' <= Len(jobs[t]) + crashes'
    <2>1. ToPush(t)' = 0 /\ Loose(t)' \in {0, 1}
      BY <1>1 DEF ToPush, Loose
    <2> QED BY <1>1, <2>1, BudgetTypes
  <1> QED BY <1>1, <1>2, RunFields DEF BudgetInv

\* After its end_task, a task's job is not to be run again.
LEMMA EndedJob ==
  ASSUME StoreInv, NEW t \in Task, NEW k \in DOMAIN jobs[t], NEW ending \in Endings,
         jobs[t][k] # "todo", EndTask(t, k, ending)
  PROVE  jobs'[t][k] \notin LiveJob
  <1>1. CASE CloseTask(t, k, ending)
    <2>1. t \notin Released(t)
      BY <1>1 DEF CloseTask, Released
    <2>2. jobs'[t][k] = JobEnding(ending)
      BY <1>1, <2>1 DEF CloseTask, StoreInv, TypeOK
    <2> QED BY <2>2 DEF JobEnding, LiveJob
  <1>2. CASE status[t] # "running" /\ UNCHANGED storeVars
    <2>1. jobs[t][k] # "doing"
      BY <1>2 DEF StoreInv, JobTaskAgree, HasJobIn
    <2> QED BY <1>2, <2>1 DEF storeVars, LiveJob
  <1> QED BY <1>1, <1>2 DEF EndTask

LEMMA CloseBudget ==
  ASSUME LateOps \subseteq FinishOps, BudgetInv, HoldInv', Recorded, pc = "close"
  PROVE  BudgetInv'
  <1>1. held' = {} /\ run' = NoRun /\ UNCHANGED <<pushes, crashes>>
    BY DEF Recorded, countVars
  <1>2. PICK p \in held : Perform(Event(p))
    BY DEF Recorded
  <1>3. EndTask(p[1], p[2], run.ended) /\ run.ended \in Endings
    BY <1>2 DEF Perform, Event, Command, BudgetInv, HoldInv, RunnerInv
  <1>4. /\ p[1] \in Task /\ p = <<p[1], p[2]>>
        /\ p[2] \in DOMAIN jobs[p[1]] /\ jobs[p[1]][p[2]] # "todo"
    BY DEF BudgetInv, HoldInv, RunnerInv, TypeOK
  <1>5. jobs'[p[1]][p[2]] \notin LiveJob
    BY <1>3, <1>4, EndedJob DEF BudgetInv, HoldInv
  <1>6. held = {p}
    BY DEF BudgetInv, HoldInv, HoldsOne
  <1>7. [Next]_storeVars
    BY StepIsStore DEF BudgetInv, HoldInv, RunnerNext
  <1>8. ASSUME NEW u \in Task
        PROVE  pushes[u] + ToPush(u)' + Loose(u)' <= Len(jobs'[u]) + crashes
    <2>1. /\ jobs[u] \in Seq(JobStatus) /\ jobs'[u] \in Seq(JobStatus)
          /\ Grown(jobs[u], jobs'[u])
      BY <1>7, JobsMove DEF BudgetInv, HoldInv, StoreInv, TypeOK
    <2>2. ToPush(u)' = 0 /\ Loose(u)' \in {0, 1}
      BY <1>1 DEF ToPush, Loose
    <2>3. CASE jobs'[u] = Append(jobs[u], "todo")
      <3>1. Len(jobs'[u]) = Len(jobs[u]) + 1
        BY <2>1, <2>3
      <3> QED BY <2>2, <3>1, BudgetTypes
    <2>4. CASE /\ DOMAIN jobs'[u] = DOMAIN jobs[u]
               /\ \A k \in DOMAIN jobs[u] : jobs'[u][k] \in LiveJob => jobs[u][k] \in LiveJob
      <3>1. Len(jobs'[u]) = Len(jobs[u])
        BY <2>1, <2>4, SameLength
      <3>2. Loose(u)' = 1 => Loose(u) = 1
        <4>1. \A k \in DOMAIN jobs'[u] : jobs'[u][k] \in LiveJob
                => k \in DOMAIN jobs[u] /\ jobs[u][k] \in LiveJob /\ <<u, k>> \notin held
          BY <1>4, <1>5, <1>6, <2>4
        <4> QED BY <4>1 DEF Loose
      <3> QED BY <2>2, <3>1, <3>2, BudgetTypes
    <2> QED BY <2>1, <2>3, <2>4 DEF Grown
  <1> QED BY <1>1, <1>8, RunFields DEF BudgetInv

LEMMA BudgetStep ==
  ASSUME LateOps \subseteq FinishOps, BudgetInv, [RunnerNext]_vars
  PROVE  BudgetInv'
  <1>0. HoldInv' /\ [Next]_storeVars
    BY HoldStep, StepIsStore DEF BudgetInv, HoldInv
  <1>1. run = [f \in DOMAIN NoRun |-> run[f]] /\ run' = [f \in DOMAIN NoRun |-> run'[f]]
    BY <1>0 DEF BudgetInv, HoldInv, RunnerInv
  <1>2. CASE TurnClaim
    BY <1>0, <1>2, ClaimBudget
  <1>3. CASE Work
    BY <1>0, <1>3, WorkBudget
  <1>4. CASE Crash
    BY <1>0, <1>4, CrashBudget
  <1>5. CASE Recorded /\ pc = "close"
    BY <1>0, <1>5, CloseBudget
  <1>6. CASE /\ held' = held /\ UNCHANGED <<pushes, crashes>> /\ (Pushed => Pushed')
             /\ held = {} \/ \A u \in Task : NoneBack(jobs[u], jobs'[u])
    BY <1>0, <1>1, <1>6, BudgetFrame
  <1>7. CASE TurnRecover \/ TurnEmpty \/ TurnUnavailable
    <2>1. pc = "idle" /\ UNCHANGED <<held, pushes, crashes>>
      BY <1>7 DEF TurnRecover, TurnEmpty, TurnUnavailable, runnerVars, countVars
    <2> QED BY <1>6, <2>1 DEF BudgetInv, HoldInv, HoldsOne, Pushed
  <1>8. CASE RunTask \/ RunnerError
    <2>1. ~Pushed /\ UNCHANGED <<held, jobs, pushes, crashes>>
      BY <1>8 DEF RunTask, RunnerError, storeVars, countVars, Pushed
    <2> QED BY <1>6, <2>1, SameMoves
  <1>9. CASE Recorded /\ pc # "close"
    <2>1. PICK p \in held : Perform(Event(p)) /\ pc \in FinishOps
      BY <1>9 DEF Recorded, FinishOps
    <2>2. \A u \in Task : NoneBack(jobs[u], jobs'[u])
      BY <2>1, EventProper, PerformIsFinish, FinishMoves DEF BudgetInv, HoldInv
    <2>3. Pushed => Pushed'
      <3>1. pc = "end" /\ Pushed => AfterAttempt
        BY <1>9 DEF Recorded
      <3>2. AfterAttempt /\ run.ended \in {"pushed", "push_failed"} => pc' = "close"
        BY DEF AfterAttempt, Close
      <3> QED BY <1>9, <3>1, <3>2 DEF Pushed
    <2> QED BY <1>6, <1>9, <2>2, <2>3 DEF Recorded, countVars
  <1>10. CASE Unrecorded
    <2>1. PICK p \in held : /\ pc \in FinishOps
                            /\ Perform(Event(p)) \/ UNCHANGED storeVars
      BY <1>10 DEF Unrecorded, FinishOps
    <2>2. \A u \in Task : NoneBack(jobs[u], jobs'[u])
      BY <2>1, EventProper, PerformIsFinish, FinishMoves, SameMoves
         DEF BudgetInv, HoldInv, storeVars
    <2> QED BY <1>6, <1>10, <2>2 DEF Unrecorded, runnerVars, Pushed
  <1>11. CASE LateLands
    <2>1. PICK cmd \in late : Perform(cmd) /\ Proper(cmd, handed)
      BY <1>11 DEF LateLands, BudgetInv, HoldInv, RunnerInv, Proper
    <2>2. \A u \in Task : NoneBack(jobs[u], jobs'[u])
      BY <2>1, PerformIsFinish, FinishMoves DEF BudgetInv, HoldInv
    <2> QED BY <1>6, <1>11, <2>2 DEF LateLands, runnerVars, countVars, Pushed
  <1>12. CASE Others
    <2>1. \A u \in Task : NoneBack(jobs[u], jobs'[u])
      BY <1>12, SubmitMoves, OwnerMoves DEF Others, BudgetInv, HoldInv
    <2> QED BY <1>6, <1>12, <2>1 DEF Others, runnerVars, countVars, Pushed
  <1>13. CASE UNCHANGED vars
    BY <1>6, <1>13, SameMoves DEF vars, storeVars, runnerVars, countVars, Pushed
  <1> QED BY <1>2, <1>3, <1>4, <1>5, <1>7, <1>8, <1>9, <1>10, <1>11, <1>12, <1>13
          DEF RunnerNext

\* However answers are lost, events repeated and late, and the owner requeues:
\* a task's commits are no more than its jobs and the deaths of the service.
THEOREM OnePushPerJob ==
  ASSUME LateOps \subseteq FinishOps
  PROVE  RunnerSpec => []PushedOncePerJob
  <1>1. RunnerInit => BudgetInv
    <2> SUFFICES ASSUME RunnerInit PROVE BudgetInv
      OBVIOUS
    <2>1. HoldInv
      BY HoldInit
    <2>2. \A t \in Task : ToPush(t) = 0 /\ Loose(t) = 0 /\ Len(jobs[t]) = 0
      BY DEF RunnerInit, Init, ToPush, Loose
    <2> QED BY <2>1, <2>2, RunFields DEF RunnerInit, BudgetInv
  <1>2. BudgetInv /\ [RunnerNext]_vars => BudgetInv'
    BY BudgetStep
  <1>3. BudgetInv => PushedOncePerJob
    <2> SUFFICES ASSUME BudgetInv, NEW t \in Task
                 PROVE  pushes[t] <= Len(jobs[t]) + crashes
      BY DEF PushedOncePerJob
    <2>1. Loose(t) \in Nat /\ ToPush(t) \in Nat
      BY DEF Loose, ToPush
    <2> QED BY <2>1, BudgetTypes
  <1> QED BY <1>1, <1>2, <1>3, PTL DEF RunnerSpec

-----------------------------------------------------------------------------
(* The result that lands is the runner's, if only attempt events are late. *)

AttemptOps == {"begin", "end"}

\* The task the runner holds is running, or its end_task has landed, and the
\* owner may have cleared it since.
Working(p) ==
  /\ status[p[1]] = "running"
  /\ p[2] \in DOMAIN jobs[p[1]] /\ jobs[p[1]][p[2]] = "doing"

Landed(p) ==
  /\ pc = "close"
  /\ \/ status[p[1]] = run.ended
     \/ status[p[1]] = "queued" /\ run.ended # "done"
  /\ p[2] \in DOMAIN jobs[p[1]] /\ jobs[p[1]][p[2]] \in {"succeeded", "failed"}

ResultInv ==
  /\ HoldInv
  /\ crashes \in Nat
  /\ \A cmd \in late : cmd.op \in AttemptOps
  /\ \A p \in held : Working(p) \/ Landed(p)

LEMMA AttemptsKeep ==
  ASSUME NEW cmd, cmd.op \in AttemptOps, Perform(cmd)
  PROVE  UNCHANGED <<status, jobs>>
  BY DEF Perform, AttemptOps, BeginAttempt, EndAttempt

\* An end_task of what the runner holds leaves it as the runner says.
LEMMA EndLands ==
  ASSUME ResultInv, NEW p \in held, pc = "close", EndTask(p[1], p[2], run.ended)
  PROVE  /\ \/ status'[p[1]] = run.ended
            \/ status'[p[1]] = "queued" /\ run.ended # "done"
         /\ p[2] \in DOMAIN jobs'[p[1]] /\ jobs'[p[1]][p[2]] \in {"succeeded", "failed"}
  <1> DEFINE t == p[1]
             k == p[2]
  <1>1. /\ t \in Task /\ run.ended \in Endings
        /\ status \in [Task -> TaskStatus] /\ jobs \in [Task -> Seq(JobStatus)]
    BY DEF ResultInv, HoldInv, RunnerInv, TypeOK
  <1>2. CASE CloseTask(t, k, run.ended)
    <2>1. t \notin Released(t)
      BY <1>2 DEF CloseTask, Released
    <2>2. jobs'[t] = [jobs[t] EXCEPT ![k] = JobEnding(run.ended)] /\ k \in DOMAIN jobs[t]
      BY <1>1, <1>2, <2>1 DEF CloseTask
    <2>3. status'[t] = run.ended
      BY <1>1, <1>2 DEF CloseTask
    <2> QED BY <2>2, <2>3 DEF JobEnding
  <1>3. CASE status[t] # "running" /\ UNCHANGED storeVars
    <2>1. Landed(p)
      BY <1>3 DEF ResultInv, Working
    <2> QED BY <1>3, <2>1 DEF Landed, storeVars
  <1> QED BY <1>2, <1>3 DEF EndTask

\* What the others do to a task that is held: the owner may clear it.
LEMMA OthersKeep ==
  ASSUME ResultInv, NEW p \in held, SubmitStep \/ OwnerStep, UNCHANGED <<pc, run>>
  PROVE  Working(p)' \/ Landed(p)'
  <1> DEFINE t == p[1]
             k == p[2]
  <1>1. /\ t \in Task /\ status \in [Task -> TaskStatus] /\ jobs \in [Task -> Seq(JobStatus)]
        /\ \A c \in Client : writing[c].file \subseteq Task
    BY DEF ResultInv, HoldInv, RunnerInv, TypeOK, Submission
  <1>2. /\ Working(p) \/ Landed(p)
        /\ pc = "close" => run.ended \in Endings
        /\ k \in DOMAIN jobs[t]
    BY DEF ResultInv, HoldInv, RunnerInv, Working, Landed
  <1>3. status[t] # "absent"
    BY <1>2 DEF Working, Landed, Endings
  <1>4. /\ k \in DOMAIN jobs'[t] /\ jobs'[t][k] = jobs[t][k]
        /\ \/ status'[t] = status[t]
           \/ status[t] \in {"failed", "escalated"} /\ status'[t] = "queued"
    <2>1. ASSUME NEW c \in Client, SubmitCommit(c)
          PROVE  status'[t] = status[t] /\ jobs'[t] = jobs[t]
      BY <1>1, <1>3, <2>1 DEF SubmitCommit
    <2>2. CASE SubmitStep
      BY <1>2, <2>1, <2>2 DEF SubmitStep, SubmitBegin, SubmitAbort
    <2>3. ASSUME NEW u \in Task, OwnerClear(u)
          PROVE  /\ UNCHANGED jobs
                 /\ \/ status'[t] = status[t]
                    \/ status[t] \in {"failed", "escalated"} /\ status'[t] = "queued"
      BY <1>1, <2>3 DEF OwnerClear
    <2>4. ASSUME NEW u \in Task, OwnerDefer(u)
          PROVE  k \in DOMAIN jobs'[t] /\ jobs'[t][k] = jobs[t][k] /\ UNCHANGED status
      <3>1. jobs'[t] = jobs[t] \/ jobs'[t] = Append(jobs[t], "todo")
        BY <1>1, <2>4 DEF OwnerDefer
      <3>2. jobs[t] \in Seq(JobStatus) /\ "todo" \in JobStatus /\ UNCHANGED status
        BY <1>1, <2>4 DEF OwnerDefer, JobStatus
      <3>3. CASE jobs'[t] = Append(jobs[t], "todo")
        BY <1>2, <3>2, <3>3, AppendSeq
      <3> QED BY <1>2, <3>1, <3>2, <3>3
    <2> QED BY <1>2, <2>2, <2>3, <2>4 DEF OwnerStep
  <1> QED BY <1>2, <1>4 DEF Working, Landed, Endings

LEMMA ResultFrame ==
  ASSUME ResultInv, HoldInv', UNCHANGED <<status, jobs, held, crashes>>,
         \A cmd \in late' : cmd.op \in AttemptOps,
         pc # "close" \/ UNCHANGED <<pc, run>>
  PROVE  ResultInv'
  BY DEF ResultInv, Working, Landed

LEMMA ResultIdle ==
  ASSUME ResultInv, HoldInv', held' = {}, crashes' \in Nat, late' \subseteq late
  PROVE  ResultInv'
  BY DEF ResultInv

LEMMA EventOps ==
  ASSUME NEW p, pc \in FinishOps
  PROVE  /\ Event(p).op = pc
         /\ pc = "close" => /\ Event(p).task = p[1] /\ Event(p).job = p[2]
                            /\ Event(p).ending = run.ended
  BY DEF Event, Command, FinishOps

LEMMA ResultStep ==
  ASSUME LateOps \subseteq AttemptOps, ResultInv, [RunnerNext]_vars
  PROVE  ResultInv'
  <1>0. LateOps \subseteq FinishOps
    BY DEF AttemptOps, FinishOps
  <1>1. HoldInv'
    BY <1>0, HoldStep DEF ResultInv
  <1>a. \A cmd \in late : cmd.op \in AttemptOps /\ cmd.op \notin {"claim", "recover"}
    BY DEF ResultInv, AttemptOps
  <1>2. CASE TurnRecover \/ TurnEmpty \/ TurnUnavailable
    <2>1. pc = "idle" /\ UNCHANGED <<held, crashes>> /\ late' \subseteq late
      BY <1>0, <1>2 DEF TurnRecover, TurnEmpty, TurnUnavailable, runnerVars, countVars, FinishOps
    <2> QED BY <1>1, <2>1, ResultIdle DEF ResultInv, HoldInv, HoldsOne
  <1>3. CASE TurnClaim
    <2>1. PICK p \in JobsIn("todo") : Claim(p[1], p[2]) /\ held' = {p}
      BY <1>3, <1>a DEF TurnClaim
    <2>2. crashes' = crashes /\ late' \subseteq late
      BY <1>3 DEF TurnClaim, countVars
    <2>3. PICK t \in Task : p[1] = t /\ p[2] \in DOMAIN jobs[t]
      BY DEF JobsIn
    <2>4. PICK D \in SUBSET Discardable : jobs' = [AfterDiscard(D) EXCEPT ![t][p[2]] = "doing"]
      BY <2>1, <2>3 DEF Claim
    <2>5. p[2] \in DOMAIN jobs'[t] /\ jobs'[t][p[2]] = "doing"
      BY <2>3, <2>4, DiscardType DEF ResultInv, HoldInv, StoreInv
    <2>6. status'[t] = "running"
      BY <2>1, <2>3 DEF Claim, ResultInv, HoldInv, StoreInv, TypeOK
    <2> QED BY <1>1, <2>1, <2>2, <2>3, <2>5, <2>6 DEF ResultInv, Working
  <1>4. CASE RunTask \/ Work \/ RunnerError
    <2>1. pc # "close" /\ UNCHANGED <<status, jobs, held, crashes, late>>
      BY <1>4 DEF RunTask, Work, RunnerError, storeVars, countVars
    <2> QED BY <1>1, <1>a, <2>1, ResultFrame
  <1>5. CASE Recorded
    <2>1. PICK p \in held : Perform(Event(p)) /\ pc \in FinishOps
      BY <1>5 DEF Recorded, FinishOps
    <2>2. UNCHANGED <<crashes, late>>
      BY <1>5 DEF Recorded, countVars
    <2>3. CASE pc = "close"
      BY <1>1, <1>5, <2>2, <2>3, ResultIdle DEF Recorded, ResultInv
    <2>4. CASE pc # "close"
      <3>1. UNCHANGED <<status, jobs>>
        BY <2>1, <2>4, EventOps, AttemptsKeep DEF AttemptOps, FinishOps
      <3> QED BY <1>1, <1>5, <1>a, <2>2, <2>4, <3>1, ResultFrame DEF Recorded
    <2> QED BY <2>3, <2>4
  <1>6. CASE Unrecorded
    <2>1. PICK p \in held :
            /\ pc \in FinishOps
            /\ \/ Perform(Event(p)) /\ UNCHANGED late
               \/ Event(p).op \in LateOps /\ late' = late \cup {Event(p)} /\ UNCHANGED storeVars
      BY <1>6 DEF Unrecorded, FinishOps
    <2>2. UNCHANGED <<pc, run, held, crashes>> /\ \A cmd \in late' : cmd.op \in AttemptOps
      BY <1>6, <1>a, <2>1 DEF Unrecorded, runnerVars
    <2>3. CASE UNCHANGED <<status, jobs>>
      BY <1>1, <2>2, <2>3, ResultFrame
    <2>4. CASE pc # "close"
      <3>1. UNCHANGED <<status, jobs>>
        BY <2>1, <2>4, EventOps, AttemptsKeep DEF AttemptOps, FinishOps, storeVars
      <3> QED BY <2>3, <3>1
    <2>5. CASE pc = "close" /\ Perform(Event(p))
      <3>1. EndTask(p[1], p[2], run.ended)
        BY <2>1, <2>5, EventOps DEF Perform
      <3>2. Landed(p)'
        BY <2>2, <2>5, <3>1, EndLands DEF Landed
      <3>3. held' = {p}
        BY <2>2 DEF ResultInv, HoldInv, HoldsOne
      <3> QED BY <1>1, <2>2, <3>2, <3>3 DEF ResultInv
    <2> QED BY <2>1, <2>3, <2>4, <2>5 DEF storeVars
  <1>7. CASE Crash
    BY <1>1, <1>7, ResultIdle DEF Crash, ResultInv
  <1>8. CASE LateLands
    <2>1. PICK cmd \in late : Perform(cmd)
      BY <1>8, <1>a DEF LateLands
    <2>2. UNCHANGED <<status, jobs>>
      BY <1>a, <2>1, AttemptsKeep
    <2> QED BY <1>1, <1>8, <1>a, <2>2, ResultFrame DEF LateLands, runnerVars, countVars
  <1>9. CASE Others
    BY <1>1, <1>9, OthersKeep DEF Others, runnerVars, countVars, ResultInv
  <1>10. CASE UNCHANGED vars
    BY <1>1, <1>10, <1>a, ResultFrame DEF vars, storeVars, runnerVars, countVars
  <1> QED BY <1>2, <1>3, <1>4, <1>5, <1>6, <1>7, <1>8, <1>9, <1>10 DEF RunnerNext

LEMMA LetsGoAsEnded ==
  ASSUME LateOps \subseteq AttemptOps, ResultInv, RunnerNext, NEW p \in held,
         pc = "close", held' = {}, crashes' = crashes
  PROVE  /\ \/ status'[p[1]] = run.ended
            \/ status'[p[1]] = "queued" /\ run.ended # "done"
         /\ jobs'[p[1]][p[2]] \in {"succeeded", "failed"}
  <1>1. Recorded
    <2>1. held # {} /\ crashes # crashes + 1
      BY DEF ResultInv
    <2> QED BY <2>1 DEF RunnerNext, TurnRecover, TurnClaim, TurnEmpty, TurnUnavailable, RunTask,
            Work, RunnerError, Unrecorded, Crash, LateLands, Others, runnerVars
  <1>2. PICK q \in held : Perform(Event(q))
    BY <1>1 DEF Recorded
  <1>3. q = p
    BY DEF ResultInv, HoldInv, HoldsOne
  <1>4. EndTask(p[1], p[2], run.ended)
    BY <1>2, <1>3, EventOps DEF Perform, FinishOps
  <1> QED BY <1>4, EndLands

LEMMA ResultAlways ==
  ASSUME LateOps \subseteq AttemptOps
  PROVE  RunnerSpec => []ResultInv
  <1>1. RunnerInit => ResultInv
    BY HoldInit DEF RunnerInit, ResultInv
  <1>2. ResultInv /\ [RunnerNext]_vars => ResultInv'
    BY ResultStep
  <1> QED BY <1>1, <1>2, PTL DEF RunnerSpec

\* While the runner works on a task the store calls it running, by its job.
THEOREM WhatIsHeldRuns ==
  ASSUME LateOps \subseteq AttemptOps
  PROVE  RunnerSpec => []HeldIsRunning
  <1>1. ResultInv => HeldIsRunning
    BY DEF ResultInv, HeldIsRunning, Working, Landed
  <1> QED BY <1>1, ResultAlways, PTL

\* When the runner lets go of a task it finished, what the store says is what
\* the runner found, unless the owner has cleared it since.
THEOREM TheResultLands ==
  ASSUME LateOps \subseteq AttemptOps
  PROVE  RunnerSpec => ResultLands
  <1>1. ResultInv /\ [RunnerNext]_vars =>
          [\A p \in held : pc = "close" /\ held' = {} /\ crashes' = crashes
             => /\ \/ status'[p[1]] = run.ended
                   \/ status'[p[1]] = "queued" /\ run.ended # "done"
                /\ jobs'[p[1]][p[2]] \in {"succeeded", "failed"}]_vars
    BY LetsGoAsEnded
  <1> QED BY <1>1, ResultAlways, PTL DEF RunnerSpec, ResultLands

-----------------------------------------------------------------------------
(* A done task is done by its last attempt, if only attempt events are     *)
(* late.                                                                   *)

Begun(t, n) == attempts[t][n] # "absent"

Result(ended) == IF ended = "pushed" THEN "done" ELSE "failed"

NoGaps == \A t \in Task, m, n \in Number : m < n /\ Begun(t, n) => Begun(t, m)

DoneLast ==
  \A t \in Task : status[t] = "done" =>
    \E n \in Number : /\ attempts[t][n] = "done"
                      /\ \A m \in Number : m > n => ~Begun(t, m)

\* What a late event may still do: begin the attempt after the recorded ones, of
\* a task that is not done by then, or end one that was begun before the one
\* being run, or that one the way it ended.
LateFits(cmd) ==
  /\ cmd.op = "begin" =>
       /\ \A m \in Number : m < cmd.number => Begun(cmd.task, m)
       /\ status[cmd.task] = "done" => Begun(cmd.task, cmd.number)
       /\ \A p \in held : p[1] = cmd.task => cmd.number <= run.number
  /\ cmd.op = "end" =>
       /\ Begun(cmd.task, cmd.number)
       /\ \A p \in held : p[1] = cmd.task =>
            \/ cmd.number < run.number
            \/ pc = "close"
            \/ pc = "end" /\ cmd.number = run.number /\ cmd.ending = Result(run.ended)

\* The attempt being run is the last, and its row is where the runner is.
RunFits(p) ==
  /\ run.number \in Nat
  /\ \A m \in Number : m < run.number => Begun(p[1], m)
  /\ \A m \in Number : m > run.number => ~Begun(p[1], m)
  /\ pc \in {"start", "begin"} /\ run.number \in Number
       => attempts[p[1]][run.number] \in {"absent", "running"}
  /\ pc = "work" => attempts[p[1]][run.number] = "running"
  /\ pc = "end" => attempts[p[1]][run.number] \in {"running", Result(run.ended)}
  /\ pc = "close" /\ run.ended = "done"
       => run.number \in Number /\ attempts[p[1]][run.number] = "done"

LastInv ==
  /\ ResultInv /\ NoGaps /\ DoneLast
  /\ \A p \in held : RunFits(p)
  /\ \A cmd \in late : LateFits(cmd)

\* There is a next attempt: it comes after all the others, and right after one.
LEMMA NextIsNext ==
  ASSUME NEW t \in Task
  PROVE  /\ NextAttempt(t) \in 1..MaxAttempts + 1
         /\ \A m \in Number : Begun(t, m) => m < NextAttempt(t)
         /\ NextAttempt(t) = 1 \/ Begun(t, NextAttempt(t) - 1)
  <1> DEFINE After == {n \in 1..MaxAttempts + 1 : \A m \in Number : Begun(t, m) => m < n}
             R == OpToRel(<, Nat)
  <1>1. After \subseteq Nat /\ MaxAttempts + 1 \in After
    BY StoreAssumption DEF Number
  <1>2. \E n \in After : \A v \in After : <<v, n>> \notin R
    BY <1>1, NatLessThanWellFounded, WFMin
  <1>3. PICK n \in After : \A v \in After : <<v, n>> \notin R
    BY <1>2
  <1>4. ASSUME NEW v \in After, v < n PROVE FALSE
    <2>1. <<v, n>> \in Nat \X Nat /\ <<v, n>>[1] < <<v, n>>[2]
      BY <1>1, <1>4
    <2>2. <<v, n>> \in R
      BY <2>1, Zenon DEF OpToRel
    <2> QED BY <1>3, <2>2
  <1>5. n = 1 \/ Begun(t, n - 1)
    <2> SUFFICES ASSUME n # 1 PROVE Begun(t, n - 1)
      OBVIOUS
    <2>1. n - 1 \in 1..MaxAttempts + 1 /\ n - 1 < n /\ n \in Nat
      BY <1>1, StoreAssumption
    <2>2. n - 1 \notin After
      BY <1>4, <2>1
    <2>3. PICK m \in Number : Begun(t, m) /\ ~(m < n - 1)
      BY <2>1, <2>2
    <2>4. m < n
      BY <2>3
    <2>5. m = n - 1
      BY <2>1, <2>3, <2>4, StoreAssumption DEF Number
    <2> QED BY <2>3, <2>5
  <1>6. \E k \in 1..MaxAttempts + 1 :
          /\ \A m \in Number : attempts[t][m] # "absent" => m < k
          /\ k = 1 \/ attempts[t][k - 1] # "absent"
    BY <1>3, <1>5 DEF Begun
  <1> QED BY <1>6 DEF NextAttempt, Begun

LEMMA BeginAttemptAt ==
  ASSUME TypeOK, NEW t \in Task, NEW n \in Number, BeginAttempt(t, n)
  PROVE  /\ UNCHANGED status
         /\ \A u \in Task, m \in Number :
              attempts'[u][m] = IF u = t /\ m = n /\ attempts[u][m] = "absent"
                                THEN "running" ELSE attempts[u][m]
  BY DEF BeginAttempt, TypeOK

\* What BeginAttempt and EndAttempt leave of the rows.
Kept ==
  \A u \in Task, m \in Number :
    /\ Begun(u, m) => attempts'[u][m] # "absent"
    /\ attempts[u][m] = "done" => attempts'[u][m] = "done"

LEMMA BeginFits ==
  ASSUME LastInv, NEW t \in Task, NEW n \in Number, BeginAttempt(t, n),
         \A m \in Number : m < n => Begun(t, m),
         status[t] = "done" => Begun(t, n)
  PROVE  /\ UNCHANGED status /\ Kept
         /\ \A u \in Task, m \in Number :
              attempts'[u][m] = IF u = t /\ m = n /\ ~Begun(u, m) THEN "running"
                                                                  ELSE attempts[u][m]
         /\ NoGaps' /\ DoneLast'
  <1>1. /\ UNCHANGED status
        /\ \A u \in Task, m \in Number :
             attempts'[u][m] = IF u = t /\ m = n /\ ~Begun(u, m) THEN "running"
                                                                 ELSE attempts[u][m]
    BY BeginAttemptAt DEF Begun, LastInv, ResultInv, HoldInv, RunnerInv
  <1>2. Kept
    BY <1>1 DEF Kept, Begun
  <1>3. NoGaps'
    <2> SUFFICES ASSUME NEW u \in Task, NEW l \in Number, NEW m \in Number,
                        l < m, attempts'[u][m] # "absent"
                 PROVE  attempts'[u][l] # "absent"
      BY DEF NoGaps, Begun
    <2>1. Begun(u, m) \/ (u = t /\ m = n)
      BY <1>1 DEF Begun
    <2>2. Begun(u, l)
      BY <2>1 DEF LastInv, NoGaps
    <2> QED BY <1>2, <2>2 DEF Kept
  <1>4. DoneLast'
    <2> SUFFICES ASSUME NEW u \in Task, status'[u] = "done"
                 PROVE  \E k \in Number : /\ attempts'[u][k] = "done"
                                          /\ \A m \in Number : m > k => attempts'[u][m] = "absent"
      BY DEF DoneLast, Begun
    <2>1. status[u] = "done"
      BY <1>1
    <2>2. PICK k \in Number : /\ attempts[u][k] = "done"
                              /\ \A m \in Number : m > k => ~Begun(u, m)
      BY <2>1 DEF LastInv, DoneLast
    <2>3. \A m \in Number : attempts'[u][m] = attempts[u][m]
      BY <1>1, <2>1
    <2> QED BY <2>2, <2>3 DEF Begun
  <1> QED BY <1>1, <1>2, <1>3, <1>4

LEMMA EndFits ==
  ASSUME LastInv, NEW t \in Task, NEW n \in Number, NEW result \in {"done", "failed"},
         EndAttempt(t, n, result)
  PROVE  /\ UNCHANGED status /\ Kept
         /\ \A u \in Task, m \in Number :
              /\ Begun(u, m)' <=> Begun(u, m)
              /\ attempts'[u][m] = IF u = t /\ m = n /\ attempts[u][m] = "running"
                                   THEN result ELSE attempts[u][m]
         /\ NoGaps' /\ DoneLast'
  <1>1. /\ UNCHANGED status
        /\ \A u \in Task, m \in Number :
             attempts'[u][m] = IF u = t /\ m = n /\ attempts[u][m] = "running"
                               THEN result ELSE attempts[u][m]
    <2>1. TypeOK
      BY DEF LastInv, ResultInv, HoldInv, RunnerInv
    <2>2. CASE attempts[t][n] = "running"
      BY <2>1, <2>2, EndAttemptAt DEF EndAttempt, TypeOK
    <2>3. CASE attempts[t][n] # "running"
      BY <2>3 DEF EndAttempt
    <2> QED BY <2>2, <2>3
  <1>2. Kept /\ \A u \in Task, m \in Number : Begun(u, m)' <=> Begun(u, m)
    BY <1>1 DEF Kept, Begun
  <1>3. NoGaps'
    BY <1>2 DEF LastInv, NoGaps, Begun
  <1>4. DoneLast'
    BY <1>1, <1>2 DEF LastInv, DoneLast, Begun, Kept
  <1> QED BY <1>1, <1>2, <1>3, <1>4

LEMMA LateTypes ==
  ASSUME LastInv, NEW cmd \in late
  PROVE  /\ cmd.task \in Task /\ cmd.op \in AttemptOps /\ cmd.number \in Number
         /\ cmd.op = "end" => cmd.ending \in {"done", "failed"}
  <1>1. Proper(cmd, handed) /\ cmd.op \in AttemptOps /\ handed \subseteq Task \X (Nat \ {0})
    BY DEF LastInv, ResultInv, HoldInv, RunnerInv, TypeOK
  <1> QED BY <1>1 DEF Proper, AttemptOps

LEMMA HeldTypes ==
  ASSUME LastInv, NEW p \in held
  PROVE  /\ p[1] \in Task /\ held = {p}
         /\ pc \in {"begin", "work", "end"} => run.number \in Number
         /\ pc # "close" => status[p[1]] = "running"
         /\ run = [f \in DOMAIN NoRun |-> run[f]]
  BY DEF LastInv, ResultInv, HoldInv, HoldsOne, RunnerInv, TypeOK, Working, Landed

\* Steps that record no attempt and close no task.
LEMMA LastFrame ==
  ASSUME LastInv, ResultInv', UNCHANGED attempts, NoneDone, late' \subseteq late,
         held' = {} \/ UNCHANGED <<pc, held, run>>
  PROVE  LastInv'
  <1>1. NoGaps' /\ DoneLast'
    BY DEF LastInv, NoGaps, DoneLast, NoneDone, Begun
  <1>2. \A q \in held' : RunFits(q)'
    BY DEF LastInv, RunFits, Begun
  <1>3. \A cmd \in late' : LateFits(cmd)'
    BY LateTypes DEF LastInv, LateFits, NoneDone, Begun
  <1> QED BY <1>1, <1>2, <1>3 DEF LastInv

LEMMA LastRecover ==
  ASSUME LastInv, ResultInv', Recover, held' = {}, late' \subseteq late
  PROVE  LastInv'
  <1>1. \A u \in Task, m \in Number :
          /\ Begun(u, m)' <=> Begun(u, m)
          /\ attempts[u][m] = "done" => attempts'[u][m] = "done"
    BY DEF Recover, TasksReturned, Begun
  <1>2. \A t \in Task : status'[t] = "done" => status[t] = "done"
    BY DEF Recover, TasksReturned
  <1>3. NoGaps' /\ DoneLast'
    BY <1>1, <1>2 DEF LastInv, NoGaps, DoneLast
  <1>4. \A cmd \in late' : LateFits(cmd)'
    BY <1>1, <1>2, LateTypes DEF LastInv, LateFits
  <1> QED BY <1>3, <1>4 DEF LastInv, RunFits

LEMMA LastClaim ==
  ASSUME LastInv, ResultInv', TurnClaim
  PROVE  LastInv'
  <1>1. PICK p \in JobsIn("todo") :
          Claim(p[1], p[2]) /\ held' = {p} /\ run' = [NoRun EXCEPT !.number = NextAttempt(p[1])]
    BY LateTypes DEF TurnClaim, AttemptOps
  <1>2. pc' = "start" /\ late' = late
    BY LateTypes DEF TurnClaim, AttemptOps
  <1>3. p[1] \in Task
    BY DEF JobsIn
  <1>4. UNCHANGED attempts /\ NoneDone
    BY <1>1, ClaimEndsNone DEF Claim, LastInv, ResultInv, HoldInv, RunnerInv, TypeOK
  <1>5. run'.number = NextAttempt(p[1]) /\ run'.number \in 1..MaxAttempts + 1
    BY <1>1, <1>3, NextIsNext, RunFields DEF NoRun
  <1>6. /\ \A m \in Number : Begun(p[1], m) => m < run'.number
        /\ run'.number = 1 \/ Begun(p[1], run'.number - 1)
    BY <1>3, <1>5, NextIsNext
  <1>7. run'.number \in Nat /\ MaxAttempts \in Nat /\ Number \subseteq Nat
    BY <1>5, StoreAssumption DEF Number
  <1>8. \A m \in Number : m < run'.number => Begun(p[1], m)
    <2> SUFFICES ASSUME NEW m \in Number, m < run'.number, m # run'.number - 1
                 PROVE  Begun(p[1], m)
      BY <1>6, <1>7, StoreAssumption DEF Number
    <2>1. run'.number - 1 \in Number /\ m < run'.number - 1 /\ run'.number # 1
      BY <1>5, <1>7 DEF Number
    <2> QED BY <1>3, <1>6, <2>1 DEF LastInv, NoGaps
  <1>9. NoGaps' /\ DoneLast'
    BY <1>4 DEF LastInv, NoGaps, DoneLast, NoneDone, Begun
  <1>10. \A q \in held' : RunFits(q)'
    <2>1. \A m \in Number : m > run'.number => ~Begun(p[1], m)
      BY <1>6, <1>7
    <2>2. run'.number \in Number => ~Begun(p[1], run'.number)
      BY <1>6, <1>7
    <2> QED BY <1>1, <1>2, <1>4, <1>7, <1>8, <2>1, <2>2 DEF RunFits, Begun
  <1>11. \A cmd \in late' : LateFits(cmd)'
    <2> SUFFICES ASSUME NEW cmd \in late PROVE LateFits(cmd)'
      BY <1>2
    <2>1. cmd.task \in Task /\ cmd.number \in Number
      BY LateTypes
    <2>2. CASE cmd.op = "begin"
      <3>1. cmd.task = p[1] => cmd.number <= run'.number
        <4> SUFFICES ASSUME cmd.task = p[1] PROVE cmd.number <= run'.number
          OBVIOUS
        <4> DEFINE next == run'.number
        <4>1. CASE next < cmd.number
          <5>1. next \in Number
            BY <1>5, <1>7, <2>1, <4>1 DEF Number
          <5>2. Begun(p[1], next)
            BY <2>2, <4>1, <5>1 DEF LastInv, LateFits
          <5> QED BY <1>6, <1>7, <5>1, <5>2
        <4>2. next \in Nat /\ cmd.number \in Nat
          BY <1>7, <2>1
        <4> HIDE DEF next
        <4>3. next < cmd.number \/ cmd.number <= next
          BY <4>2
        <4> QED BY <4>1, <4>3 DEF next
      <3> QED BY <1>1, <1>2, <1>4, <2>1, <2>2, <3>1 DEF LastInv, LateFits, NoneDone, Begun
    <2>3. CASE cmd.op = "end"
      <3>1. Begun(cmd.task, cmd.number)
        BY <2>3 DEF LastInv, LateFits
      <3>2. cmd.task = p[1] => cmd.number < run'.number
        BY <1>6, <2>1, <3>1
      <3>3. Begun(cmd.task, cmd.number)'
        BY <1>4, <3>1 DEF Begun
      <3> QED BY <1>1, <2>3, <3>2, <3>3 DEF LateFits
    <2> QED BY <2>2, <2>3 DEF LateFits
  <1> QED BY <1>9, <1>10, <1>11 DEF LastInv

\* Steps of the runner's own, between two records.
LEMMA LastRun ==
  ASSUME LastInv, ResultInv', RunTask \/ Work \/ RunnerError
  PROVE  LastInv'
  <1>1. UNCHANGED <<status, attempts, held, late>>
    BY DEF RunTask, Work, RunnerError, storeVars
  <1>2. NoGaps' /\ DoneLast'
    BY <1>1 DEF LastInv, NoGaps, DoneLast, Begun
  <1>3. \A p \in held :
          /\ run'.number = run.number
          /\ \/ pc = "start" /\ pc' = "begin"
             \/ pc \in {"start", "work"} /\ pc' = "close" /\ run'.ended # "done"
             \/ pc = "work" /\ pc' = "end"
    BY HeldTypes, RunFields, CloseKeeps DEF RunTask, Work, RunnerError, Close
  <1>4. \A q \in held' : RunFits(q)'
    BY <1>1, <1>3, HeldTypes DEF LastInv, RunFits, Begun
  <1>5. \A cmd \in late' : LateFits(cmd)'
    BY <1>1, <1>3, LateTypes, HeldTypes DEF LastInv, LateFits, RunFits, Begun
  <1> QED BY <1>2, <1>4, <1>5 DEF LastInv

LEMMA RecordedBegin ==
  ASSUME LastInv, ResultInv', pc = "begin", Recorded
  PROVE  LastInv'
  <1>1. PICK p \in held : Perform(Event(p))
    BY DEF Recorded
  <1>2. /\ p[1] \in Task /\ held = {p} /\ run.number \in Number
        /\ status[p[1]] = "running"
    BY HeldTypes
  <1>3. pc' = "work" /\ UNCHANGED <<held, run, late>>
    BY DEF Recorded
  <1>4. BeginAttempt(p[1], run.number)
    BY <1>1 DEF Perform, Event, Command
  <1>5. \A m \in Number : m < run.number => Begun(p[1], m)
    BY DEF LastInv, RunFits
  <1>6. /\ UNCHANGED status /\ Kept
        /\ \A u \in Task, m \in Number :
             attempts'[u][m] = IF u = p[1] /\ m = run.number /\ ~Begun(u, m) THEN "running"
                                                                     ELSE attempts[u][m]
        /\ NoGaps' /\ DoneLast'
    BY <1>2, <1>4, <1>5, BeginFits
  <1>7. \A q \in held' : RunFits(q)'
    <2>1. \A m \in Number : m < run.number => attempts'[p[1]][m] # "absent"
      BY <1>2, <1>5, <1>6 DEF Kept
    <2>2. run.number \in Nat /\ \A m \in Number : m > run.number => attempts'[p[1]][m] = "absent"
      BY <1>2, <1>6 DEF LastInv, RunFits, Begun
    <2>3. attempts'[p[1]][run.number] = "running"
      BY <1>2, <1>6 DEF LastInv, RunFits, Begun
    <2> QED BY <1>2, <1>3, <2>1, <2>2, <2>3 DEF RunFits, Begun
  <1>8. \A cmd \in late' : LateFits(cmd)'
    BY <1>3, <1>6, LateTypes DEF LastInv, LateFits, Kept, Begun
  <1> QED BY <1>6, <1>7, <1>8 DEF LastInv

\* Where AfterAttempt takes the runner.
LEMMA AfterEnd ==
  ASSUME LastInv, held # {}, AfterAttempt
  PROVE  \/ pc' = "close" /\ run'.number = run.number /\ run'.ended = "done" /\ run.ended = "pushed"
         \/ pc' = "close" /\ run'.number = run.number /\ run'.ended # "done"
         \/ pc' = "begin" /\ run'.number = run.number + 1
  <1>1. \/ run.ended = "pushed" /\ Close("done")
        \/ Close("failed") \/ Close("escalated") \/ \E a, b, c : NextTry(a, b, c)
    BY DEF AfterAttempt
  <1> QED BY <1>1, HeldTypes, RunFields DEF Close, NextTry

LEMMA RecordedEnd ==
  ASSUME LastInv, ResultInv', pc = "end", Recorded
  PROVE  LastInv'
  <1>1. PICK p \in held : Perform(Event(p))
    BY DEF Recorded
  <1>2. p[1] \in Task /\ held = {p} /\ run.number \in Number /\ run.number \in Nat
    BY HeldTypes, StoreAssumption DEF Number
  <1>3. AfterAttempt /\ UNCHANGED <<held, late>>
    BY DEF Recorded
  <1>4. EndAttempt(p[1], run.number, Result(run.ended)) /\ Result(run.ended) \in {"done", "failed"}
    BY <1>1 DEF Perform, Event, Command, Result
  <1>5. /\ UNCHANGED status
        /\ \A u \in Task, m \in Number :
             /\ Begun(u, m)' <=> Begun(u, m)
             /\ attempts'[u][m] = IF u = p[1] /\ m = run.number /\ attempts[u][m] = "running"
                                  THEN Result(run.ended) ELSE attempts[u][m]
        /\ NoGaps' /\ DoneLast'
    BY <1>2, <1>4, EndFits
  <1>6. /\ \A m \in Number : m < run.number => Begun(p[1], m)
        /\ \A m \in Number : m > run.number => ~Begun(p[1], m)
        /\ attempts'[p[1]][run.number] = Result(run.ended)
        /\ Begun(p[1], run.number)
    BY <1>2, <1>5 DEF LastInv, RunFits, Begun, Result
  <1>7. \/ pc' = "close" /\ run'.number = run.number /\ run'.ended = "done" /\ run.ended = "pushed"
        \/ pc' = "close" /\ run'.number = run.number /\ run'.ended # "done"
        \/ pc' = "begin" /\ run'.number = run.number + 1
    BY <1>2, <1>3, AfterEnd
  <1>8. \A q \in held' : RunFits(q)'
    <2>1. CASE pc' = "close"
      BY <1>2, <1>3, <1>5, <1>6, <1>7, <2>1 DEF RunFits, Result
    <2>2. CASE pc' = "begin"
      <3>1. run'.number = run.number + 1
        BY <1>7, <2>2
      <3>2. \A m \in Number : m < run'.number => Begun(p[1], m)'
        BY <1>2, <1>5, <1>6, <3>1, StoreAssumption DEF Number
      <3>3. \A m \in Number : m >= run'.number => ~Begun(p[1], m)'
        BY <1>2, <1>5, <1>6, <3>1, StoreAssumption DEF Number
      <3>4. run'.number \in Number => attempts'[p[1]][run'.number] = "absent"
        BY <1>2, <3>1, <3>3 DEF Begun
      <3> QED BY <1>2, <1>3, <2>2, <3>1, <3>2, <3>3, <3>4, StoreAssumption DEF RunFits, Number
    <2> QED BY <1>7, <2>1, <2>2
  <1>9. \A cmd \in late' : LateFits(cmd)'
    <2> SUFFICES ASSUME NEW cmd \in late PROVE LateFits(cmd)'
      BY <1>3
    <2>1. cmd.task \in Task /\ cmd.number \in Nat /\ cmd.number \in Number
      BY LateTypes, StoreAssumption DEF Number
    <2>2. run'.number \in {run.number, run.number + 1}
      BY <1>7
    <2>3. LateFits(cmd)
      BY DEF LastInv
    <2>4. cmd.op = "begin" => LateFits(cmd)'
      BY <1>2, <1>3, <1>5, <2>1, <2>2, <2>3 DEF LateFits
    <2>5. cmd.op = "end" => LateFits(cmd)'
      BY <1>2, <1>3, <1>5, <1>7, <2>1, <2>3 DEF LateFits
    <2> QED BY <2>4, <2>5 DEF LateFits
  <1> QED BY <1>5, <1>8, <1>9 DEF LastInv

\* The end_task of what is held, answered or not.
LEMMA LastClose ==
  ASSUME LastInv, ResultInv', pc = "close", NEW p \in held, EndTask(p[1], p[2], run.ended),
         late' = late, held' = {} \/ UNCHANGED <<pc, held, run>>
  PROVE  LastInv'
  <1>1. CASE status[p[1]] # "running" /\ UNCHANGED storeVars
    <2>1. UNCHANGED attempts /\ NoneDone
      BY <1>1 DEF storeVars, NoneDone, LastInv, ResultInv, HoldInv, RunnerInv, TypeOK
    <2> QED BY <2>1, LastFrame
  <1>2. CASE CloseTask(p[1], p[2], run.ended)
    <2>1. p[1] \in Task /\ held = {p} /\ run.ended \in Endings
      BY HeldTypes DEF LastInv, ResultInv, HoldInv, RunnerInv
    <2>2. UNCHANGED attempts
      BY <1>2 DEF CloseTask
    <2>3. \A t \in Task : status'[t] = "done" =>
            status[t] = "done" \/ (t = p[1] /\ run.ended = "done")
      BY <1>2, <2>1 DEF CloseTask, LastInv, ResultInv, HoldInv, RunnerInv, TypeOK
    <2>4. run.ended = "done" =>
            /\ run.number \in Number /\ attempts[p[1]][run.number] = "done"
            /\ \A m \in Number : m > run.number => ~Begun(p[1], m)
      BY DEF LastInv, RunFits
    <2>5. NoGaps'
      BY <2>2 DEF LastInv, NoGaps, Begun
    <2>6. DoneLast'
      BY <2>2, <2>3, <2>4 DEF LastInv, DoneLast, Begun
    <2>7. \A q \in held' : RunFits(q)'
      BY <2>2 DEF LastInv, RunFits, Begun
    <2>8. \A cmd \in late' : LateFits(cmd)'
      <3> SUFFICES ASSUME NEW cmd \in late PROVE LateFits(cmd)'
        OBVIOUS
      <3>1. cmd.task \in Task /\ cmd.number \in Number /\ LateFits(cmd)
        BY LateTypes DEF LastInv
      <3>2. cmd.op = "begin" /\ cmd.task = p[1] /\ run.ended = "done" => Begun(cmd.task, cmd.number)
        <4> SUFFICES ASSUME cmd.op = "begin", cmd.task = p[1], run.ended = "done"
                     PROVE  Begun(p[1], cmd.number)
          OBVIOUS
        <4>1. cmd.number <= run.number /\ Begun(p[1], run.number) /\ run.number \in Number
          BY <2>4, <3>1 DEF LateFits, Begun
        <4>2. cmd.number = run.number \/ cmd.number < run.number
          BY <3>1, <4>1, StoreAssumption DEF Number
        <4> QED BY <2>1, <3>1, <4>1, <4>2 DEF LastInv, NoGaps
      <3> QED BY <2>2, <2>3, <3>1, <3>2 DEF LateFits, Begun
    <2> QED BY <2>5, <2>6, <2>7, <2>8 DEF LastInv
  <1> QED BY <1>1, <1>2 DEF EndTask

\* An attempt event that is not the runner's turn to go on: an answer lost, or late.
LEMMA LateBegin ==
  ASSUME LastInv, ResultInv', NEW cmd, LateFits(cmd), cmd.op = "begin",
         cmd.task \in Task, cmd.number \in Number, BeginAttempt(cmd.task, cmd.number),
         late' \subseteq late, UNCHANGED <<pc, held, run>>
  PROVE  LastInv'
  <1>1. /\ UNCHANGED status /\ Kept
        /\ \A u \in Task, m \in Number :
             attempts'[u][m] = IF u = cmd.task /\ m = cmd.number /\ ~Begun(u, m)
                               THEN "running" ELSE attempts[u][m]
        /\ NoGaps' /\ DoneLast'
    BY BeginFits DEF LateFits
  <1>2. \A q \in held' : RunFits(q)'
    <2> SUFFICES ASSUME NEW p \in held PROVE RunFits(p)'
      OBVIOUS
    <2>1. p[1] \in Task /\ RunFits(p) /\ (pc \in {"begin", "work", "end"} => run.number \in Number)
      BY HeldTypes DEF LastInv
    <2>2. \A m \in Number : Begun(p[1], m) => attempts'[p[1]][m] = attempts[p[1]][m]
      BY <1>1, <2>1
    <2>3. \A m \in Number : m > run.number => attempts'[p[1]][m] = attempts[p[1]][m]
      BY <1>1, <2>1, StoreAssumption DEF LateFits, RunFits, Number
    <2>4. \A m \in Number : attempts'[p[1]][m] \in {attempts[p[1]][m], "running"}
      BY <1>1, <2>1
    <2> QED BY <2>1, <2>2, <2>3, <2>4 DEF RunFits, Result, Begun
  <1>3. \A c \in late' : LateFits(c)'
    BY <1>1, LateTypes DEF LastInv, LateFits, Kept, Begun
  <1> QED BY <1>1, <1>2, <1>3 DEF LastInv

LEMMA LateEnd ==
  ASSUME LastInv, ResultInv', NEW cmd, LateFits(cmd), cmd.op = "end",
         cmd.task \in Task, cmd.number \in Number, cmd.ending \in {"done", "failed"},
         EndAttempt(cmd.task, cmd.number, cmd.ending),
         late' \subseteq late, UNCHANGED <<pc, held, run>>
  PROVE  LastInv'
  <1>1. /\ UNCHANGED status /\ Kept
        /\ \A u \in Task, m \in Number :
             /\ Begun(u, m)' <=> Begun(u, m)
             /\ attempts'[u][m] = IF u = cmd.task /\ m = cmd.number /\ attempts[u][m] = "running"
                                  THEN cmd.ending ELSE attempts[u][m]
        /\ NoGaps' /\ DoneLast'
    BY EndFits
  <1>2. \A q \in held' : RunFits(q)'
    <2> SUFFICES ASSUME NEW p \in held PROVE RunFits(p)'
      OBVIOUS
    <2>1. p[1] \in Task /\ RunFits(p) /\ (pc \in {"begin", "work", "end"} => run.number \in Number)
      BY HeldTypes DEF LastInv
    <2>2. CASE cmd.task # p[1] \/ cmd.number # run.number
      BY <1>1, <2>1, <2>2 DEF RunFits, Begun
    <2>3. CASE cmd.task = p[1] /\ cmd.number = run.number
      <3>1. \/ pc = "close"
            \/ pc = "end" /\ cmd.ending = Result(run.ended)
        BY <2>1, <2>3 DEF LateFits, RunFits
      <3> QED BY <1>1, <2>1, <2>3, <3>1 DEF RunFits, Begun
    <2> QED BY <2>2, <2>3
  <1>3. \A c \in late' : LateFits(c)'
    BY <1>1, LateTypes DEF LastInv, LateFits
  <1> QED BY <1>1, <1>2, <1>3 DEF LastInv

\* What the runner is about to send may land at any time from now on.
LEMMA EventFits ==
  ASSUME LastInv, NEW p \in held, pc \in AttemptOps
  PROVE  /\ LateFits(Event(p)) /\ Event(p).op = pc
         /\ Event(p).task \in Task /\ Event(p).number \in Number
         /\ pc = "end" => Event(p).ending \in {"done", "failed"}
  <1>1. /\ p[1] \in Task /\ run.number \in Number /\ status[p[1]] = "running"
        /\ run.number <= run.number
    BY HeldTypes, StoreAssumption DEF AttemptOps, Number
  <1>2. CASE pc = "begin"
    BY <1>1, <1>2 DEF Event, Command, LateFits, LastInv, RunFits
  <1>3. CASE pc = "end"
    <2>1. Begun(p[1], run.number)
      BY <1>3 DEF LastInv, RunFits, Begun, Result
    <2> QED BY <1>1, <1>3, <2>1 DEF Event, Command, LateFits, Result
  <1> QED BY <1>2, <1>3 DEF AttemptOps

LEMMA LastUnrecorded ==
  ASSUME LateOps \subseteq AttemptOps, LastInv, ResultInv', Unrecorded
  PROVE  LastInv'
  <1>1. PICK p \in held :
          /\ pc \in FinishOps
          /\ \/ Perform(Event(p)) /\ UNCHANGED late
             \/ Event(p).op \in LateOps /\ late' = late \cup {Event(p)} /\ UNCHANGED storeVars
    BY DEF Unrecorded, FinishOps
  <1>2. UNCHANGED <<pc, held, run>>
    BY DEF Unrecorded, runnerVars
  <1>3. CASE Perform(Event(p)) /\ UNCHANGED late /\ pc = "close"
    <2>1. EndTask(p[1], p[2], run.ended)
      BY <1>3, EventOps DEF Perform, FinishOps
    <2> QED BY <1>2, <1>3, <2>1, LastClose
  <1>4. CASE Perform(Event(p)) /\ UNCHANGED late /\ pc \in AttemptOps
    BY <1>2, <1>4, EventFits, LateBegin, LateEnd DEF Perform, AttemptOps
  <1>5. CASE Event(p).op \in LateOps /\ late' = late \cup {Event(p)} /\ UNCHANGED storeVars
    <2>1. LateFits(Event(p))
      BY <1>1, <1>5, EventOps, EventFits
    <2> QED BY <1>2, <1>5, <2>1 DEF LastInv, NoGaps, DoneLast, RunFits, LateFits, Begun, storeVars
  <1> QED BY <1>1, <1>3, <1>4, <1>5 DEF FinishOps, AttemptOps

LEMMA LastLands ==
  ASSUME LastInv, ResultInv', LateLands
  PROVE  LastInv'
  <1>1. PICK cmd \in late : Perform(cmd) /\ late' = late \ {cmd}
    BY LateTypes DEF LateLands, AttemptOps
  <1>2. UNCHANGED <<pc, held, run>>
    BY DEF LateLands, runnerVars
  <1>3. LateFits(cmd)
    BY DEF LastInv
  <1> QED BY <1>1, <1>2, <1>3, LateTypes, LateBegin, LateEnd DEF Perform, AttemptOps

LEMMA LastStep ==
  ASSUME LateOps \subseteq AttemptOps, LastInv, [RunnerNext]_vars
  PROVE  LastInv'
  <1>0. LateOps \subseteq FinishOps /\ status = [t \in Task |-> status[t]]
    BY DEF AttemptOps, FinishOps, LastInv, ResultInv, HoldInv, RunnerInv, TypeOK
  <1>1. ResultInv'
    BY ResultStep DEF LastInv
  <1>2. CASE TurnRecover \/ TurnEmpty \/ TurnUnavailable
    <2>1. pc = "idle" /\ held' = held /\ late' \subseteq late
      BY <1>0, <1>2 DEF TurnRecover, TurnEmpty, TurnUnavailable, runnerVars, FinishOps
    <2>2. held' = {}
      BY <2>1 DEF LastInv, ResultInv, HoldInv, HoldsOne
    <2>3. CASE Recover
      BY <1>1, <2>1, <2>2, <2>3, LastRecover
    <2>4. CASE ClaimAny \/ UNCHANGED storeVars
      <3>1. UNCHANGED attempts /\ NoneDone
        BY <1>0, <2>4, QueueEndsNone DEF ClaimAny, ClaimNothing, Claim, storeVars, NoneDone
      <3> QED BY <1>1, <2>1, <2>2, <3>1, LastFrame
    <2> QED BY <1>2, <2>3, <2>4, LateTypes
         DEF TurnRecover, TurnEmpty, TurnUnavailable, ClaimAny, AttemptOps
  <1>3. CASE TurnClaim
    BY <1>1, <1>3, LastClaim
  <1>4. CASE RunTask \/ Work \/ RunnerError
    BY <1>1, <1>4, LastRun
  <1>5. CASE Recorded
    <2>1. CASE pc = "close"
      <3>1. PICK p \in held : Perform(Event(p)) /\ late' = late /\ held' = {}
        BY <1>5, <2>1 DEF Recorded
      <3>2. EndTask(p[1], p[2], run.ended)
        BY <2>1, <3>1, EventOps DEF Perform, FinishOps
      <3> QED BY <1>1, <2>1, <3>1, <3>2, LastClose
    <2> QED BY <1>1, <1>5, <2>1, RecordedBegin, RecordedEnd DEF Recorded
  <1>6. CASE Unrecorded
    BY <1>1, <1>6, LastUnrecorded
  <1>7. CASE Crash
    <2>1. UNCHANGED attempts /\ NoneDone
      BY <1>0, <1>7 DEF Crash, storeVars, NoneDone
    <2> QED BY <1>1, <1>7, <2>1, LastFrame DEF Crash
  <1>8. CASE LateLands
    BY <1>1, <1>8, LastLands
  <1>9. CASE Others
    <2>1. UNCHANGED attempts /\ NoneDone
      BY <1>0, <1>9, OthersEndNone DEF Others, SubmitStep, SubmitBegin, SubmitCommit, SubmitAbort,
         OwnerStep, OwnerClear, OwnerDefer
    <2> QED BY <1>1, <1>9, <2>1, LastFrame DEF Others, runnerVars
  <1>10. CASE UNCHANGED vars
    <2>1. UNCHANGED attempts /\ NoneDone
      BY <1>0, <1>10 DEF vars, storeVars, NoneDone
    <2> QED BY <1>1, <1>10, <2>1, LastFrame DEF vars, runnerVars
  <1> QED BY <1>2, <1>3, <1>4, <1>5, <1>6, <1>7, <1>8, <1>9, <1>10 DEF RunnerNext

\* A task's attempts have no gap, and a done task is done by the last of them,
\* however many runners died on it and whichever of their events came late.
THEOREM DoneByTheLast ==
  ASSUME LateOps \subseteq AttemptOps
  PROVE  RunnerSpec => []DoneByLastAttempt
  <1>1. RunnerInit => LastInv
    <2> SUFFICES ASSUME RunnerInit PROVE LastInv
      OBVIOUS
    <2>1. ResultInv
      BY HoldInit DEF RunnerInit, ResultInv
    <2> QED BY <2>1 DEF RunnerInit, Init, LastInv, NoGaps, DoneLast, Begun
  <1>2. LastInv /\ [RunnerNext]_vars => LastInv'
    BY LastStep
  <1>3. LastInv => DoneByLastAttempt
    <2> SUFFICES ASSUME LastInv, NEW t \in Task PROVE DoneByLastAttempt!(t)
      BY DEF DoneByLastAttempt
    <2>1. ASSUME NEW n \in Number \ {1}, attempts[t][n] # "absent"
          PROVE  attempts[t][n - 1] # "absent"
      <3>1. n - 1 \in Number /\ n - 1 < n
        BY StoreAssumption DEF Number
      <3> QED BY <2>1, <3>1 DEF LastInv, NoGaps, Begun
    <2> QED BY <2>1 DEF LastInv, DoneLast, Begun
  <1> QED BY <1>1, <1>2, <1>3, PTL DEF RunnerSpec

-----------------------------------------------------------------------------
(* Types.                                                                  *)

\* A route is being tried whenever an attempt is.
RouteTypes ==
  /\ run.number \in 0..MaxAttempts + 1
  /\ run.routes \in Nat /\ run.route \in 0..run.routes
  /\ pc \in {"begin", "work", "end"} => run.route \in 1..run.routes

TypeInv ==
  /\ HoldInv /\ RouteTypes
  /\ pc \in {"idle", "start", "begin", "work", "end", "close"}
  /\ recovered \in BOOLEAN
  /\ pushes \in [Task -> Nat]

LEMMA NoRunTypes == NoRun.number = 0 /\ NoRun.routes = 0 /\ NoRun.route = 0
  BY DEF NoRun

LEMMA CloseTypes ==
  ASSUME TypeInv, NEW ending, Close(ending)
  PROVE  RouteTypes' /\ pc' = "close"
  BY RunFields DEF Close, TypeInv, RouteTypes, HoldInv, RunnerInv

LEMMA NextTryTypes ==
  ASSUME TypeInv, pc = "end", NEW route \in 1..run.routes, NEW b, NEW c, NextTry(route, b, c)
  PROVE  RouteTypes' /\ pc' = "begin"
  <1>1. /\ run'.number = run.number + 1 /\ run'.routes = run.routes /\ run'.route = route
        /\ run.number + 1 \in Number /\ pc' = "begin"
    BY RunFields DEF NextTry, TypeInv, HoldInv, RunnerInv
  <1>2. run'.number \in 0..MaxAttempts + 1
    BY <1>1, StoreAssumption DEF Number
  <1> QED BY <1>1, <1>2 DEF TypeInv, RouteTypes

LEMMA AfterTypes ==
  ASSUME TypeInv, pc = "end", AfterAttempt
  PROVE  RouteTypes' /\ pc' \in {"begin", "close"}
  <1>1. /\ 1 \in 1..run.routes /\ run.route \in 1..run.routes
        /\ run.route < run.routes => run.route + 1 \in 1..run.routes
    BY DEF TypeInv, RouteTypes
  <1> QED BY <1>1, CloseTypes, NextTryTypes DEF AfterAttempt

LEMMA TypesStep ==
  ASSUME LateOps \subseteq FinishOps, TypeInv, [RunnerNext]_vars
  PROVE  TypeInv'
  <1>1. HoldInv'
    BY HoldStep DEF TypeInv
  <1>2. CASE UNCHANGED <<pc, run, pushes>> /\ recovered' \in BOOLEAN
    BY <1>1, <1>2 DEF TypeInv, RouteTypes
  <1>3. CASE TurnRecover \/ TurnEmpty \/ TurnUnavailable \/ Unrecorded \/ LateLands \/ Others
             \/ UNCHANGED vars
    BY <1>2, <1>3 DEF TurnRecover, TurnEmpty, TurnUnavailable, Unrecorded, LateLands, Others, vars,
       runnerVars, TypeInv
  <1>4. CASE TurnClaim
    <2>1. PICK p \in JobsIn("todo") : run' = [NoRun EXCEPT !.number = NextAttempt(p[1])]
      BY <1>4 DEF TurnClaim
    <2>2. p[1] \in Task
      BY DEF JobsIn
    <2>3. NextAttempt(p[1]) \in 0..MaxAttempts + 1
      BY <2>2, NextIsNext
    <2>4. run'.number = NextAttempt(p[1]) /\ run'.routes = 0 /\ run'.route = 0
      BY <2>1 DEF NoRun
    <2>5. pc' = "start" /\ UNCHANGED <<recovered, pushes>>
      BY <1>4 DEF TurnClaim
    <2> QED BY <1>1, <2>3, <2>4, <2>5 DEF TypeInv, RouteTypes
  <1>5. CASE RunTask
    <2>1. UNCHANGED <<recovered, pushes>>
      BY <1>5 DEF RunTask
    <2>2. CASE Close("failed") \/ Close("escalated")
      BY <1>1, <2>1, <2>2, CloseTypes DEF TypeInv
    <2>3. ASSUME NEW routes \in 1..MaxRoutes, run' = [run EXCEPT !.routes = routes, !.route = 1],
                 pc' = "begin"
          PROVE  TypeInv'
      <3>1. run'.routes = routes /\ run'.route = 1 /\ run'.number = run.number
        BY <2>3, RunFields DEF TypeInv, HoldInv, RunnerInv
      <3> QED BY <1>1, <2>1, <2>3, <3>1, RunnerAssumption DEF TypeInv, RouteTypes
    <2> QED BY <1>5, <2>2, <2>3 DEF RunTask
  <1>6. CASE Work
    <2>1. /\ run'.number = run.number /\ run'.routes = run.routes /\ run'.route = run.route
          /\ pc = "work" /\ pc' = "end" /\ recovered' = recovered
      BY <1>6, RunFields DEF Work, TypeInv, HoldInv, RunnerInv
    <2>2. pushes' \in [Task -> Nat]
      BY <1>6 DEF Work, TypeInv
    <2> QED BY <1>1, <2>1, <2>2 DEF TypeInv, RouteTypes
  <1>7. CASE RunnerError
    BY <1>1, <1>7, CloseTypes DEF RunnerError, TypeInv
  <1>8. CASE Recorded
    <2>1. CASE pc = "end"
      BY <1>1, <1>8, <2>1, AfterTypes DEF Recorded, TypeInv
    <2>2. CASE pc = "begin"
      BY <1>1, <1>8, <2>2 DEF Recorded, TypeInv, RouteTypes
    <2>3. CASE pc = "close"
      BY <1>1, <1>8, <2>3, StoreAssumption DEF Recorded, TypeInv, RouteTypes, NoRun
    <2> QED BY <1>8, <2>1, <2>2, <2>3 DEF Recorded
  <1>9. CASE Crash
    <2>1. run' = NoRun /\ pc' = "idle" /\ recovered' = FALSE /\ UNCHANGED pushes
      BY <1>9 DEF Crash
    <2>2. run'.number = 0 /\ run'.routes = 0 /\ run'.route = 0
      BY <2>1, NoRunTypes
    <2>3. RouteTypes'
      BY <2>1, <2>2, StoreAssumption DEF RouteTypes
    <2> QED BY <1>1, <2>1, <2>3 DEF TypeInv
  <1> QED BY <1>3, <1>4, <1>5, <1>6, <1>7, <1>8, <1>9 DEF RunnerNext

\* The runner's own state is typed, however it is driven: it is at a task
\* exactly when it holds one, on one of the routes it resolved.
THEOREM RunnerTypes ==
  ASSUME LateOps \subseteq FinishOps
  PROVE  RunnerSpec => []RunnerTypeOK
  <1>1. RunnerInit => TypeInv
    <2> SUFFICES ASSUME RunnerInit PROVE TypeInv
      OBVIOUS
    <2>1. run.number = 0 /\ run.routes = 0 /\ run.route = 0 /\ pc = "idle"
      BY NoRunTypes DEF RunnerInit
    <2>2. RouteTypes
      BY <2>1, StoreAssumption DEF RouteTypes
    <2> QED BY <2>1, <2>2, HoldInit DEF RunnerInit, TypeInv
  <1>2. TypeInv /\ [RunnerNext]_vars => TypeInv'
    BY TypesStep
  <1>3. TypeInv => RunnerTypeOK
    BY DEF TypeInv, RouteTypes, RunnerTypeOK, HoldInv, HoldsOne, RunnerInv
  <1> QED BY <1>1, <1>2, <1>3, PTL DEF RunnerSpec
=============================================================================

--------------------------- MODULE TaskTokensProofs ---------------------------
(***************************************************************************)
(* TaskTokens for any tokens, requests, budget, restarts and lost lines:   *)
(* its types, the budget of a living token, and what the run makes of the  *)
(* cost files.                                                             *)
(***************************************************************************)
EXTENDS TaskTokens, TLAPS, FiniteSetTheorems

RunStep == \E t \in Token : Issue(t) \/ Leave(t) \/ Revoke(t) \/ Expire(t)

\* Steps that add no request to a token's admitted ones.
MoveStep ==
  \/ \E r \in Request, t \in Token : Arrive(r, t)
  \/ \E r \in Request : Reject(r) \/ Answer(r) \/ Record(r) \/ Break(r) \/ LoseLine(r)

\* A request that arrived carries a token of the run's.
Carries == \A r \in Request : req[r].at # "free" => req[r].of \in Token

TypeInv == TypeOK /\ Carries

LEMMA TypeStep ==
  ASSUME TypeInv, [Next]_vars
  PROVE  TypeInv'
  <1>1. CASE RunStep
    BY <1>1 DEF RunStep, Issue, Leave, Revoke, Expire, TypeInv, TypeOK, Carries, Phase
  <1>2. ASSUME NEW t \in Token, Read(t) PROVE TypeInv'
    <2>1. Sum(t) \in [is : {"unread", "null", "sum"}, of : SUBSET Request]
      BY DEF Sum, Null, TypeInv, TypeOK
    <2> QED BY <1>2, <2>1 DEF Read, TypeInv, TypeOK, Carries, Phase
  <1>3. ASSUME NEW r \in Request, NEW t \in Token, Arrive(r, t) PROVE TypeInv'
    BY <1>3 DEF Arrive, TypeInv, TypeOK, Carries, At, Bill
  <1>4. ASSUME NEW r \in Request, Reject(r) \/ Answer(r) PROVE TypeInv'
    <2>1. CASE Reject(r)
      BY <2>1 DEF Reject, TypeInv, TypeOK, Carries, At
    <2>2. CASE Answer(r)
      <3>1. PICK bill \in Bill : req' = [req EXCEPT ![r].at = "reply", ![r].bill = bill]
        BY <2>2 DEF Answer
      <3>2. req[r] \in [at : At, of : Token \cup {NoToken}, bill : Bill] /\ req[r].at = "called"
        BY <2>2 DEF Answer, TypeInv, TypeOK
      <3>3. /\ req' \in [Request -> [at : At, of : Token \cup {NoToken}, bill : Bill]]
            /\ \A q \in Request : req'[q].of = req[q].of /\ (q # r => req'[q].at = req[q].at)
        BY <3>1, <3>2 DEF At, TypeInv, TypeOK
      <3> QED BY <2>2, <3>2, <3>3 DEF Answer, TypeInv, TypeOK, Carries
    <2> QED BY <1>4, <2>1, <2>2
  <1>5. ASSUME NEW r \in Request, Judge(r) PROVE TypeInv'
    <2>1. req[r].of \in Token
      BY <1>5 DEF Judge, TypeInv, Carries
    <2>2. count' \in [Token -> Nat]
      BY <1>5, <2>1 DEF Judge, Counted, TypeInv, TypeOK
    <2>3. /\ UNCHANGED <<phase, expired, lines, cost, restarts, faults>>
          /\ \E at \in {"refused", "called"} : req' = [req EXCEPT ![r].at = at]
      BY <1>5 DEF Judge
    <2> QED BY <1>5, <2>2, <2>3 DEF Judge, TypeInv, TypeOK, Carries, At
  <1>6. ASSUME NEW r \in Request, Record(r) \/ Break(r) PROVE TypeInv'
    <2>1. PICK b \in BOOLEAN : Append(r, {<<r, b>>})
      BY <1>6 DEF Record, Break, Line
    <2>2. /\ req[r].at = "reply" /\ req' = [req EXCEPT ![r].at = "recorded"]
          /\ UNCHANGED <<phase, expired, count, cost, restarts, faults>>
      BY <1>6 DEF Record, Break
    <2>3. \A t \in Token : lines[t] \in SUBSET (Request \X BOOLEAN)
      BY DEF TypeInv, TypeOK
    <2>4. <<r, b>> \in Request \X BOOLEAN
      OBVIOUS
    <2>5. lines' \in [Token -> SUBSET (Request \X BOOLEAN)]
      BY <2>1, <2>3, <2>4 DEF Append, TypeInv, TypeOK
    <2> QED BY <2>2, <2>5 DEF TypeInv, TypeOK, Carries, At
  <1>7. ASSUME NEW r \in Request, LoseLine(r) PROVE TypeInv'
    BY <1>7 DEF LoseLine, TypeInv, TypeOK, Carries, At
  <1>8. CASE Restart
    BY <1>8 DEF Restart, TypeInv, TypeOK, Carries, At, InFlight
  <1>9. CASE UNCHANGED vars
    BY <1>9 DEF vars, TypeInv, TypeOK, Carries
  <1> QED BY <1>1, <1>2, <1>3, <1>4, <1>5, <1>6, <1>7, <1>8, <1>9 DEF Next, RunStep

LEMMA TypeInit == Init => TypeInv
  BY DEF Init, TypeInv, TypeOK, Carries, Phase, Free, Unread, At, Bill

\* The state of the run and the proxy is typed.
THEOREM Types == Spec => []TypeOK
  <1>1. TypeInv => TypeOK
    BY DEF TypeInv
  <1> QED BY <1>1, TypeInit, TypeStep, PTL DEF Spec

-----------------------------------------------------------------------------
(* The budget.                                                             *)

\* What of a token's budget its count says has gone.
Gone(t) == IF count[t] <= MaxRequests THEN count[t] ELSE MaxRequests

\* Each life of the proxy lets as many requests through as it has counted.
BudgetInv ==
  /\ TypeInv
  /\ \A t \in Token : ~expired[t] => Cardinality(Admitted(t)) <= MaxRequests * restarts + Gone(t)

LEMMA AdmittedFinite ==
  ASSUME TypeInv, NEW t \in Token
  PROVE  IsFiniteSet(Admitted(t)) /\ Cardinality(Admitted(t)) \in Nat
  <1>1. Admitted(t) \subseteq Request
    BY DEF Admitted
  <1> QED BY <1>1, RequestAssumption, FS_Subset, FS_CardinalityType

LEMMA BudgetFrame ==
  ASSUME BudgetInv, TypeInv', UNCHANGED <<count, restarts>>,
         \A t \in Token : expired[t] => expired'[t],
         \A t \in Token : Admitted(t)' = Admitted(t)
  PROVE  BudgetInv'
  BY DEF BudgetInv, Gone

LEMMA JudgeBudget ==
  ASSUME BudgetInv, TypeInv', NEW r \in Request, Judge(r)
  PROVE  BudgetInv'
  <1> DEFINE t == req[r].of
             past == MaxRequests * restarts
  <1>1. /\ t \in Token /\ req[r].at = "waiting" /\ req[r] \in [at : At, of : Token \cup {NoToken}, bill : Bill]
        /\ UNCHANGED <<expired, restarts>>
        /\ count \in [Token -> Nat] /\ past \in Nat /\ MaxRequests \in Nat
    BY BudgetAssumption DEF Judge, BudgetInv, TypeInv, TypeOK, Carries
  <1>2. count' = Counted(t)
    BY DEF Judge
  <1>3. \A u \in Token : ~expired[u] =>
          count'[u] = IF u = t THEN count[u] + 1 ELSE count[u]
    BY <1>1, <1>2 DEF Counted
  <1>4. /\ \A q \in Request : q # r => req'[q] = req[q]
        /\ req'[r].of = t
        /\ req'[r].at = IF count'[t] > MaxRequests THEN "refused" ELSE "called"
    BY <1>1 DEF Judge, BudgetInv, TypeInv, TypeOK
  <1> SUFFICES ASSUME NEW u \in Token, ~expired[u]
               PROVE  Cardinality(Admitted(u)') <= past + Gone(u)'
    BY <1>1 DEF BudgetInv
  <1>5. /\ Cardinality(Admitted(u)) \in Nat /\ IsFiniteSet(Admitted(u))
        /\ Cardinality(Admitted(u)) <= past + Gone(u)
        /\ r \notin Admitted(u)
    BY <1>1, AdmittedFinite DEF BudgetInv, Admitted
  <1>6. CASE u # t \/ count'[t] > MaxRequests
    <2>1. Admitted(u)' = Admitted(u)
      BY <1>1, <1>4, <1>6 DEF Admitted
    <2>2. count[u] \in Nat /\ count'[u] \in {count[u], count[u] + 1}
      BY <1>1, <1>3
    <2> HIDE DEF past
    <2>3. Gone(u) <= Gone(u)' /\ Gone(u) \in Nat /\ Gone(u)' \in Nat
      BY <1>1, <2>2 DEF Gone
    <2> DEFINE n == Cardinality(Admitted(u))
               g == Gone(u)
               h == Gone(u)'
    <2>4. n \in Nat /\ g \in Nat /\ h \in Nat /\ past \in Nat /\ n <= past + g /\ g <= h
      BY <1>1, <1>5, <2>3
    <2> HIDE DEF n, g, h
    <2>5. n <= past + h
      BY <2>4
    <2> QED BY <2>1, <2>5 DEF n, h
  <1>7. CASE u = t /\ ~(count'[t] > MaxRequests)
    <2>1. Admitted(u)' = Admitted(u) \cup {r}
      BY <1>1, <1>4, <1>7 DEF Admitted
    <2>2. Cardinality(Admitted(u) \cup {r}) = Cardinality(Admitted(u)) + 1
      BY <1>5, FS_AddElement
    <2>3. count'[u] = count[u] + 1 /\ count[u] \in Nat
      BY <1>1, <1>3, <1>7
    <2>4. Gone(u) = count[u] /\ Gone(u)' = count[u] + 1
      BY <1>1, <1>7, <2>3 DEF Gone
    <2> DEFINE n == Cardinality(Admitted(u))
    <2>5. n \in Nat /\ n <= past + count[u] /\ past \in Nat /\ count[u] \in Nat
      BY <1>1, <1>5, <2>3, <2>4
    <2> HIDE DEF n, past
    <2>6. n + 1 <= past + (count[u] + 1)
      BY <2>5
    <2> QED BY <2>1, <2>2, <2>4, <2>6 DEF n
  <1> QED BY <1>6, <1>7

LEMMA RestartBudget ==
  ASSUME BudgetInv, TypeInv', Restart
  PROVE  BudgetInv'
  <1>1. \A t \in Token : Admitted(t)' = Admitted(t)
    BY DEF Restart, Admitted, InFlight, BudgetInv, TypeInv, TypeOK
  <1> SUFFICES ASSUME NEW t \in Token, ~expired[t]
               PROVE  Cardinality(Admitted(t)) <= MaxRequests * (restarts + 1) + Gone(t)'
    BY <1>1 DEF Restart, BudgetInv
  <1> DEFINE n == Cardinality(Admitted(t))
             past == MaxRequests * restarts
             g == Gone(t)
  <1>2. restarts \in Nat /\ MaxRequests \in Nat
    BY BudgetAssumption DEF BudgetInv, TypeInv, TypeOK
  <1>3. past \in Nat /\ MaxRequests * (restarts + 1) = past + MaxRequests
    BY <1>2
  <1>4. n \in Nat /\ n <= past + g /\ g \in Nat /\ g <= MaxRequests
    BY <1>2, AdmittedFinite DEF BudgetInv, TypeInv, TypeOK, Gone
  <1>5. Gone(t)' = 0
    BY <1>2 DEF Gone, Restart
  <1> HIDE DEF n, past, g
  <1>6. n <= past + MaxRequests
    BY <1>2, <1>3, <1>4
  <1>7. n <= (past + MaxRequests) + 0
    BY <1>2, <1>3, <1>6
  <1> QED BY <1>3, <1>5, <1>7 DEF n, past

LEMMA MoveKeeps ==
  ASSUME TypeInv, MoveStep, NEW t \in Token
  PROVE  Admitted(t)' = Admitted(t)
  <1>1. ASSUME NEW r \in Request, NEW u \in Token, Arrive(r, u) PROVE Admitted(t)' = Admitted(t)
    BY <1>1 DEF Arrive, Admitted, TypeInv, TypeOK, Free
  <1>2. ASSUME NEW r \in Request,
               Reject(r) \/ Answer(r) \/ Record(r) \/ Break(r) \/ LoseLine(r)
        PROVE  Admitted(t)' = Admitted(t)
    <2>1. /\ \A q \in Request : req'[q].of = req[q].of /\ (q # r => req'[q].at = req[q].at)
          /\ \/ req[r].at = "waiting" /\ req'[r].at = "refused"
             \/ req[r].at = "called" /\ req'[r].at = "reply"
             \/ req[r].at = "reply" /\ req'[r].at \in {"recorded", "unrecorded"}
      <3>1. req \in [Request -> [at : At, of : Token \cup {NoToken}, bill : Bill]]
        BY DEF TypeInv, TypeOK
      <3>2. CASE Answer(r)
        <4>1. PICK bill \in Bill : req' = [req EXCEPT ![r].at = "reply", ![r].bill = bill]
          BY <3>2 DEF Answer
        <4> QED BY <3>1, <3>2, <4>1 DEF Answer
      <3> QED BY <1>2, <3>1, <3>2 DEF Reject, Record, Break, LoseLine
    <2> QED BY <2>1 DEF Admitted
  <1> QED BY <1>1, <1>2 DEF MoveStep

LEMMA BudgetStep ==
  ASSUME BudgetInv, [Next]_vars
  PROVE  BudgetInv'
  <1>1. TypeInv'
    BY TypeStep DEF BudgetInv
  <1>2. CASE RunStep \/ (\E t \in Token : Read(t)) \/ UNCHANGED vars
    <2>1. UNCHANGED <<count, restarts, req>> /\ \A t \in Token : expired[t] => expired'[t]
      BY <1>2 DEF RunStep, Issue, Leave, Revoke, Expire, Read, vars, BudgetInv, TypeInv, TypeOK
    <2> QED BY <1>1, <2>1, BudgetFrame DEF Admitted
  <1>3. CASE MoveStep
    <2>1. UNCHANGED <<count, restarts, expired>>
      BY <1>3 DEF MoveStep, Arrive, Reject, Answer, Record, Break, LoseLine
    <2> QED BY <1>1, <1>3, <2>1, MoveKeeps, BudgetFrame DEF BudgetInv
  <1>4. CASE \E r \in Request : Judge(r)
    BY <1>1, <1>4, JudgeBudget
  <1>5. CASE Restart
    BY <1>1, <1>5, RestartBudget
  <1> QED BY <1>2, <1>3, <1>4, <1>5 DEF Next, RunStep, MoveStep

\* A living token's budget bounds the requests let through in each life of the
\* proxy, however many overlap.
THEOREM TheBudgetHolds == Spec => []BudgetKept
  <1>1. Init => BudgetInv
    <2> SUFFICES ASSUME Init, NEW t \in Token
                 PROVE  Cardinality(Admitted(t)) <= MaxRequests * restarts + Gone(t)
      BY TypeInit DEF BudgetInv
    <2>1. Admitted(t) = {} /\ restarts = 0 /\ count[t] = 0
      BY DEF Init, Admitted, Free
    <2>2. Gone(t) = 0 /\ MaxRequests * restarts = 0
      BY <2>1, BudgetAssumption DEF Gone
    <2> QED BY <2>1, <2>2, FS_EmptySet
  <1>2. BudgetInv => BudgetKept
    <2> SUFFICES ASSUME BudgetInv, NEW t \in Token, ~expired[t]
                 PROVE  Cardinality(Admitted(t)) <= MaxRequests * (restarts + 1)
      BY DEF BudgetKept
    <2> DEFINE n == Cardinality(Admitted(t))
               past == MaxRequests * restarts
               g == Gone(t)
    <2>1. restarts \in Nat /\ MaxRequests \in Nat
      BY BudgetAssumption DEF BudgetInv, TypeInv, TypeOK
    <2>2. past \in Nat /\ MaxRequests * (restarts + 1) = past + MaxRequests
      BY <2>1
    <2>3. n \in Nat /\ n <= past + g /\ g \in Nat /\ g <= MaxRequests
      BY <2>1, AdmittedFinite DEF BudgetInv, TypeInv, TypeOK, Gone
    <2> HIDE DEF n, past, g
    <2>4. n <= past + MaxRequests
      BY <2>1, <2>2, <2>3
    <2> QED BY <2>2, <2>4 DEF n, past
  <1> QED BY <1>1, <1>2, BudgetStep, PTL DEF Spec

-----------------------------------------------------------------------------
(* The cost files.                                                         *)

\* A line is of a request of its token that ended with it, and says it is known
\* only if it is; a sum adds up such lines; and no such request is without a
\* line until the run has read the file.
CostInv ==
  /\ TypeInv
  /\ \A t \in Token : \A l \in lines[t] :
       /\ req[l[1]].of = t /\ req[l[1]].at = "recorded"
       /\ l[2] => req[l[1]].bill = "known"
  /\ \A t \in Token : cost[t].is = "sum" =>
       /\ cost[t].of # {}
       /\ \A r \in cost[t].of :
            req[r].of = t /\ req[r].at = "recorded" /\ req[r].bill = "known"
  /\ \A t \in Token, r \in Request :
       req[r].of = t /\ req[r].at = "recorded" /\ phase[t] # "read"
         => \E b \in BOOLEAN : <<r, b>> \in lines[t]

\* Whoever has ended stays as it is.
Settled ==
  \A r \in Request : req[r].at = "recorded" => req'[r] = req[r]

\* Steps that write and read no file.
LEMMA CostFrame ==
  ASSUME CostInv, TypeInv', UNCHANGED <<lines, cost>>, Settled,
         \A r \in Request : req'[r].at = "recorded" => req[r].at = "recorded",
         \A t \in Token : phase[t] = "read" => phase'[t] = "read"
  PROVE  CostInv'
  <1>1. \A t \in Token : lines[t] \subseteq Request \X BOOLEAN /\ cost[t].of \subseteq Request
    BY DEF CostInv, TypeInv, TypeOK
  <1>2. \A t \in Token : \A l \in lines[t] : l[1] \in Request
    BY <1>1
  <1>3. \A t \in Token : \A l \in lines[t] :
          /\ req'[l[1]].of = t /\ req'[l[1]].at = "recorded"
          /\ l[2] => req'[l[1]].bill = "known"
    BY <1>2 DEF CostInv, Settled
  <1>4. \A t \in Token : cost[t].is = "sum" =>
          /\ cost[t].of # {}
          /\ \A r \in cost[t].of :
               req'[r].of = t /\ req'[r].at = "recorded" /\ req'[r].bill = "known"
    BY <1>1 DEF CostInv, Settled
  <1>5. \A t \in Token, r \in Request :
          req'[r].of = t /\ req'[r].at = "recorded" /\ phase'[t] # "read"
            => \E b \in BOOLEAN : <<r, b>> \in lines[t]
    BY DEF CostInv, Settled
  <1> QED BY <1>3, <1>4, <1>5 DEF CostInv

LEMMA RecordCost ==
  ASSUME CostInv, TypeInv', NEW r \in Request, Record(r) \/ Break(r)
  PROVE  CostInv'
  <1>1. PICK b \in BOOLEAN : Append(r, {<<r, b>>}) /\ (b => req[r].bill = "known")
    BY DEF Record, Break, Line
  <1>2. /\ UNCHANGED <<phase, cost>> /\ req[r].at = "reply"
        /\ req' = [req EXCEPT ![r].at = "recorded"]
    BY DEF Record, Break
  <1>3. /\ \A q \in Request : q # r => req'[q] = req[q]
        /\ req'[r].of = req[r].of /\ req'[r].at = "recorded" /\ req'[r].bill = req[r].bill
    BY <1>2 DEF CostInv, TypeInv, TypeOK
  <1>4. \A t \in Token : lines'[t] = IF t = req[r].of THEN lines[t] \cup {<<r, b>>} ELSE lines[t]
    <2>1. DOMAIN lines = Token
      BY DEF CostInv, TypeInv, TypeOK
    <2> QED BY <1>1, <2>1 DEF Append
  <1>5. \A t \in Token : lines[t] \subseteq Request \X BOOLEAN /\ cost[t].of \subseteq Request
    BY DEF CostInv, TypeInv, TypeOK
  <1>6. \A t \in Token : \A l \in lines'[t] :
          /\ req'[l[1]].of = t /\ req'[l[1]].at = "recorded"
          /\ l[2] => req'[l[1]].bill = "known"
    <2> SUFFICES ASSUME NEW t \in Token, NEW l \in lines'[t]
                 PROVE  /\ req'[l[1]].of = t /\ req'[l[1]].at = "recorded"
                        /\ l[2] => req'[l[1]].bill = "known"
      OBVIOUS
    <2>1. CASE l \in lines[t]
      <3>1. /\ l[1] \in Request /\ req[l[1]].of = t /\ req[l[1]].at = "recorded"
            /\ l[2] => req[l[1]].bill = "known"
        BY <1>5, <2>1 DEF CostInv
      <3> QED BY <1>2, <1>3, <3>1
    <2>2. CASE l \notin lines[t]
      <3>1. t = req[r].of /\ l = <<r, b>>
        BY <1>4, <2>2
      <3> QED BY <1>1, <1>3, <3>1
    <2> QED BY <2>1, <2>2
  <1>7. \A t \in Token : cost[t].is = "sum" =>
          /\ cost[t].of # {}
          /\ \A q \in cost[t].of :
               req'[q].of = t /\ req'[q].at = "recorded" /\ req'[q].bill = "known"
    BY <1>2, <1>3, <1>5 DEF CostInv
  <1>8. \A t \in Token, q \in Request :
          req'[q].of = t /\ req'[q].at = "recorded" /\ phase[t] # "read"
            => \E c \in BOOLEAN : <<q, c>> \in lines'[t]
    <2>1. \A t \in Token : t = req[r].of => <<r, b>> \in lines'[t]
      BY <1>4
    <2>2. \A t \in Token : lines[t] \subseteq lines'[t]
      BY <1>4
    <2> QED BY <1>3, <2>1, <2>2 DEF CostInv
  <1> QED BY <1>2, <1>6, <1>7, <1>8 DEF CostInv

LEMMA ReadCost ==
  ASSUME CostInv, TypeInv', NEW t \in Token, Read(t)
  PROVE  CostInv'
  <1>1. /\ UNCHANGED req /\ phase' = [phase EXCEPT ![t] = "read"]
        /\ cost' = [cost EXCEPT ![t] = Sum(t)] /\ lines' = [lines EXCEPT ![t] = {}]
    BY DEF Read
  <1>2. Sum(t).is = "sum" =>
          /\ Sum(t).of # {}
          /\ \A r \in Sum(t).of : req[r].of = t /\ req[r].at = "recorded" /\ req[r].bill = "known"
    BY DEF Sum, Null, CostInv
  <1> QED BY <1>1, <1>2 DEF CostInv, TypeInv, TypeOK

LEMMA CostStep ==
  ASSUME CostInv, [Next]_vars
  PROVE  CostInv'
  <1>1. TypeInv'
    BY TypeStep DEF CostInv
  <1>2. CASE RunStep \/ UNCHANGED vars
    <2>1. UNCHANGED <<lines, cost, req>> /\ \A t \in Token : phase[t] = "read" => phase'[t] = "read"
      BY <1>2 DEF RunStep, Issue, Leave, Revoke, Expire, vars, CostInv, TypeInv, TypeOK
    <2> QED BY <1>1, <2>1, CostFrame DEF Settled
  <1>3. ASSUME NEW t \in Token, Read(t) PROVE CostInv'
    BY <1>1, <1>3, ReadCost
  <1>4. ASSUME NEW r \in Request,
               \/ \E t \in Token : Arrive(r, t)
               \/ Reject(r) \/ Judge(r) \/ Answer(r) \/ LoseLine(r)
        PROVE  CostInv'
    <2>1. /\ UNCHANGED <<phase, lines, cost>>
          /\ \A q \in Request : q # r => req'[q] = req[q]
          /\ req[r].at # "recorded" /\ req'[r].at # "recorded"
      BY <1>4 DEF Arrive, Reject, Judge, Answer, LoseLine, Free, CostInv, TypeInv, TypeOK
    <2> QED BY <1>1, <2>1, CostFrame DEF Settled
  <1>5. ASSUME NEW r \in Request, Record(r) \/ Break(r) PROVE CostInv'
    BY <1>1, <1>5, RecordCost
  <1>6. CASE Restart
    <2>1. /\ UNCHANGED <<phase, lines, cost>> /\ Settled
          /\ \A r \in Request : req'[r].at = "recorded" => req[r].at = "recorded"
      BY <1>6 DEF Restart, InFlight, Settled, CostInv, TypeInv, TypeOK
    <2> QED BY <1>1, <2>1, CostFrame
  <1> QED BY <1>2, <1>3, <1>4, <1>5, <1>6 DEF Next, RunStep

LEMMA CostAlways == Spec => []CostInv
  <1>1. Init => CostInv
    BY TypeInit DEF Init, CostInv, Free, Unread
  <1> QED BY <1>1, CostStep, PTL DEF Spec

\* What the run reports of a container is what requests of its own were billed.
THEOREM CostsAreBilled == Spec => []NeverOverstated
  <1>1. CostInv => NeverOverstated
    BY DEF CostInv, NeverOverstated, Admitted, TypeInv, TypeOK
  <1> QED BY <1>1, CostAlways, PTL

\* A sum read when nothing is under way and no line was lost is the whole of it.
THEOREM WholeCosts == Spec => QuietCostIsWhole
  <1>1. ASSUME CostInv, Next, NEW t \in Token, cost[t] = Unread, cost'[t].is = "sum", Quiet(t)
        PROVE  cost'[t].of = Admitted(t)
    <2>1. Read(t)
      <3>1. cost'[t] # cost[t]
        BY <1>1 DEF Unread
      <3>2. \A u \in Token : Read(u) => u = t
        BY <3>1 DEF Read, CostInv, TypeInv, TypeOK
      <3> QED BY <1>1, <3>1, <3>2 DEF Next, Issue, Leave, Revoke, Expire, Arrive, Reject, Judge,
              Answer, Record, Break, LoseLine, Restart
    <2>2. cost'[t] = Sum(t) /\ phase[t] = "revoked"
      <3>1. t \in DOMAIN cost
        BY <1>1 DEF CostInv, TypeInv, TypeOK
      <3> QED BY <2>1, <3>1 DEF Read
    <2>3. cost'[t].of = {l[1] : l \in lines[t]}
      BY <1>1, <2>2 DEF Sum, Null
    <2>4. \A l \in lines[t] : l[1] \in Admitted(t)
      BY <1>1 DEF CostInv, Admitted, TypeInv, TypeOK
    <2>5. \A r \in Admitted(t) : \E b \in BOOLEAN : <<r, b>> \in lines[t]
      BY <1>1, <2>2 DEF CostInv, Admitted, Quiet
    <2>6. ASSUME NEW r \in Admitted(t) PROVE r \in {l[1] : l \in lines[t]}
      <3>1. PICK b \in BOOLEAN : <<r, b>> \in lines[t]
        BY <2>5
      <3>2. <<r, b>>[1] = r
        OBVIOUS
      <3> QED BY <3>1, <3>2
    <2> QED BY <2>3, <2>4, <2>6
  <1>2. CostInv /\ [Next]_vars =>
          [\A t \in Token : cost[t] = Unread /\ cost'[t].is = "sum" /\ Quiet(t)
             => cost'[t].of = Admitted(t)]_vars
    BY <1>1
  <1> QED BY <1>2, CostAlways, PTL DEF Spec, QuietCostIsWhole
=============================================================================

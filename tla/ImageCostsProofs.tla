--------------------------- MODULE ImageCostsProofs ---------------------------
(*****************************************************************************)
(* ImageCosts for any requests, runs of the alerts, amounts, budget and      *)
(* months: its types, that a month's total is exact, that a debit is settled *)
(* and shown as the provider named it, and that an alert is repeated only    *)
(* for a failure.                                                            *)
(*****************************************************************************)
EXTENDS ImageCosts, FiniteSetTheorems, WellFoundedInduction, TLAPS

-------------------------------------------------------------------------------
(*****************************************************************************)
(* I. Sums over finite sets, by least counterexamples: the fold that         *)
(* SumFunctionOnSet stands for exists and is one, a sum loses any of its     *)
(* elements alike, and it grows with its set.                                *)
(*****************************************************************************)

\* The element that a fold takes out of a set next.
Some(T) == CHOOSE x \in T : TRUE

\* g is what the fold of w computes of the subsets of U.
IsFold(g, w, U) ==
  g = [T \in SUBSET U |-> IF T = {} THEN 0 ELSE w[Some(T)] + g[T \ {Some(T)}]]

LEMMA SumIsFold ==
  ASSUME NEW w, NEW U
  PROVE  SumFunctionOnSet(w, U) = (CHOOSE g : IsFold(g, w, U))[U]
  BY DEF SumFunctionOnSet, FoldFunctionOnSet, MapThenFoldSet, IsFold, Some

\* Among subsets of a finite set there is one that contains no other.
LEMMA LeastSet ==
  ASSUME NEW S, IsFiniteSet(S), NEW B \in SUBSET SUBSET S, B # {}
  PROVE  \E T \in B : \A V \in B : V \subseteq T => V = T
  <1> DEFINE R == StrictSubsetOrdering(S)
  <1>1. IsWellFoundedOn(R, SUBSET S)
    BY FS_StrictSubsetOrderingWellFounded, FS_FiniteSubsetsOfFinite
  <1>2. PICK T \in B : \A V \in B : <<V, T>> \notin R
    <2> HIDE DEF R
    <2> QED BY <1>1, WFMin
  <1>3. ASSUME NEW V \in B, V \subseteq T, V # T PROVE FALSE
    BY <1>2, <1>3 DEF StrictSubsetOrdering
  <1> QED BY <1>3

LEMMA Smaller ==
  ASSUME NEW T, T # {}
  PROVE  Some(T) \in T /\ T \ {Some(T)} \subseteq T /\ T \ {Some(T)} # T
  BY DEF Some

LEMMA FoldValue ==
  ASSUME NEW g, NEW w, NEW U, IsFold(g, w, U), NEW T \in SUBSET U
  PROVE  g[T] = IF T = {} THEN 0 ELSE w[Some(T)] + g[T \ {Some(T)}]
  <1> DEFINE F(X) == IF X = {} THEN 0 ELSE w[Some(X)] + g[X \ {Some(X)}]
  <1>1. g = [X \in SUBSET U |-> F(X)]
    BY DEF IsFold
  <1> HIDE DEF F
  <1>2. g[T] = F(T)
    BY <1>1
  <1> QED BY <1>2 DEF F

LEMMA FoldsAgree ==
  ASSUME NEW S, IsFiniteSet(S), NEW g, NEW h, NEW w, NEW v, NEW U \in SUBSET S, NEW V \in SUBSET S,
         IsFold(g, w, U), IsFold(h, v, V), \A x \in S : w[x] = v[x]
  PROVE  \A T \in SUBSET (U \cap V) : g[T] = h[T]
  <1> DEFINE B == {T \in SUBSET (U \cap V) : g[T] # h[T]}
  <1> SUFFICES ASSUME B # {} PROVE FALSE
    OBVIOUS
  <1>1. PICK T \in B : \A X \in B : X \subseteq T => X = T
    <2>1. B \in SUBSET SUBSET S
      OBVIOUS
    <2> HIDE DEF B
    <2> QED BY <2>1, LeastSet
  <1>2. T \in SUBSET U /\ T \in SUBSET V /\ g[T] # h[T]
    OBVIOUS
  <1>3. g[T] = IF T = {} THEN 0 ELSE w[Some(T)] + g[T \ {Some(T)}]
    <2> HIDE DEF B
    <2> QED BY <1>2, FoldValue
  <1>4. h[T] = IF T = {} THEN 0 ELSE v[Some(T)] + h[T \ {Some(T)}]
    <2> HIDE DEF B
    <2> QED BY <1>2, FoldValue
  <1>5. CASE T = {}
    BY <1>2, <1>3, <1>4, <1>5
  <1>6. CASE T # {}
    <2>1. Some(T) \in T /\ T \ {Some(T)} \subseteq T /\ T \ {Some(T)} # T
      BY <1>6, Smaller
    <2>2. T \ {Some(T)} \notin B
      BY <1>1, <2>1
    <2>3. g[T \ {Some(T)}] = h[T \ {Some(T)}]
      BY <1>2, <2>2
    <2>4. w[Some(T)] = v[Some(T)]
      BY <1>2, <2>1
    <2> QED BY <1>2, <1>3, <1>4, <1>6, <2>3, <2>4
  <1> QED BY <1>5, <1>6

Fold(w, U) == CHOOSE g : IsFold(g, w, U)

LEMMA FoldExists ==
  ASSUME NEW S, IsFiniteSet(S), NEW w
  PROVE  \A U \in SUBSET S : IsFold(Fold(w, U), w, U)
  <1> DEFINE B == {U \in SUBSET S : ~IsFold(Fold(w, U), w, U)}
  <1> SUFFICES ASSUME B # {} PROVE FALSE
    OBVIOUS
  <1>1. PICK U \in B : \A X \in B : X \subseteq U => X = U
    <2>1. B \in SUBSET SUBSET S
      OBVIOUS
    <2> HIDE DEF B
    <2> QED BY <2>1, LeastSet
  <1>2. U \in SUBSET S
    OBVIOUS
  <1>3. \A X \in SUBSET U : X # U => IsFold(Fold(w, X), w, X)
    BY <1>1, <1>2
  <1> DEFINE G(T) == IF T = {} THEN 0
                     ELSE w[Some(T)] + Fold(w, T \ {Some(T)})[T \ {Some(T)}]
             g == [T \in SUBSET U |-> G(T)]
  <1>4. ASSUME NEW T \in SUBSET U, T # U PROVE G(T) = Fold(w, T)[T]
    <2>1. IsFold(Fold(w, T), w, T)
      BY <1>3, <1>4
    <2>2. Fold(w, T)[T] = IF T = {} THEN 0 ELSE w[Some(T)] + Fold(w, T)[T \ {Some(T)}]
      <3>1. T \in SUBSET T
        OBVIOUS
      <3> HIDE DEF B, G
      <3> QED BY <2>1, <3>1, FoldValue
    <2>3. CASE T = {}
      BY <2>2, <2>3
    <2>4. CASE T # {}
      <3> DEFINE X == T \ {Some(T)}
      <3>1. X \in SUBSET T /\ X # T
        BY <2>4, Smaller
      <3>2. X \in SUBSET U /\ X # U /\ X \in SUBSET S /\ T \in SUBSET S
        BY <3>1, <1>2, <1>4
      <3>3. IsFold(Fold(w, X), w, X)
        BY <1>3, <3>2
      <3>4. X \in SUBSET (T \cap X)
        BY <3>1
      <3>5. Fold(w, T)[X] = Fold(w, X)[X]
        <4> HIDE DEF X
        <4> QED BY <2>1, <3>2, <3>3, <3>4, FoldsAgree
      <3> QED BY <2>2, <2>4, <3>5
    <2> QED BY <2>3, <2>4
  <1>5. ASSUME NEW T \in SUBSET U
        PROVE  G(T) = IF T = {} THEN 0 ELSE w[Some(T)] + g[T \ {Some(T)}]
    <2>1. CASE T = {}
      BY <2>1
    <2>2. CASE T # {}
      <3> DEFINE X == T \ {Some(T)}
      <3>1. X \in SUBSET U /\ X # U
        BY <2>2, Smaller
      <3>2. g[X] = G(X)
        BY <3>1
      <3>3. G(X) = Fold(w, X)[X]
        <4> HIDE DEF X, G
        <4> QED BY <1>4, <3>1
      <3> QED BY <2>2, <3>2, <3>3
    <2> QED BY <2>1, <2>2
  <1>6. IsFold(g, w, U)
    <2> DEFINE H(T) == IF T = {} THEN 0 ELSE w[Some(T)] + g[T \ {Some(T)}]
    <2>1. \A T \in SUBSET U : G(T) = H(T)
      BY <1>5
    <2> HIDE DEF G, H
    <2>2. g = [T \in SUBSET U |-> H(T)]
      BY <2>1
    <2> QED BY <2>2 DEF IsFold, H
  <1>7. IsFold(Fold(w, U), w, U)
    <2> HIDE DEF g
    <2> QED BY <1>6 DEF Fold
  <1> QED BY <1>7

LEMMA SumStep ==
  ASSUME NEW S, IsFiniteSet(S), NEW w, NEW T \in SUBSET S
  PROVE  SumFunctionOnSet(w, T)
           = IF T = {} THEN 0 ELSE w[Some(T)] + SumFunctionOnSet(w, T \ {Some(T)})
  <1> DEFINE X == T \ {Some(T)}
  <1>1. SumFunctionOnSet(w, T) = Fold(w, T)[T] /\ SumFunctionOnSet(w, X) = Fold(w, X)[X]
    BY SumIsFold DEF Fold
  <1>2. IsFold(Fold(w, T), w, T) /\ IsFold(Fold(w, X), w, X)
    BY FoldExists
  <1>3. Fold(w, T)[T] = IF T = {} THEN 0 ELSE w[Some(T)] + Fold(w, T)[X]
    BY <1>2, FoldValue
  <1>4. X \in SUBSET (T \cap X) /\ X \in SUBSET S
    OBVIOUS
  <1>5. Fold(w, T)[X] = Fold(w, X)[X]
    <2> HIDE DEF X
    <2> QED BY <1>2, <1>4, FoldsAgree
  <1> QED BY <1>1, <1>3, <1>5

LEMMA SumNat ==
  ASSUME NEW S, IsFiniteSet(S), NEW w, \A x \in S : w[x] \in Nat
  PROVE  \A T \in SUBSET S : SumFunctionOnSet(w, T) \in Nat
  <1> DEFINE B == {T \in SUBSET S : SumFunctionOnSet(w, T) \notin Nat}
  <1> SUFFICES ASSUME B # {} PROVE FALSE
    OBVIOUS
  <1>1. PICK T \in B : \A X \in B : X \subseteq T => X = T
    <2>1. B \in SUBSET SUBSET S
      OBVIOUS
    <2> HIDE DEF B
    <2> QED BY <2>1, LeastSet
  <1>2. SumFunctionOnSet(w, T)
          = IF T = {} THEN 0 ELSE w[Some(T)] + SumFunctionOnSet(w, T \ {Some(T)})
    BY SumStep
  <1>3. T # {}
    BY <1>2
  <1>4. Some(T) \in T /\ T \ {Some(T)} \subseteq T /\ T \ {Some(T)} # T
    BY <1>3, Smaller
  <1>5. T \ {Some(T)} \notin B
    BY <1>1, <1>4
  <1>6. SumFunctionOnSet(w, T \ {Some(T)}) \in Nat /\ w[Some(T)] \in Nat
    BY <1>4, <1>5
  <1> QED BY <1>2, <1>3, <1>6

\* An element is taken out of a sum, whichever it is.
LEMMA SumWithout ==
  ASSUME NEW S, IsFiniteSet(S), NEW w, \A x \in S : w[x] \in Nat
  PROVE  \A T \in SUBSET S : \A x \in T :
           SumFunctionOnSet(w, T) = w[x] + SumFunctionOnSet(w, T \ {x})
  <1> DEFINE Good(T) == \A x \in T : SumFunctionOnSet(w, T) = w[x] + SumFunctionOnSet(w, T \ {x})
             B == {T \in SUBSET S : ~Good(T)}
  <1> SUFFICES ASSUME B # {} PROVE FALSE
    OBVIOUS
  <1>1. PICK T \in B : \A X \in B : X \subseteq T => X = T
    <2>1. B \in SUBSET SUBSET S
      OBVIOUS
    <2> HIDE DEF B
    <2> QED BY <2>1, LeastSet
  <1>2. T \in SUBSET S
    OBVIOUS
  <1>3. ASSUME NEW X \in SUBSET T, X # T PROVE Good(X)
    BY <1>1, <1>2, <1>3
  <1>4. PICK x \in T : SumFunctionOnSet(w, T) # w[x] + SumFunctionOnSet(w, T \ {x})
    OBVIOUS
  <1> DEFINE y == Some(T)
  <1>5. y \in T
    BY <1>4, Smaller
  <1>6. SumFunctionOnSet(w, T) = w[y] + SumFunctionOnSet(w, T \ {y})
    BY <1>2, <1>4, SumStep
  <1>7. x # y
    BY <1>4, <1>6
  <1> HIDE DEF y
  <1> DEFINE Z == T \ {x, y}
  <1>8. (T \ {y}) \ {x} = Z /\ (T \ {x}) \ {y} = Z /\ x \in T \ {y} /\ y \in T \ {x}
    BY <1>4, <1>5, <1>7
  <1>9. Good(T \ {y}) /\ Good(T \ {x})
    <2> HIDE DEF Good
    <2> QED BY <1>3, <1>4, <1>5
  <1>10. SumFunctionOnSet(w, T \ {y}) = w[x] + SumFunctionOnSet(w, Z)
    BY <1>8, <1>9
  <1>11. SumFunctionOnSet(w, T \ {x}) = w[y] + SumFunctionOnSet(w, Z)
    BY <1>8, <1>9
  <1>12. SumFunctionOnSet(w, Z) \in Nat /\ w[x] \in Nat /\ w[y] \in Nat
    BY <1>2, <1>4, <1>5, SumNat
  <1> QED BY <1>4, <1>6, <1>10, <1>11, <1>12

LEMMA SumGrows ==
  ASSUME NEW S, IsFiniteSet(S), NEW w, \A x \in S : w[x] \in Nat, NEW T \in SUBSET S
  PROVE  \A V \in SUBSET S : T \subseteq V => SumFunctionOnSet(w, T) <= SumFunctionOnSet(w, V)
  <1> DEFINE B == {V \in SUBSET S : T \subseteq V
                     /\ ~(SumFunctionOnSet(w, T) <= SumFunctionOnSet(w, V))}
  <1> SUFFICES ASSUME B # {} PROVE FALSE
    OBVIOUS
  <1>1. PICK V \in B : \A X \in B : X \subseteq V => X = V
    <2>1. B \in SUBSET SUBSET S
      OBVIOUS
    <2> HIDE DEF B
    <2> QED BY <2>1, LeastSet
  <1>2. SumFunctionOnSet(w, T) \in Nat /\ SumFunctionOnSet(w, V) \in Nat
    BY SumNat
  <1>3. PICK x \in V : x \notin T
    BY <1>2
  <1>4. V \ {x} \notin B
    BY <1>1, <1>3
  <1>5. SumFunctionOnSet(w, T) <= SumFunctionOnSet(w, V \ {x})
    BY <1>3, <1>4
  <1>6. SumFunctionOnSet(w, V) = w[x] + SumFunctionOnSet(w, V \ {x})
    BY <1>3, SumWithout
  <1>7. SumFunctionOnSet(w, V \ {x}) \in Nat /\ w[x] \in Nat
    BY <1>3, SumNat
  <1> QED BY <1>2, <1>5, <1>6, <1>7

\* The sum over two sets that share nothing is the sum of their sums.
LEMMA SumTogether ==
  ASSUME NEW Q, IsFiniteSet(Q), NEW w, \A x \in Q : w[x] \in Nat,
         NEW S \in SUBSET Q, NEW T \in SUBSET Q, S \cap T = {}
  PROVE  SumFunctionOnSet(w, S \cup T) = SumFunctionOnSet(w, S) + SumFunctionOnSet(w, T)
  <1> DEFINE Bad(V) == SumFunctionOnSet(w, S \cup V)
                         # SumFunctionOnSet(w, S) + SumFunctionOnSet(w, V)
             B == {V \in SUBSET T : Bad(V)}
  <1> SUFFICES ASSUME B # {} PROVE FALSE
    OBVIOUS
  <1>1. IsFiniteSet(T)
    BY FS_Subset
  <1>2. PICK V \in B : \A U \in B : U \subseteq V => U = V
    <2>1. B \in SUBSET SUBSET T
      OBVIOUS
    <2> HIDE DEF B
    <2> QED BY <1>1, <2>1, LeastSet
  <1>3. V \in SUBSET Q /\ V \subseteq T /\ S \cup V \in SUBSET Q
    OBVIOUS
  <1>4. \A X \in SUBSET Q : SumFunctionOnSet(w, X) \in Nat
    BY SumNat
  <1>5. CASE V = {}
    <2>1. SumFunctionOnSet(w, {}) = 0
      BY SumStep
    <2>2. S \cup V = S
      BY <1>5
    <2>3. ~Bad(V)
      BY <1>4, <1>5, <2>1, <2>2
    <2> QED BY <2>3
  <1>6. ASSUME NEW x \in V PROVE FALSE
    <2>1. V \ {x} \notin B
      BY <1>2
    <2>2. ~Bad(V \ {x})
      BY <1>3, <2>1
    <2>3. x \in Q /\ x \notin S /\ (S \cup V) \ {x} = S \cup (V \ {x})
      BY <1>3
    <2>4. SumFunctionOnSet(w, V) = w[x] + SumFunctionOnSet(w, V \ {x})
      BY <1>3, SumWithout
    <2>5. SumFunctionOnSet(w, S \cup V) = w[x] + SumFunctionOnSet(w, S \cup (V \ {x}))
      <3>1. SumFunctionOnSet(w, S \cup V) = w[x] + SumFunctionOnSet(w, (S \cup V) \ {x})
        BY <1>3, SumWithout
      <3> QED BY <2>3, <3>1
    <2>6. /\ w[x] \in Nat /\ SumFunctionOnSet(w, S) \in Nat
          /\ SumFunctionOnSet(w, V \ {x}) \in Nat
      BY <1>3, <1>4, <2>3
    <2>7. ~Bad(V)
      BY <2>2, <2>4, <2>5, <2>6
    <2> QED BY <2>7
  <1> QED BY <1>5, <1>6

\* What is not in the set does not count.
LEMMA SumSame ==
  ASSUME NEW S, IsFiniteSet(S), NEW w, NEW v, NEW T \in SUBSET S, \A x \in T : w[x] = v[x]
  PROVE  SumFunctionOnSet(w, T) = SumFunctionOnSet(v, T)
  <1>1. IsFiniteSet(T)
    BY FS_Subset
  <1>2. IsFold(Fold(w, T), w, T) /\ IsFold(Fold(v, T), v, T)
    BY FoldExists
  <1>3. T \in SUBSET (T \cap T)
    OBVIOUS
  <1>4. Fold(w, T)[T] = Fold(v, T)[T]
    BY <1>1, <1>2, <1>3, FoldsAgree
  <1> QED BY <1>4, SumIsFold DEF Fold
-----------------------------------------------------------------------------
(*****************************************************************************)
(* II. Types.                                                                *)
(*****************************************************************************)

Record == [at : At, ok : BOOLEAN, named : Charge, cost : Charge,
           month : Month \cup {0}, shown : BOOLEAN]

LEMMA ChargeFacts ==
  /\ Unknown \in Charge /\ Unknown.usd = 0 /\ Unknown.known = FALSE
  /\ \A c \in Charge : c.usd \in Nat /\ c.known \in BOOLEAN /\ (~c.known => c = Unknown)
  <1>1. Unknown \in Charge /\ Unknown.usd = 0 /\ Unknown.known = FALSE
    BY DEF Charge, Unknown
  <1>2. ASSUME NEW c \in Charge PROVE c.usd \in Nat /\ c.known \in BOOLEAN /\ (~c.known => c = Unknown)
    <2>1. CASE c = Unknown
      <3>1. c.usd = 0 /\ c.known = FALSE
        BY <1>1, <2>1
      <3>2. c.usd \in Nat
        BY <3>1
      <3>3. c.known \in BOOLEAN
        BY <3>1, Zenon
      <3> QED BY <2>1, <3>2, <3>3
    <2>2. CASE c \in [known : {TRUE}, usd : Amount]
      BY <2>2, AmountAssumption
    <2> QED BY <2>1, <2>2 DEF Charge
  <1> QED BY <1>1, <1>2

LEMMA FreeFacts ==
  /\ Free \in Record
  /\ Free.named = Unknown /\ Free.cost = Unknown /\ Free.at = "free"
  BY ChargeFacts DEF Free, Record, At

LEMMA SettledFacts ==
  ASSUME NEW rec \in Record, NEW estimate \in Charge
  PROVE  /\ Settled(rec, estimate) \in Charge
         /\ rec.named.usd > 0 => Settled(rec, estimate) = rec.named /\ rec.named.known
  BY ChargeFacts DEF Settled, Record

\* One request changes: the record it becomes.
LEMMA SetFacts ==
  ASSUME TypeOK, NEW r \in Request, NEW rec \in Record, Set(r, rec)
  PROVE  /\ req' \in [Request -> Record]
         /\ req'[r] = rec
         /\ \A q \in Request \ {r} : req'[q] = req[q]
  BY DEF Set, TypeOK, Record

\* What Finish makes of a request.
Finished(r, readable, estimate) ==
  LET rec  == [req[r] EXCEPT !.ok = @ /\ readable,
                             !.month = IF @ = 0 THEN month ELSE @]
      cost == Settled(rec, IF r \in Upscale THEN Unknown ELSE estimate)
  IN  [rec EXCEPT !.at = IF cost.known THEN "settled" ELSE "answered", !.cost = cost]

LEMMA FinishedFacts ==
  ASSUME TypeOK, NEW r \in Request, NEW readable \in BOOLEAN, NEW estimate \in Charge
  PROVE  LET rec == Finished(r, readable, estimate) IN
         /\ rec \in Record /\ rec.month \in Month
         /\ rec.named = req[r].named
         /\ rec.at = IF rec.cost.known THEN "settled" ELSE "answered"
         /\ rec.named.usd > 0 => rec.cost = rec.named /\ rec.cost.known
         /\ ~rec.cost.known => rec.cost = Unknown
  <1> DEFINE rec  == [req[r] EXCEPT !.ok = @ /\ readable,
                                    !.month = IF @ = 0 THEN month ELSE @]
             est  == IF r \in Upscale THEN Unknown ELSE estimate
             cost == Settled(rec, est)
  <1>1. rec \in Record /\ rec.month \in Month /\ rec.named = req[r].named
    <2>1. req[r] \in Record /\ month \in Month
      BY DEF TypeOK, Record
    <2>2. (IF req[r].month = 0 THEN month ELSE req[r].month) \in Month
      BY <2>1 DEF Record
    <2> QED BY <2>1, <2>2 DEF Record
  <1>2. est \in Charge
    BY ChargeFacts
  <1>3. cost \in Charge /\ (rec.named.usd > 0 => cost = rec.named /\ rec.named.known)
    <2> HIDE DEF rec, est
    <2> QED BY <1>1, <1>2, SettledFacts
  <1>4. Finished(r, readable, estimate)
          = [rec EXCEPT !.at = IF cost.known THEN "settled" ELSE "answered", !.cost = cost]
    BY DEF Finished
  <1> HIDE DEF rec, cost
  <1>5. ~cost.known => cost = Unknown
    BY <1>3, ChargeFacts
  <1> QED BY <1>1, <1>3, <1>4, <1>5 DEF Record, At

LEMMA RequestTypes ==
  ASSUME TypeOK, NEW r \in Request, RequestStep(r)
  PROVE  TypeOK'
  <1>1. ASSUME NEW rec \in Record, Set(r, rec),
               UNCHANGED <<month, sent, sender, told, failed>>, faults' \in Nat,
               UNCHANGED total \/ Recorded(r)
        PROVE  TypeOK'
    <2>1. req' \in [Request -> Record]
      BY <1>1, SetFacts
    <2>2. total' \in [Month -> Nat]
      <3>1. req[r].cost.usd \in Nat
        BY ChargeFacts DEF TypeOK
      <3>2. total \in [Month -> Nat]
        BY DEF TypeOK
      <3>3. CASE Recorded(r)
        <4> DEFINE m == req[r].month
                   usd == req[r].cost.usd
        <4>1. total' = [total EXCEPT ![m] = total[m] + usd] /\ usd \in Nat
          BY <3>1, <3>3 DEF Recorded
        <4> HIDE DEF m, usd
        <4>2. CASE m \in Month
          <5>1. total[m] + usd \in Nat
            BY <3>2, <4>1, <4>2
          <5> QED BY <3>2, <4>1, <4>2, <5>1
        <4>3. CASE m \notin Month
          BY <3>2, <4>1, <4>3
        <4> QED BY <4>2, <4>3
      <3> QED BY <1>1, <3>2, <3>3
    <2> QED BY <1>1, <2>1, <2>2 DEF TypeOK, Record
  <1>2. req[r] \in Record /\ month \in Month /\ faults \in Nat /\ faults + 1 \in Nat
    BY DEF TypeOK, Record
  <1>3. CASE Ask(r) \/ Account(r) \/ AccountFails(r)
    <2>1. CASE Ask(r)
      <3>1. [Free EXCEPT !.at = "asked"] \in Record
        BY FreeFacts DEF Record, At
      <3> QED BY <1>1, <1>2, <2>1, <3>1 DEF Ask, alertVars
    <2>2. CASE Account(r)
      <3>1. [req[r] EXCEPT !.at = "sent"] \in Record
        BY <1>2 DEF Record, At
      <3> QED BY <1>1, <1>2, <2>2, <3>1 DEF Account, alertVars
    <2>3. CASE AccountFails(r)
      <3>1. [req[r] EXCEPT !.at = "answered", !.ok = FALSE] \in Record
        BY <1>2 DEF Record, At
      <3> QED BY <1>1, <1>2, <2>3, <3>1 DEF AccountFails, Fault, alertVars
    <2> QED BY <1>3, <2>1, <2>2, <2>3
  <1>4. CASE Capture(r) \/ Upscaled(r) \/ NoAnswer(r)
    <2>1. CASE Capture(r)
      <3>1. PICK charge \in Charge, ok \in BOOLEAN :
              Set(r, [req[r] EXCEPT !.at = "captured", !.ok = ok, !.named = charge,
                                    !.month = month])
        BY <2>1 DEF Capture
      <3>2. [req[r] EXCEPT !.at = "captured", !.ok = ok, !.named = charge, !.month = month]
              \in Record
        BY <1>2 DEF Record, At
      <3> QED BY <1>1, <1>2, <2>1, <3>1, <3>2 DEF Capture, alertVars
    <2>2. CASE Upscaled(r)
      <3>1. PICK charge \in Charge, ok \in BOOLEAN :
              Set(r, [req[r] EXCEPT !.at = "captured", !.ok = ok, !.named = charge])
        BY <2>2 DEF Upscaled
      <3>2. [req[r] EXCEPT !.at = "captured", !.ok = ok, !.named = charge] \in Record
        BY <1>2 DEF Record, At
      <3> QED BY <1>1, <1>2, <2>2, <3>1, <3>2 DEF Upscaled, alertVars
    <2>3. CASE NoAnswer(r)
      <3>1. [req[r] EXCEPT !.at = "captured", !.ok = FALSE] \in Record
        BY <1>2 DEF Record, At
      <3> QED BY <1>1, <1>2, <2>3, <3>1 DEF NoAnswer, alertVars
    <2> QED BY <1>4, <2>1, <2>2, <2>3
  <1>5. CASE Finish(r)
    <2>1. PICK readable \in BOOLEAN, estimate \in Charge :
            Set(r, Finished(r, readable, estimate))
      BY <1>5 DEF Finish, Finished
    <2>2. Finished(r, readable, estimate) \in Record
      BY FinishedFacts
    <2> QED BY <1>1, <1>2, <1>5, <2>1, <2>2 DEF Finish, alertVars
  <1>6. CASE Persist(r) \/ PersistFails(r)
    <2>1. [req[r] EXCEPT !.at = "answered", !.shown = TRUE] \in Record
      BY <1>2 DEF Record, At
    <2>2. [req[r] EXCEPT !.at = "answered", !.ok = FALSE, !.shown = TRUE] \in Record
      BY <1>2 DEF Record, At
    <2>3. CASE Persist(r)
      BY <1>1, <1>2, <2>1, <2>3 DEF Persist, alertVars
    <2>4. CASE PersistFails(r)
      BY <1>1, <1>2, <2>2, <2>4 DEF PersistFails, Fault, alertVars
    <2> QED BY <1>6, <2>3, <2>4
  <1> QED BY <1>3, <1>4, <1>5, <1>6 DEF RequestStep

LEMMA AlertTypes ==
  ASSUME TypeOK, NEW s \in Sender, Start(s) \/ Send(s) \/ SendFails(s)
  PROVE  TypeOK'
  <1> DEFINE Run == [at : {"idle", "look", "send", "mark"}, month : Month,
                     threshold : Threshold]
  <1>1. ASSUME UNCHANGED <<month, req, total>>, faults' \in Nat, sender' \in [Sender -> Run],
               UNCHANGED sent \/ Marked(s), UNCHANGED told \/ Rings(s),
               failed' \in [Month -> [Threshold -> Nat]]
        PROVE  TypeOK'
    <2>1. sent' \in [Month -> SUBSET Threshold]
      <3>1. sent \in [Month -> SUBSET Threshold] /\ sender[s].threshold \in Threshold
        BY DEF TypeOK
      <3>2. CASE Marked(s)
        <4> DEFINE m == sender[s].month
                   t == sender[s].threshold
        <4>1. sent' = [sent EXCEPT ![m] = sent[m] \cup {t}] /\ t \in Threshold
          BY <3>1, <3>2 DEF Marked
        <4> HIDE DEF m, t
        <4> QED BY <3>1, <4>1
      <3> QED BY <1>1, <3>1, <3>2
    <2>2. told' \in [Month -> [Threshold -> Nat]]
      <3>1. /\ told \in [Month -> [Threshold -> Nat]]
            /\ sender[s].month \in Month /\ sender[s].threshold \in Threshold
        BY DEF TypeOK
      <3>2. CASE Rings(s)
        <4> DEFINE m == sender[s].month
                   t == sender[s].threshold
        <4>1. told' = [told EXCEPT ![m] = [told[m] EXCEPT ![t] = told[m][t] + 1]]
          BY <3>2 DEF Rings
        <4>2. m \in Month /\ t \in Threshold
          BY <3>1
        <4> HIDE DEF m, t
        <4>3. [told[m] EXCEPT ![t] = told[m][t] + 1] \in [Threshold -> Nat]
          BY <3>1, <4>2
        <4> QED BY <3>1, <4>1, <4>2, <4>3
      <3> QED BY <1>1, <3>1, <3>2
    <2> QED BY <1>1, <2>1, <2>2 DEF TypeOK
  <1>2. sender[s] \in Run /\ month \in Month /\ faults \in Nat /\ faults + 1 \in Nat
        /\ sender \in [Sender -> Run] /\ failed \in [Month -> [Threshold -> Nat]]
    BY DEF TypeOK
  <1>3. Idle \in Run
    BY BoundAssumption DEF Idle, Month, Threshold
  <1>4. Onward(s) => sender' \in [Sender -> Run]
    <2>1. [sender[s] EXCEPT !.at = "look", !.threshold = 100] \in Run
      BY <1>2 DEF Threshold
    <2>2. (IF sender[s].threshold = 80
           THEN [sender[s] EXCEPT !.at = "look", !.threshold = 100] ELSE Idle) \in Run
      BY <1>3, <2>1
    <2> HIDE DEF Run
    <2> QED BY <1>2, <2>2 DEF Onward
  <1>5. \A at \in {"idle", "look", "send", "mark"} : Goto(s, at) => sender' \in [Sender -> Run]
    BY <1>2 DEF Goto
  <1>6. CASE Start(s)
    <2>1. [at |-> "look", month |-> month, threshold |-> 80] \in Run
      BY <1>2 DEF Threshold
    <2>2. sender' \in [Sender -> Run]
      BY <1>2, <1>6, <2>1 DEF Start
    <2> QED BY <1>1, <1>2, <1>6, <2>2 DEF Start, requestVars
  <1>7. CASE Look(s)
    BY <1>1, <1>2, <1>4, <1>5, <1>7 DEF Look, requestVars
  <1>8. CASE Deliver(s)
    BY <1>1, <1>2, <1>5, <1>8 DEF Deliver, requestVars
  <1>9. CASE Mark(s)
    BY <1>1, <1>2, <1>4, <1>9 DEF Mark, requestVars
  <1>10. CASE SendFails(s)
    <2>1. failed' \in [Month -> [Threshold -> Nat]]
      BY <1>2, <1>10 DEF SendFails
    <2>2. sender' \in [Sender -> Run]
      BY <1>2, <1>3, <1>10 DEF SendFails
    <2> QED BY <1>1, <1>2, <1>10, <2>1, <2>2 DEF SendFails, Fault, requestVars
  <1> QED BY <1>6, <1>7, <1>8, <1>9, <1>10 DEF Send

\* The debits of the requests, whatever their month.
LEMMA DebitFacts ==
  ASSUME TypeOK
  PROVE  /\ IsFiniteSet(Request)
         /\ \A r \in Request : [q \in Request |-> req[q].cost.usd][r] \in Nat
  <1>1. \A r \in Request : req[r].cost.usd \in Nat
    BY ChargeFacts DEF TypeOK
  <1> QED BY <1>1, RequestAssumption

LEMMA ChargesNat ==
  ASSUME TypeOK, NEW S \in SUBSET Request, NEW m \in Month
  PROVE  Charges(m, S) \in Nat
  <1> DEFINE w == [q \in Request |-> req[q].cost.usd]
             T == {q \in S : req[q].month = m}
  <1>1. IsFiniteSet(Request) /\ \A r \in Request : w[r] \in Nat
    BY DebitFacts
  <1>2. Charges(m, S) = SumFunctionOnSet(w, T) /\ T \in SUBSET Request
    BY DEF Charges
  <1> HIDE DEF w, T
  <1> QED BY <1>1, <1>2, SumNat

LEMMA TypeStep ==
  ASSUME TypeOK, [Next]_vars
  PROVE  TypeOK'
  <1>1. CASE Turn
    BY <1>1, BoundAssumption DEF Turn, TypeOK, Month, requestVars, alertVars
  <1>2. CASE Restart
    <2>1. ASSUME NEW r \in Request
          PROVE  [req[r] EXCEPT !.at = "lost"] \in Record /\ req[r] \in Record
      <3>1. req[r] \in Record
        BY DEF TypeOK, Record
      <3> QED BY <3>1 DEF Record, At
    <2>2. req' \in [Request -> Record]
      BY <1>2, <2>1 DEF Restart
    <2>3. faults' \in Nat
      BY <1>2 DEF Restart, Fault, TypeOK
    <2>4. total' \in [Month -> Nat]
      <3>1. PICK through \in SUBSET {r \in Request : req[r].at = "settled"} :
              total' = [m \in Month |-> total[m] + Charges(m, through)]
        BY <1>2 DEF Restart
      <3>2. \A m \in Month : Charges(m, through) \in Nat /\ total[m] \in Nat
        BY <3>1, ChargesNat DEF TypeOK
      <3> QED BY <3>1, <3>2
    <2> QED BY <1>2, <2>2, <2>3, <2>4 DEF Restart, TypeOK, Record, alertVars
  <1>3. ASSUME NEW r \in Request, RequestStep(r) PROVE TypeOK'
    BY <1>3, RequestTypes
  <1>4. ASSUME NEW s \in Sender, Start(s) \/ Send(s) \/ SendFails(s) PROVE TypeOK'
    BY <1>4, AlertTypes
  <1>5. CASE UNCHANGED vars
    BY <1>5 DEF vars, requestVars, alertVars, TypeOK
  <1> QED BY <1>1, <1>2, <1>3, <1>4, <1>5 DEF Next

LEMMA InitTypes ==
  ASSUME Init
  PROVE  TypeOK
  BY FreeFacts, BoundAssumption DEF Init, TypeOK, Record, Month, Threshold, Idle

\* Every reachable state has its type.
THEOREM TypeCorrect == Spec => []TypeOK
  BY InitTypes, TypeStep, PTL DEF Spec

-----------------------------------------------------------------------------
(*****************************************************************************)
(* III. Requests: what is known of each at its stages, and which of them a   *)
(* month's total counts.                                                     *)
(*****************************************************************************)

Sound(rec) ==
  /\ rec.at \in {"free", "asked", "sent"} => rec.named = Unknown
  /\ rec.at \in {"free", "asked", "sent", "captured"} => rec.cost = Unknown
  /\ rec.at = "settled" => rec.month \in Month
  /\ rec.at \in {"settled", "answered"} /\ rec.named.usd > 0 => rec.cost = rec.named
  /\ rec.at = "answered" /\ rec.named.usd > 0 => rec.shown

RequestInv == TypeOK /\ \A r \in Request : Sound(req[r])

\* S is what the totals count: all that were answered well, and of those answered
\* otherwise or lost the ones whose save was committed after all.
Counts(S) ==
  /\ \A r \in S : req[r].at \in {"answered", "lost"}
  /\ \A r \in Request : req[r].at = "answered" /\ req[r].ok => r \in S
  /\ \A m \in Month : total[m] = Charges(m, S)

TotalInv == RequestInv /\ \E S \in SUBSET Request : Counts(S)

\* A request that becomes rec is left out of the total or, by its answer, counted.
Ignored(rec) == UNCHANGED total /\ ~(rec.at = "answered" /\ rec.ok)

Counted(rec) ==
  /\ rec.at = "answered"
  /\ \A m \in Month : total'[m] = total[m] + (IF rec.month = m THEN rec.cost.usd ELSE 0)

LEMMA RecordedFacts ==
  ASSUME TypeOK, NEW r \in Request, req[r].month \in Month, Recorded(r)
  PROVE  \A m \in Month :
           total'[m] = total[m] + (IF req[r].month = m THEN req[r].cost.usd ELSE 0)
  <1> DEFINE k == req[r].month
             usd == req[r].cost.usd
  <1>1. total' = [total EXCEPT ![k] = total[k] + usd] /\ k \in Month
    BY DEF Recorded
  <1>2. total \in [Month -> Nat]
    BY DEF TypeOK
  <1>3. usd \in Nat
    BY ChargeFacts DEF TypeOK
  <1> HIDE DEF k, usd
  <1>4. \A m \in Month : total'[m] = total[m] + (IF k = m THEN usd ELSE 0)
    BY <1>1, <1>2, <1>3
  <1> QED BY <1>4 DEF k, usd

LEMMA RequestEffect ==
  ASSUME RequestInv, NEW r \in Request, RequestStep(r)
  PROVE  /\ req[r].at \notin {"answered", "lost"}
         /\ \E rec \in Record : Set(r, rec) /\ Sound(rec)
                               /\ (Ignored(rec) \/ Counted(rec))
  <1>1. /\ req[r] \in Record /\ month \in Month /\ Sound(req[r])
        /\ \A m \in Month : total[m] \in Nat
    BY DEF RequestInv, TypeOK, Record
  <1>2. Unknown.usd = 0 /\ ~(0 > 0)
    BY ChargeFacts
  <1>3. CASE Ask(r)
    <2> DEFINE rec == [Free EXCEPT !.at = "asked"]
    <2>1. rec \in Record /\ rec.at = "asked" /\ rec.named = Unknown /\ rec.cost = Unknown
      BY FreeFacts DEF Record, At
    <2>2. Set(r, rec) /\ UNCHANGED total /\ req[r].at = "free"
      BY <1>3 DEF Ask
    <2> HIDE DEF rec
    <2> QED BY <2>1, <2>2 DEF Sound, Ignored
  <1>4. CASE Account(r)
    <2> DEFINE rec == [req[r] EXCEPT !.at = "sent"]
    <2>1. /\ rec \in Record /\ rec.at = "sent"
          /\ rec.named = req[r].named /\ rec.cost = req[r].cost
      BY <1>1 DEF Record, At
    <2>2. Set(r, rec) /\ UNCHANGED total /\ req[r].at = "asked"
      BY <1>4 DEF Account
    <2> HIDE DEF rec
    <2> QED BY <1>1, <2>1, <2>2 DEF Sound, Ignored
  <1>5. CASE AccountFails(r)
    <2> DEFINE rec == [req[r] EXCEPT !.at = "answered", !.ok = FALSE]
    <2>1. /\ rec \in Record /\ rec.at = "answered" /\ ~rec.ok
          /\ rec.named = req[r].named
      BY <1>1 DEF Record, At
    <2>2. Set(r, rec) /\ UNCHANGED total /\ req[r].at = "asked"
      BY <1>5 DEF AccountFails
    <2>3. req[r].named = Unknown
      BY <1>1, <2>2 DEF Sound
    <2> HIDE DEF rec
    <2>4. ~(rec.named.usd > 0)
      BY <1>2, <2>1, <2>3
    <2> QED BY <2>1, <2>2, <2>4 DEF Sound, Ignored
  <1>6. CASE Capture(r)
    <2>1. PICK charge \in Charge, ok \in BOOLEAN :
            Set(r, [req[r] EXCEPT !.at = "captured", !.ok = ok, !.named = charge,
                                  !.month = month])
      BY <1>6 DEF Capture
    <2> DEFINE rec == [req[r] EXCEPT !.at = "captured", !.ok = ok, !.named = charge,
                                     !.month = month]
    <2>2. rec \in Record /\ rec.at = "captured" /\ rec.cost = req[r].cost
      BY <1>1 DEF Record, At
    <2>3. Set(r, rec) /\ UNCHANGED total /\ req[r].at = "sent"
      BY <1>6, <2>1 DEF Capture
    <2> HIDE DEF rec
    <2> QED BY <1>1, <2>2, <2>3 DEF Sound, Ignored
  <1>7. CASE Upscaled(r)
    <2>1. PICK charge \in Charge, ok \in BOOLEAN :
            Set(r, [req[r] EXCEPT !.at = "captured", !.ok = ok, !.named = charge])
      BY <1>7 DEF Upscaled
    <2> DEFINE rec == [req[r] EXCEPT !.at = "captured", !.ok = ok, !.named = charge]
    <2>2. rec \in Record /\ rec.at = "captured" /\ rec.cost = req[r].cost
      BY <1>1 DEF Record, At
    <2>3. Set(r, rec) /\ UNCHANGED total /\ req[r].at = "sent"
      BY <1>7, <2>1 DEF Upscaled
    <2> HIDE DEF rec
    <2> QED BY <1>1, <2>2, <2>3 DEF Sound, Ignored
  <1>8. CASE NoAnswer(r)
    <2> DEFINE rec == [req[r] EXCEPT !.at = "captured", !.ok = FALSE]
    <2>1. rec \in Record /\ rec.at = "captured" /\ rec.cost = req[r].cost
      BY <1>1 DEF Record, At
    <2>2. Set(r, rec) /\ UNCHANGED total /\ req[r].at = "sent"
      BY <1>8 DEF NoAnswer
    <2> HIDE DEF rec
    <2> QED BY <1>1, <2>1, <2>2 DEF Sound, Ignored
  <1>9. CASE Finish(r)
    <2>1. PICK readable \in BOOLEAN, estimate \in Charge :
            Set(r, Finished(r, readable, estimate))
      BY <1>9 DEF Finish, Finished
    <2> DEFINE rec == Finished(r, readable, estimate)
    <2>2. /\ rec \in Record /\ rec.month \in Month
          /\ rec.at = IF rec.cost.known THEN "settled" ELSE "answered"
          /\ rec.named.usd > 0 => rec.cost = rec.named /\ rec.cost.known
          /\ ~rec.cost.known => rec.cost = Unknown
      BY FinishedFacts DEF RequestInv
    <2>3. Set(r, rec) /\ UNCHANGED total /\ req[r].at = "captured"
      BY <1>9, <2>1 DEF Finish
    <2> HIDE DEF rec
    <2>4. Sound(rec)
      BY <2>2 DEF Sound
    <2>5. Ignored(rec) \/ Counted(rec)
      <3>1. CASE rec.cost.known
        BY <2>2, <2>3, <3>1 DEF Ignored
      <3>2. CASE ~rec.cost.known
        <4>1. rec.cost.usd = 0 /\ rec.at = "answered"
          BY <1>2, <2>2, <3>2
        <4> QED BY <1>1, <2>3, <4>1 DEF Counted
      <3> QED BY <3>1, <3>2
    <2> QED BY <2>2, <2>3, <2>4, <2>5
  <1>10. CASE Persist(r)
    <2> DEFINE rec == [req[r] EXCEPT !.at = "answered", !.shown = TRUE]
    <2>1. /\ rec \in Record /\ rec.at = "answered" /\ rec.shown
          /\ rec.named = req[r].named /\ rec.cost = req[r].cost /\ rec.month = req[r].month
      BY <1>1 DEF Record, At
    <2>2. Set(r, rec) /\ Recorded(r) /\ req[r].at = "settled"
      BY <1>10 DEF Persist
    <2> HIDE DEF rec
    <2>3. Sound(rec)
      BY <1>1, <2>1, <2>2 DEF Sound
    <2>4. Counted(rec)
      BY <1>1, <2>1, <2>2, RecordedFacts DEF Counted, Sound, RequestInv
    <2> QED BY <2>1, <2>2, <2>3, <2>4
  <1>11. CASE PersistFails(r)
    <2> DEFINE rec == [req[r] EXCEPT !.at = "answered", !.ok = FALSE, !.shown = TRUE]
    <2>1. /\ rec \in Record /\ rec.at = "answered" /\ rec.shown /\ ~rec.ok
          /\ rec.named = req[r].named /\ rec.cost = req[r].cost /\ rec.month = req[r].month
      BY <1>1 DEF Record, At
    <2>2. Set(r, rec) /\ (Recorded(r) \/ UNCHANGED total) /\ req[r].at = "settled"
      BY <1>11 DEF PersistFails
    <2> HIDE DEF rec
    <2>3. Sound(rec)
      BY <1>1, <2>1, <2>2 DEF Sound
    <2>4. CASE Recorded(r)
      <3>1. Counted(rec)
        BY <1>1, <2>1, <2>2, <2>4, RecordedFacts DEF Counted, Sound, RequestInv
      <3> QED BY <2>1, <2>2, <2>3, <3>1
    <2>5. CASE UNCHANGED total
      BY <2>1, <2>2, <2>3, <2>5 DEF Ignored
    <2> QED BY <2>2, <2>4, <2>5
  <1> QED
    BY <1>3, <1>4, <1>5, <1>6, <1>7, <1>8, <1>9, <1>10, <1>11 DEF RequestStep

\* Requests that keep their cost and month keep their charges.
LEMMA ChargesKept ==
  ASSUME NEW S \in SUBSET Request,
         \A q \in S : req'[q].cost = req[q].cost /\ req'[q].month = req[q].month,
         NEW m \in Month
  PROVE  Charges(m, S)' = Charges(m, S)
  <1> DEFINE w == [q \in Request |-> req[q].cost.usd]
             v == [q \in Request |-> req'[q].cost.usd]
             T == {q \in S : req[q].month = m}
             U == {q \in S : req'[q].month = m}
  <1>1. T = U /\ T \in SUBSET Request /\ IsFiniteSet(Request)
    BY RequestAssumption
  <1>2. \A q \in T : v[q] = w[q]
    OBVIOUS
  <1>3. Charges(m, S)' = SumFunctionOnSet(v, U) /\ Charges(m, S) = SumFunctionOnSet(w, T)
    BY DEF Charges
  <1> HIDE DEF v, w, T, U
  <1> QED BY <1>1, <1>2, <1>3, SumSame

\* Two sets of requests that share none charge what each of them charges.
LEMMA ChargesTogether ==
  ASSUME TypeOK, NEW S \in SUBSET Request, NEW T \in SUBSET Request, S \cap T = {},
         NEW m \in Month
  PROVE  Charges(m, S \cup T) = Charges(m, S) + Charges(m, T)
  <1> DEFINE w == [q \in Request |-> req[q].cost.usd]
             In(X) == {q \in X : req[q].month = m}
  <1>1. \A X : Charges(m, X) = SumFunctionOnSet(w, In(X))
    BY DEF Charges
  <1>2. /\ In(S \cup T) = In(S) \cup In(T) /\ In(S) \cap In(T) = {}
        /\ In(S) \in SUBSET Request /\ In(T) \in SUBSET Request
    OBVIOUS
  <1>3. IsFiniteSet(Request) /\ \A q \in Request : w[q] \in Nat
    BY DebitFacts
  <1> HIDE DEF w, In
  <1>4. SumFunctionOnSet(w, In(S) \cup In(T)) = SumFunctionOnSet(w, In(S)) + SumFunctionOnSet(w, In(T))
    BY <1>2, <1>3, SumTogether
  <1> QED BY <1>1, <1>2, <1>4

\* One more request counts in its month.
LEMMA ChargesMore ==
  ASSUME TypeOK', NEW S \in SUBSET Request, NEW r \in Request \ S, NEW m \in Month
  PROVE  Charges(m, S \cup {r})'
           = Charges(m, S)' + (IF req'[r].month = m THEN req'[r].cost.usd ELSE 0)
  <1> DEFINE v == [q \in Request |-> req'[q].cost.usd]
             T == {q \in S : req'[q].month = m}
             U == {q \in S \cup {r} : req'[q].month = m}
  <1>1. Charges(m, S \cup {r})' = SumFunctionOnSet(v, U) /\ Charges(m, S)' = SumFunctionOnSet(v, T)
    BY DEF Charges
  <1>2. \A q \in Request : v[q] \in Nat
    <2>1. \A q \in Request : req'[q].cost.usd \in Nat
      BY ChargeFacts DEF TypeOK
    <2> QED BY <2>1
  <1>3. T \in SUBSET Request /\ U \in SUBSET Request /\ IsFiniteSet(Request)
    BY RequestAssumption
  <1>4. v[r] = req'[r].cost.usd
    OBVIOUS
  <1>5. CASE req'[r].month = m
    <2>1. r \in U /\ U \ {r} = T
      BY <1>5
    <2> HIDE DEF v, T, U
    <2>2. SumFunctionOnSet(v, U) = v[r] + SumFunctionOnSet(v, U \ {r})
      BY <1>2, <1>3, <2>1, SumWithout
    <2>3. SumFunctionOnSet(v, T) \in Nat /\ v[r] \in Nat
      BY <1>2, <1>3, SumNat
    <2>4. SumFunctionOnSet(v, U) = SumFunctionOnSet(v, T) + v[r]
      <3>1. SumFunctionOnSet(v, U) = v[r] + SumFunctionOnSet(v, T)
        BY <2>1, <2>2
      <3> QED BY <2>3, <3>1
    <2> QED BY <1>1, <1>4, <1>5, <2>4
  <1>6. CASE req'[r].month # m
    <2>1. U = T
      BY <1>6
    <2> HIDE DEF v, T, U
    <2>2. SumFunctionOnSet(v, T) \in Nat
      BY <1>2, <1>3, SumNat
    <2> QED BY <1>1, <1>6, <2>1, <2>2
  <1> QED BY <1>5, <1>6

LEMMA TotalRequestStep ==
  ASSUME TotalInv, NEW r \in Request, RequestStep(r)
  PROVE  TotalInv'
  <1>1. TypeOK'
    BY RequestTypes DEF TotalInv, RequestInv
  <1>2. PICK rec \in Record : Set(r, rec) /\ Sound(rec) /\ (Ignored(rec) \/ Counted(rec))
    BY RequestEffect DEF TotalInv
  <1>3. req'[r] = rec /\ \A q \in Request \ {r} : req'[q] = req[q]
    BY <1>2, SetFacts DEF TotalInv, RequestInv
  <1>4. RequestInv'
    <2>1. ASSUME NEW q \in Request PROVE Sound(req'[q])
      BY <1>2, <1>3 DEF TotalInv, RequestInv
    <2> QED BY <1>1, <2>1 DEF RequestInv
  <1>5. PICK S \in SUBSET Request : Counts(S)
    BY DEF TotalInv
  <1>6. r \notin S
    BY <1>5, RequestEffect DEF TotalInv, Counts
  <1>7. \A m \in Month : Charges(m, S)' = Charges(m, S)
    BY <1>3, <1>6, ChargesKept
  <1>8. CASE Ignored(rec)
    <2>1. \A m \in Month : total'[m] = Charges(m, S)'
      BY <1>5, <1>7, <1>8 DEF Ignored, Counts
    <2>2. \A q \in S : req'[q].at \in {"answered", "lost"}
      BY <1>3, <1>5, <1>6 DEF Counts
    <2>3. \A q \in Request : req'[q].at = "answered" /\ req'[q].ok => q \in S
      BY <1>3, <1>5, <1>8 DEF Counts, Ignored
    <2>4. Counts(S)'
      BY <2>1, <2>2, <2>3 DEF Counts
    <2> QED BY <1>4, <2>4 DEF TotalInv
  <1>9. CASE Counted(rec)
    <2> DEFINE V == S \cup {r}
    <2>1. ASSUME NEW m \in Month PROVE total'[m] = Charges(m, V)'
      <3>1. Charges(m, V)' = Charges(m, S)' + (IF rec.month = m THEN rec.cost.usd ELSE 0)
        BY <1>1, <1>3, <1>6, ChargesMore
      <3>2. total'[m] = total[m] + (IF rec.month = m THEN rec.cost.usd ELSE 0)
        BY <1>9 DEF Counted
      <3>3. total[m] = Charges(m, S)'
        BY <1>5, <1>7 DEF Counts
      <3> QED BY <3>1, <3>2, <3>3
    <2>2. \A q \in V : req'[q].at \in {"answered", "lost"}
      BY <1>3, <1>5, <1>9 DEF Counts, Counted
    <2>3. \A q \in Request : req'[q].at = "answered" /\ req'[q].ok => q \in V
      BY <1>3, <1>5 DEF Counts
    <2> HIDE DEF V
    <2>4. Counts(V)'
      BY <2>1, <2>2, <2>3 DEF Counts
    <2>5. V \in SUBSET Request
      BY DEF V
    <2> QED BY <1>4, <2>4, <2>5 DEF TotalInv
  <1> QED BY <1>2, <1>8, <1>9

\* Steps that leave the requests and the totals alone.
LEMMA TotalStutter ==
  ASSUME TotalInv, TypeOK', UNCHANGED <<req, total>>
  PROVE  TotalInv'
  <1>1. PICK S \in SUBSET Request : Counts(S)
    BY DEF TotalInv
  <1>2. \A m \in Month : Charges(m, S)' = Charges(m, S)
    BY ChargesKept
  <1>3. Counts(S)'
    BY <1>1, <1>2 DEF Counts
  <1> QED BY <1>3 DEF TotalInv, RequestInv

\* A restart loses what is in flight, and counts those whose save was committed.
LEMMA TotalRestart ==
  ASSUME TotalInv, Restart
  PROVE  TotalInv'
  <1>1. TypeOK'
    BY TypeStep DEF TotalInv, RequestInv, Next
  <1>2. \A r \in Request : IF r \in InFlight THEN req'[r] = [req[r] EXCEPT !.at = "lost"]
                                             ELSE req'[r] = req[r]
    BY DEF Restart
  <1>3. ASSUME NEW r \in Request
        PROVE  /\ Sound(req'[r])
               /\ req'[r] = req[r] \/ (req'[r].at = "lost" /\ r \in InFlight)
               /\ req'[r].cost = req[r].cost /\ req'[r].month = req[r].month
    <2>1. CASE r \in InFlight
      <3>1. req[r] \in Record
        BY DEF TotalInv, RequestInv, TypeOK, Record
      <3>2. /\ req'[r].at = "lost"
            /\ req'[r].cost = req[r].cost /\ req'[r].month = req[r].month
        BY <1>2, <2>1, <3>1 DEF Record
      <3> QED BY <2>1, <3>2 DEF Sound
    <2>2. CASE r \notin InFlight
      BY <1>2, <2>2 DEF TotalInv, RequestInv
    <2> QED BY <2>1, <2>2
  <1>4. PICK S \in SUBSET Request : Counts(S)
    BY DEF TotalInv
  <1>5. PICK through \in SUBSET {r \in Request : req[r].at = "settled"} :
          total' = [m \in Month |-> total[m] + Charges(m, through)]
    BY DEF Restart
  <1> DEFINE V == S \cup through
  <1>6. V \in SUBSET Request /\ S \cap through = {} /\ through \subseteq InFlight
    BY <1>4, <1>5 DEF Counts, InFlight
  <1>7. ASSUME NEW m \in Month PROVE total'[m] = Charges(m, V)'
    <2>1. Charges(m, V) = Charges(m, S) + Charges(m, through)
      BY <1>5, <1>6, ChargesTogether DEF TotalInv, RequestInv
    <2>2. Charges(m, V)' = Charges(m, V)
      BY <1>3, <1>6, ChargesKept
    <2> QED BY <1>4, <1>5, <2>1, <2>2 DEF Counts
  <1>8. \A r \in V : req'[r].at \in {"answered", "lost"}
    <2>1. \A r \in S : req'[r].at \in {"answered", "lost"}
      BY <1>3, <1>4 DEF Counts
    <2>2. \A r \in through : req'[r].at = "lost"
      <3>1. \A r \in through : req[r] \in Record
        BY <1>5 DEF TotalInv, RequestInv, TypeOK, Record
      <3> QED BY <1>2, <1>6, <3>1 DEF Record
    <2> QED BY <2>1, <2>2
  <1>9. \A r \in Request : req'[r].at = "answered" /\ req'[r].ok => r \in V
    BY <1>3, <1>4 DEF Counts
  <1> HIDE DEF V
  <1>10. Counts(V)'
    BY <1>7, <1>8, <1>9 DEF Counts
  <1> QED BY <1>1, <1>3, <1>6, <1>10 DEF TotalInv, RequestInv

LEMMA TotalStep ==
  ASSUME TotalInv, [Next]_vars
  PROVE  TotalInv'
  <1>1. TypeOK'
    BY TypeStep DEF TotalInv, RequestInv
  <1>2. CASE Restart
    BY <1>2, TotalRestart
  <1>3. ASSUME NEW r \in Request, RequestStep(r) PROVE TotalInv'
    BY <1>3, TotalRequestStep
  <1>4. CASE Turn
    BY <1>1, <1>4, TotalStutter DEF Turn, requestVars
  <1>5. ASSUME NEW s \in Sender, Start(s) \/ Send(s) \/ SendFails(s) PROVE TotalInv'
    BY <1>1, <1>5, TotalStutter DEF Start, Send, Look, Deliver, Mark, SendFails, requestVars
  <1>6. CASE UNCHANGED vars
    BY <1>1, <1>6, TotalStutter DEF vars, requestVars
  <1> QED BY <1>2, <1>3, <1>4, <1>5, <1>6 DEF Next

LEMMA InitTotal ==
  ASSUME Init
  PROVE  TotalInv
  <1>1. TypeOK
    BY InitTypes
  <1>2. \A r \in Request : req[r] = Free
    BY DEF Init
  <1>3. RequestInv
    BY <1>1, <1>2, FreeFacts DEF RequestInv, Sound
  <1>4. ASSUME NEW m \in Month PROVE total[m] = Charges(m, {})
    <2> DEFINE w == [q \in Request |-> req[q].cost.usd]
    <2>1. Charges(m, {}) = SumFunctionOnSet(w, {})
      BY DEF Charges
    <2>2. SumFunctionOnSet(w, {}) = 0
      <3> HIDE DEF w
      <3> QED BY SumStep, RequestAssumption
    <2> QED BY <2>1, <2>2 DEF Init
  <1>5. Counts({})
    BY <1>2, <1>4, FreeFacts DEF Counts
  <1> QED BY <1>3, <1>5 DEF TotalInv

LEMMA TotalCorrect == Spec => []TotalInv
  BY InitTotal, TotalStep, PTL DEF Spec

\* A month's total is at least what the requests answered well in it cost, and
\* at most what all that were answered, or lost with the proxy, did.
THEOREM TotalsAreExact == Spec => []TotalIsExact
  <1>1. ASSUME TotalInv PROVE TotalIsExact
    <2> SUFFICES ASSUME NEW m \in Month
        PROVE  LET kept == {r \in Request : req[r].at = "answered" /\ req[r].ok}
                   over == {r \in Request : req[r].at \in {"answered", "lost"}}
               IN  Charges(m, kept) <= total[m] /\ total[m] <= Charges(m, over)
      BY DEF TotalIsExact
    <2> DEFINE kept == {r \in Request : req[r].at = "answered" /\ req[r].ok}
               over == {r \in Request : req[r].at \in {"answered", "lost"}}
               w    == [q \in Request |-> req[q].cost.usd]
               In(S) == {r \in S : req[r].month = m}
    <2>1. PICK S \in SUBSET Request : Counts(S)
      BY <1>1 DEF TotalInv
    <2>2. \A X : Charges(m, X) = SumFunctionOnSet(w, In(X))
      BY DEF Charges
    <2>3. \A q \in Request : w[q] \in Nat
      BY <1>1, DebitFacts DEF TotalInv, RequestInv
    <2>4. kept \subseteq S /\ S \subseteq over
      BY <2>1 DEF Counts
    <2>5. In(kept) \subseteq In(S) /\ In(S) \subseteq In(over) /\ In(over) \in SUBSET Request
      BY <2>4
    <2> HIDE DEF w, In, kept, over
    <2>6. /\ SumFunctionOnSet(w, In(kept)) <= SumFunctionOnSet(w, In(S))
          /\ SumFunctionOnSet(w, In(S)) <= SumFunctionOnSet(w, In(over))
      BY <2>3, <2>5, SumGrows, RequestAssumption
    <2>7. total[m] = SumFunctionOnSet(w, In(S))
      BY <2>1, <2>2 DEF Counts
    <2>8. Charges(m, kept) <= total[m] /\ total[m] <= Charges(m, over)
      BY <2>2, <2>6, <2>7
    <2> QED BY <2>8 DEF kept, over
  <1> QED BY <1>1, TotalCorrect, PTL

\* A debit that the provider named is the cost of the request once answered, and
\* its client has been told.
THEOREM NamedDebitsAreShown == Spec => []NamedIsShown
  <1>1. ASSUME TotalInv PROVE NamedIsShown
    BY <1>1 DEF TotalInv, RequestInv, Sound, NamedIsShown
  <1> QED BY <1>1, TotalCorrect, PTL

-----------------------------------------------------------------------------
(*****************************************************************************)
(* IV. Alerts: the lock of a month's row leaves one run at a time between    *)
(* looking at a flag and marking it.                                         *)
(*****************************************************************************)

Holds(s, m) == sender[s].at \in {"send", "mark"} /\ sender[s].month = m

\* The run s is about to mark the alert of m and t, which went out.
Marks(s, m, t) == sender[s].at = "mark" /\ sender[s].month = m /\ sender[s].threshold = t

Alerted(m, t) == t \in sent[m] \/ \E s \in Sender : Marks(s, m, t)

AlertInv ==
  /\ TypeOK
  /\ \A m \in Month, o, s \in Sender : Holds(o, m) /\ Holds(s, m) => o = s
  /\ \A s \in Sender : sender[s].at = "send" => sender[s].threshold \notin sent[sender[s].month]
  /\ \A m \in Month, t \in Threshold :
       /\ told[m][t] <= failed[m][t] + 1
       /\ Alerted(m, t) \/ told[m][t] <= failed[m][t]

LEMMA OnwardFacts ==
  ASSUME TypeOK, NEW s \in Sender, Onward(s)
  PROVE  /\ \A o \in Sender \ {s} : sender'[o] = sender[o]
         /\ sender'[s].at \in {"idle", "look"}
  <1> DEFINE next == IF sender[s].threshold = 80
                     THEN [sender[s] EXCEPT !.at = "look", !.threshold = 100] ELSE Idle
  <1>1. sender' = [sender EXCEPT ![s] = next]
    BY DEF Onward
  <1>2. next.at \in {"idle", "look"}
    <2>1. [sender[s] EXCEPT !.at = "look", !.threshold = 100].at = "look"
      BY DEF TypeOK
    <2> QED BY <2>1 DEF Idle
  <1> HIDE DEF next
  <1> QED BY <1>1, <1>2 DEF TypeOK

\* A run that takes the lock finds no one else in its month.
LEMMA LookKeeps ==
  ASSUME AlertInv, TypeOK', NEW s \in Sender, Look(s)
  PROVE  AlertInv'
  <1>1. /\ UNCHANGED <<sent, told, failed>> /\ sender[s].at = "look"
        /\ \A o \in Sender \ {s} : sender'[o] = sender[o]
        /\ sender[s].month \in Month /\ sender[s].threshold \in Threshold
    BY OnwardFacts DEF Look, Goto, AlertInv, TypeOK
  <1>2. \A o \in Sender, m \in Month, t \in Threshold : Marks(o, m, t)' <=> Marks(o, m, t)
    <2>1. Goto(s, "send") => sender'[s].at = "send"
      BY DEF Goto, AlertInv, TypeOK
    <2>2. sender'[s].at # "mark"
      BY <2>1, OnwardFacts DEF Look, AlertInv
    <2> QED BY <1>1, <2>2 DEF Marks
  <1>3. CASE Due(s)
    <2>1. /\ sender'[s] = [sender[s] EXCEPT !.at = "send"]
          /\ sender[s].threshold \notin sent[sender[s].month]
      BY <1>3 DEF Look, Goto, Due, AlertInv, TypeOK
    <2>2. /\ sender'[s].at = "send" /\ sender'[s].month = sender[s].month
          /\ sender'[s].threshold = sender[s].threshold
      BY <2>1 DEF AlertInv, TypeOK
    <2>3. \A o \in Sender \ {s} : ~Holds(o, sender[s].month)
      BY DEF Look, Unlocked, Holds
    <2>4. \A m \in Month, o, q \in Sender : Holds(o, m)' /\ Holds(q, m)' => o = q
      BY <1>1, <2>2, <2>3 DEF Holds, AlertInv
    <2>5. \A o \in Sender : sender'[o].at = "send"
            => sender'[o].threshold \notin sent'[sender'[o].month]
      BY <1>1, <2>1, <2>2 DEF AlertInv
    <2>6. \A m \in Month, t \in Threshold : Alerted(m, t)' <=> Alerted(m, t)
      BY <1>1, <1>2 DEF Alerted
    <2> QED BY <1>1, <2>4, <2>5, <2>6 DEF AlertInv
  <1>4. CASE ~Due(s)
    <2>1. sender'[s].at \in {"look", "idle"}
      BY <1>4, OnwardFacts DEF Look, AlertInv
    <2>2. \A m \in Month, o, q \in Sender : Holds(o, m)' /\ Holds(q, m)' => o = q
      BY <1>1, <2>1 DEF Holds, AlertInv
    <2>3. \A o \in Sender : sender'[o].at = "send"
            => sender'[o].threshold \notin sent'[sender'[o].month]
      BY <1>1, <2>1 DEF AlertInv
    <2>4. \A m \in Month, t \in Threshold : Alerted(m, t)' <=> Alerted(m, t)
      BY <1>1, <1>2 DEF Alerted
    <2> QED BY <1>1, <2>2, <2>3, <2>4 DEF AlertInv
  <1> QED BY <1>3, <1>4

LEMMA RingsFacts ==
  ASSUME TypeOK, NEW s \in Sender, Rings(s)
  PROVE  \A m \in Month, t \in Threshold :
           told'[m][t] = IF m = sender[s].month /\ t = sender[s].threshold
                         THEN told[m][t] + 1 ELSE told[m][t]
  BY DEF Rings, TypeOK

\* A run that holds the lock leaves it, or goes on holding it: the other runs
\* keep what they hold, and no other alert of any month is touched.
LEMMA HolderKeeps ==
  ASSUME AlertInv, TypeOK', NEW s \in Sender, NEW k \in Month, NEW u \in Threshold,
         Holds(s, k), sender[s].threshold = u,
         \A o \in Sender \ {s} : sender'[o] = sender[o],
         \/ sender'[s].at \in {"idle", "look"}
         \/ sender'[s].at = "mark" /\ sender'[s].month = k /\ sender'[s].threshold = u,
         \A m \in Month, t \in Threshold : m # k \/ t # u
           => /\ t \in sent'[m] <=> t \in sent[m]
              /\ told'[m][t] = told[m][t] /\ failed'[m][t] = failed[m][t],
         told'[k][u] <= failed'[k][u] + 1,
         Alerted(k, u)' \/ told'[k][u] <= failed'[k][u]
  PROVE  AlertInv'
  <1>1. \A o \in Sender, m \in Month : Holds(o, m)' => Holds(o, m)
    BY DEF Holds
  <1>2. \A m \in Month, o, q \in Sender : Holds(o, m)' /\ Holds(q, m)' => o = q
    BY <1>1 DEF AlertInv
  <1>3. ASSUME NEW o \in Sender, sender'[o].at = "send"
        PROVE  sender'[o].threshold \notin sent'[sender'[o].month]
    <2>1. o # s /\ sender'[o] = sender[o]
      BY <1>3
    <2>2. sender[o].month \in Month /\ sender[o].threshold \in Threshold
      BY DEF AlertInv, TypeOK
    <2>3. sender[o].month # k
      BY <1>3, <2>1, <2>2 DEF AlertInv, Holds
    <2> QED BY <1>3, <2>1, <2>2, <2>3 DEF AlertInv
  <1>4. ASSUME NEW m \in Month, NEW t \in Threshold, m # k \/ t # u
        PROVE  Alerted(m, t) => Alerted(m, t)'
    <2>1. ASSUME NEW o \in Sender, Marks(o, m, t) PROVE Marks(o, m, t)'
      <3>1. o # s
        BY <1>4, <2>1 DEF Marks, Holds
      <3> QED BY <2>1, <3>1 DEF Marks
    <2> QED BY <1>4, <2>1 DEF Alerted
  <1>5. ASSUME NEW m \in Month, NEW t \in Threshold
        PROVE  /\ told'[m][t] <= failed'[m][t] + 1
               /\ Alerted(m, t)' \/ told'[m][t] <= failed'[m][t]
    <2>1. CASE m = k /\ t = u
      BY <2>1
    <2>2. CASE m # k \/ t # u
      BY <1>4, <2>2 DEF AlertInv
    <2> QED BY <2>1, <2>2
  <1> QED BY <1>2, <1>3, <1>5 DEF AlertInv

LEMMA DeliverKeeps ==
  ASSUME AlertInv, TypeOK', NEW s \in Sender, Deliver(s)
  PROVE  AlertInv'
  <1>0. PICK k \in Month, u \in Threshold : k = sender[s].month /\ u = sender[s].threshold
    BY DEF AlertInv, TypeOK
  <1>1. /\ k \in Month /\ u \in Threshold /\ Holds(s, k) /\ u \notin sent[k]
        /\ told[k][u] \in Nat /\ failed[k][u] \in Nat
    BY <1>0 DEF Deliver, Holds, AlertInv, TypeOK
  <1>2. /\ \A o \in Sender \ {s} : sender'[o] = sender[o]
        /\ sender'[s] = [sender[s] EXCEPT !.at = "mark"]
        /\ UNCHANGED <<sent, failed>>
    BY DEF Deliver, Goto, AlertInv, TypeOK
  <1>3. sender'[s].at = "mark" /\ sender'[s].month = k /\ sender'[s].threshold = u
    BY <1>0, <1>2 DEF AlertInv, TypeOK
  <1>4. \A m \in Month, t \in Threshold :
          told'[m][t] = IF m = k /\ t = u THEN told[m][t] + 1 ELSE told[m][t]
    BY <1>0, RingsFacts DEF Deliver, AlertInv
  <1>5. sender[s].at = "send"
    BY DEF Deliver
  <1>6. ~Alerted(k, u)
    <2>1. \A o \in Sender : ~Marks(o, k, u)
      BY <1>1, <1>5 DEF Marks, Holds, AlertInv
    <2> QED BY <1>1, <2>1 DEF Alerted
  <1>7. told'[k][u] <= failed'[k][u] + 1
    BY <1>1, <1>2, <1>4, <1>6 DEF AlertInv
  <1>8. Alerted(k, u)'
    BY <1>3 DEF Alerted, Marks
  <1>9. \A m \in Month, t \in Threshold : m # k \/ t # u
          => /\ t \in sent'[m] <=> t \in sent[m]
             /\ told'[m][t] = told[m][t] /\ failed'[m][t] = failed[m][t]
    BY <1>2, <1>4
  <1>10. \A o \in Sender \ {s} : sender'[o] = sender[o]
    BY <1>2
  <1> QED BY <1>0, <1>1, <1>3, <1>7, <1>8, <1>9, <1>10, HolderKeeps

LEMMA MarkedFacts ==
  ASSUME TypeOK, NEW s \in Sender, Marked(s)
  PROVE  \A m \in Month, t \in Threshold :
           t \in sent'[m] <=> t \in sent[m] \/ (m = sender[s].month /\ t = sender[s].threshold)
  BY DEF Marked, TypeOK

LEMMA MarkKeeps ==
  ASSUME AlertInv, TypeOK', NEW s \in Sender, Mark(s)
  PROVE  AlertInv'
  <1>0. PICK k \in Month, u \in Threshold : k = sender[s].month /\ u = sender[s].threshold
    BY DEF AlertInv, TypeOK
  <1>1. k \in Month /\ u \in Threshold /\ Holds(s, k)
    BY <1>0 DEF Mark, Holds, AlertInv, TypeOK
  <1>2. /\ \A o \in Sender \ {s} : sender'[o] = sender[o]
        /\ sender'[s].at \in {"idle", "look"}
        /\ UNCHANGED <<told, failed>>
    BY OnwardFacts DEF Mark, AlertInv
  <1>3. \A m \in Month, t \in Threshold : t \in sent'[m] <=> t \in sent[m] \/ (m = k /\ t = u)
    BY <1>0, MarkedFacts DEF Mark, AlertInv
  <1>4. Alerted(k, u)'
    BY <1>1, <1>3 DEF Alerted
  <1>5. told'[k][u] <= failed'[k][u] + 1
    BY <1>1, <1>2 DEF AlertInv
  <1> QED BY <1>0, <1>1, <1>2, <1>3, <1>4, <1>5, HolderKeeps

LEMMA SendFailsKeeps ==
  ASSUME AlertInv, TypeOK', NEW s \in Sender, SendFails(s)
  PROVE  AlertInv'
  <1>0. PICK k \in Month, u \in Threshold : k = sender[s].month /\ u = sender[s].threshold
    BY DEF AlertInv, TypeOK
  <1>1. /\ k \in Month /\ u \in Threshold /\ Holds(s, k)
        /\ told[k][u] \in Nat /\ failed[k][u] \in Nat
    BY <1>0 DEF SendFails, Holds, AlertInv, TypeOK
  <1>2. /\ \A o \in Sender \ {s} : sender'[o] = sender[o]
        /\ sender'[s].at = "idle"
    BY DEF SendFails, Idle, AlertInv, TypeOK
  <1>3. \A m \in Month, t \in Threshold :
          failed'[m][t] = IF m = k /\ t = u THEN failed[m][t] + 1 ELSE failed[m][t]
    BY <1>0 DEF SendFails, AlertInv, TypeOK
  <1>4. /\ \A m \in Month, t \in Threshold :
             m # k \/ t # u => told'[m][t] = told[m][t] /\ (t \in sent'[m] <=> t \in sent[m])
        /\ \/ told'[k][u] = told[k][u]
           \/ sender[s].at = "send" /\ told'[k][u] = told[k][u] + 1
    <2>1. CASE UNCHANGED <<told, sent>>
      BY <2>1
    <2>2. CASE sender[s].at = "send" /\ Rings(s) /\ UNCHANGED sent
      BY <1>0, <1>1, <2>2, RingsFacts DEF AlertInv
    <2>3. CASE Marked(s) /\ UNCHANGED told
      BY <1>0, <1>1, <2>3, MarkedFacts DEF AlertInv
    <2> QED BY <2>1, <2>2, <2>3 DEF SendFails
  <1>5. sender[s].at = "send" => ~Alerted(k, u)
    <2> SUFFICES ASSUME sender[s].at = "send" PROVE ~Alerted(k, u)
      OBVIOUS
    <2>1. \A o \in Sender : ~Marks(o, k, u)
      BY <1>1 DEF Marks, Holds, AlertInv
    <2>2. u \notin sent[k]
      BY <1>0 DEF AlertInv
    <2> QED BY <2>1, <2>2 DEF Alerted
  <1>6. told'[k][u] <= failed'[k][u]
    BY <1>1, <1>3, <1>4, <1>5 DEF AlertInv
  <1>7. told'[k][u] <= failed'[k][u] + 1
    BY <1>1, <1>6 DEF TypeOK
  <1> QED BY <1>0, <1>1, <1>2, <1>3, <1>4, <1>6, <1>7, HolderKeeps

LEMMA AlertStep ==
  ASSUME AlertInv, [Next]_vars
  PROVE  AlertInv'
  <1>1. TypeOK'
    BY TypeStep DEF AlertInv
  <1>2. ASSUME UNCHANGED alertVars PROVE AlertInv'
    <2>1. \A s \in Sender, m \in Month : Holds(s, m)' <=> Holds(s, m)
      BY <1>2 DEF Holds, alertVars
    <2>2. \A m \in Month, t \in Threshold : Alerted(m, t)' <=> Alerted(m, t)
      BY <1>2 DEF Alerted, Marks, alertVars
    <2> QED BY <1>1, <1>2, <2>1, <2>2 DEF AlertInv, alertVars
  <1>3. ASSUME NEW s \in Sender, Start(s) PROVE AlertInv'
    <2>1. /\ \A o \in Sender \ {s} : sender'[o] = sender[o]
          /\ sender'[s].at = "look" /\ sender[s].at = "idle"
          /\ UNCHANGED <<sent, told, failed>>
      BY <1>3 DEF Start, AlertInv, TypeOK
    <2>2. \A o \in Sender, m \in Month : Holds(o, m)' <=> Holds(o, m)
      BY <2>1 DEF Holds
    <2>3. \A o \in Sender, m \in Month, t \in Threshold : Marks(o, m, t)' <=> Marks(o, m, t)
      BY <2>1 DEF Marks
    <2>4. \A m \in Month, t \in Threshold : Alerted(m, t)' <=> Alerted(m, t)
      BY <2>1, <2>3 DEF Alerted
    <2>5. \A o \in Sender : sender'[o].at = "send" => sender'[o] = sender[o]
      BY <2>1
    <2> QED BY <1>1, <2>1, <2>2, <2>4, <2>5 DEF AlertInv
  <1>4. ASSUME NEW s \in Sender, Send(s) \/ SendFails(s) PROVE AlertInv'
    BY <1>1, <1>4, LookKeeps, DeliverKeeps, MarkKeeps, SendFailsKeeps DEF Send
  <1>5. CASE Turn \/ Restart \/ UNCHANGED vars
    BY <1>2, <1>5 DEF Turn, Restart, vars
  <1>6. ASSUME NEW r \in Request, RequestStep(r) PROVE AlertInv'
    BY <1>2, <1>6 DEF RequestStep, Ask, Account, AccountFails, Capture, Upscaled, NoAnswer,
                      Finish, Persist, PersistFails
  <1> QED BY <1>3, <1>4, <1>5, <1>6 DEF Next

LEMMA InitAlerts ==
  ASSUME Init
  PROVE  AlertInv
  <1>1. TypeOK
    BY InitTypes
  <1>2. /\ \A s \in Sender : sender[s] = Idle
        /\ \A m \in Month, t \in Threshold : told[m][t] = 0 /\ failed[m][t] = 0
    BY DEF Init
  <1> QED BY <1>1, <1>2 DEF AlertInv, Holds, Idle

\* However many runs overlap, an alert goes out once, and once more only for each
\* failure between its message and its mark.
THEOREM AlertsGoOutOnce == Spec => []AlertOnce
  <1>1. ASSUME AlertInv PROVE AlertOnce
    <2>1. \A m \in Month, t \in Threshold : told[m][t] \in Nat /\ failed[m][t] \in Nat
      BY <1>1 DEF AlertInv, TypeOK
    <2> QED BY <1>1, <2>1 DEF AlertInv, AlertOnce
  <1> QED BY <1>1, InitAlerts, AlertStep, PTL DEF Spec
===============================================================================

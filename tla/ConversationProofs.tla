--------------------------- MODULE ConversationProofs ---------------------------
(*****************************************************************************)
(* Conversation for any owners and limits: its types, that no owner's words  *)
(* reach another, that nothing is kept twice but for a failed store, and     *)
(* that a draft in its owner's reach stays there until it is kept whole.     *)
(*****************************************************************************)
EXTENDS Conversation, FiniteSetTheorems, WellFoundedInduction, TLAPS

-----------------------------------------------------------------------------
(*****************************************************************************)
(* I. Sequences: what is left without some elements, and the last ones.      *)
(*****************************************************************************)

\* Induction up to n, over a set of numbers.
LEMMA UpTo ==
  ASSUME NEW n \in Nat, NEW G, 0 \in G, \A i \in 0..n : i < n /\ i \in G => i + 1 \in G
  PROVE  0..n \subseteq G
  <1> DEFINE B == {i \in 0..n : i \notin G}
             R == OpToRel(<, Nat)
  <1> SUFFICES ASSUME B # {} PROVE FALSE
    OBVIOUS
  <1>1. B \subseteq Nat
    OBVIOUS
  <1>2. PICK i \in B : \A v \in B : <<v, i>> \notin R
    <2> HIDE DEF B, R
    <2>1. \E i \in B : \A v \in B : <<v, i>> \notin OpToRel(<, Nat)
      BY <1>1, NatLessThanWellFounded, WFMin
    <2> QED BY <2>1 DEF R
  <1>3. i \in 0..n /\ i \notin G /\ i # 0 /\ i - 1 \in 0..n /\ i - 1 < i /\ i - 1 < n
    OBVIOUS
  <1>4. i - 1 \notin G
    BY <1>3
  <1>5. i - 1 \in B
    BY <1>3, <1>4
  <1>6. <<i - 1, i>> \in R
    <2>1. <<i - 1, i>> \in Nat \X Nat /\ <<i - 1, i>>[1] < <<i - 1, i>>[2]
      BY <1>3
    <2> QED BY <2>1, Zenon DEF OpToRel
  <1> QED BY <1>2, <1>5, <1>6

Distinct(seq) == \A i, j \in 1..Len(seq) : seq[i] = seq[j] => i = j

\* left is what Without computes of the first n elements.
Leaves(left, seq, out, n) ==
  left = [i \in 0..n |->
            IF i = 0 THEN <<>>
            ELSE IF seq[i] \in out THEN left[i - 1] ELSE Append(left[i - 1], seq[i])]

LEMMA LeavesFacts ==
  ASSUME NEW left, NEW seq, NEW out, NEW n \in Nat, Leaves(left, seq, out, n)
  PROVE  /\ left[0] = <<>>
         /\ \A i \in 1..n : left[i] = IF seq[i] \in out THEN left[i - 1]
                                      ELSE Append(left[i - 1], seq[i])
  <1> DEFINE F(i) == IF i = 0 THEN <<>>
                     ELSE IF seq[i] \in out THEN left[i - 1] ELSE Append(left[i - 1], seq[i])
  <1>1. left = [i \in 0..n |-> F(i)]
    BY DEF Leaves
  <1>2. \A i \in 0..n : left[i] = F(i)
    <2> HIDE DEF F
    <2> QED BY <1>1
  <1>3. 0 \in 0..n /\ \A i \in 1..n : i \in 0..n /\ i # 0
    OBVIOUS
  <1> QED BY <1>2, <1>3

LEMMA LeavesExists ==
  ASSUME NEW seq, NEW out, NEW n \in Nat
  PROVE  \E left : Leaves(left, seq, out, n)
  <1> DEFINE G == {k \in 0..n : \E left : Leaves(left, seq, out, k)}
  <1>1. 0 \in G
    <2> DEFINE left == [i \in 0..0 |-> <<>>]
    <2>1. Leaves(left, seq, out, 0)
      BY DEF Leaves
    <2> HIDE DEF left
    <2> QED BY <2>1
  <1>2. ASSUME NEW k \in 0..n, k < n, k \in G PROVE k + 1 \in G
    <2>1. PICK left : Leaves(left, seq, out, k)
      BY <1>2
    <2> DEFINE next == IF seq[k + 1] \in out THEN left[k] ELSE Append(left[k], seq[k + 1])
               more == [i \in 0..k + 1 |-> IF i = k + 1 THEN next ELSE left[i]]
               F(i) == IF i = 0 THEN <<>>
                       ELSE IF seq[i] \in out THEN more[i - 1] ELSE Append(more[i - 1], seq[i])
    <2>2. left[0] = <<>> /\ \A i \in 1..k : left[i] = IF seq[i] \in out THEN left[i - 1]
                                                      ELSE Append(left[i - 1], seq[i])
      BY <2>1, LeavesFacts
    <2>3. ASSUME NEW i \in 0..k + 1 PROVE more[i] = F(i)
      <3>1. CASE i = 0
        BY <2>2, <3>1
      <3>2. CASE i \in 1..k
        <4>1. more[i] = left[i] /\ more[i - 1] = left[i - 1] /\ i # 0
          BY <3>2
        <4> HIDE DEF more
        <4> QED BY <2>2, <3>2, <4>1
      <3>3. CASE i = k + 1
        <4>1. more[i] = next /\ more[i - 1] = left[k] /\ i # 0
          BY <3>3
        <4> HIDE DEF more
        <4> QED BY <3>3, <4>1
      <3> QED BY <3>1, <3>2, <3>3
    <2>4. more = [i \in 0..k + 1 |-> F(i)]
      <3>1. more = [i \in 0..k + 1 |-> more[i]]
        OBVIOUS
      <3> HIDE DEF more, F
      <3> QED BY <2>3, <3>1
    <2>5. Leaves(more, seq, out, k + 1)
      <3> HIDE DEF more
      <3> QED BY <2>4 DEF Leaves
    <2> HIDE DEF more
    <2> QED BY <1>2, <2>5
  <1> HIDE DEF G
  <1>3. n \in G
    BY <1>1, <1>2, UpTo
  <1> QED BY <1>3 DEF G

\* Without keeps what is not out, in its order and no more often.
LEMMA WithoutFacts ==
  ASSUME NEW S, NEW seq \in Seq(S), NEW out
  PROVE  /\ Without(seq, out) \in Seq(S)
         /\ Elements(Without(seq, out)) = Elements(seq) \ out
         /\ Len(Without(seq, out)) <= Len(seq)
         /\ Elements(seq) \cap out # {} => Len(Without(seq, out)) < Len(seq)
         /\ Elements(seq) \cap out = {} => Without(seq, out) = seq
         /\ Distinct(seq) => Distinct(Without(seq, out))
  <1> DEFINE n == Len(seq)
             left == CHOOSE F : Leaves(F, seq, out, n)
  <1>1. n \in Nat /\ Without(seq, out) = left[n]
    BY DEF Without, Leaves
  <1>2. Leaves(left, seq, out, n)
    BY <1>1, LeavesExists
  <1> HIDE DEF left
  <1>3. left[0] = <<>> /\ \A i \in 1..n : left[i] = IF seq[i] \in out THEN left[i - 1]
                                                    ELSE Append(left[i - 1], seq[i])
    BY <1>1, <1>2, LeavesFacts
  <1> DEFINE In(k) == {seq[i] : i \in 1..k}
             P(k) == /\ left[k] \in Seq(S) /\ Len(left[k]) <= k
                     /\ \A x : (\E i \in 1..Len(left[k]) : left[k][i] = x) <=> x \in In(k) \ out
                     /\ In(k) \cap out # {} => Len(left[k]) < k
                     /\ In(k) \cap out = {} =>
                          Len(left[k]) = k /\ \A i \in 1..k : left[k][i] = seq[i]
                     /\ Distinct(seq) => Distinct(left[k])
             G == {k \in 0..n : P(k)}
  <1>4. P(0)
    <2>1. left[0] = <<>> /\ Len(<<>>) = 0
      BY <1>3
    <2> QED BY <2>1 DEF Distinct
  <1>5. ASSUME NEW k \in 0..n, k < n, P(k) PROVE P(k + 1)
    <2> DEFINE x == seq[k + 1]
    <2>1. /\ k + 1 \in 1..n /\ x \in S /\ k \in Nat
          /\ left[k + 1] = IF x \in out THEN left[k] ELSE Append(left[k], x)
      BY <1>1, <1>3, <1>5
    <2>2. \A y : y \in In(k + 1) <=> y \in In(k) \/ y = x
      <3>1. \A i : i \in 1..k + 1 <=> i \in 1..k \/ i = k + 1
        BY <2>1
      <3> QED BY <3>1
    <2>3. CASE x \in out
      <3>1. left[k + 1] = left[k] /\ In(k + 1) \cap out # {} /\ Len(left[k]) < k + 1
        BY <1>5, <2>1, <2>2, <2>3
      <3>2. \A y : y \in In(k + 1) \ out <=> y \in In(k) \ out
        BY <2>2, <2>3
      <3>3. \A y : (\E i \in 1..Len(left[k + 1]) : left[k + 1][i] = y) <=> y \in In(k + 1) \ out
        <4> HIDE DEF In
        <4> QED BY <1>5, <3>1, <3>2
      <3>4. left[k + 1] \in Seq(S) /\ Len(left[k + 1]) <= k + 1
        BY <1>5, <2>1, <3>1
      <3> HIDE DEF In
      <3> QED BY <1>5, <3>1, <3>3, <3>4
    <2>4. CASE x \notin out
      <3>1. left[k + 1] = Append(left[k], x)
        BY <2>1, <2>4
      <3> DEFINE m == Len(left[k])
      <3>2. /\ left[k + 1] \in Seq(S) /\ Len(left[k + 1]) = m + 1 /\ m \in Nat
            /\ left[k + 1][m + 1] = x /\ \A i \in 1..m : left[k + 1][i] = left[k][i]
        BY <1>5, <2>1, <3>1
      <3>3. \A i : i \in 1..m + 1 <=> i \in 1..m \/ i = m + 1
        BY <3>2
      <3>4. \A y : (\E i \in 1..Len(left[k + 1]) : left[k + 1][i] = y) <=> y \in In(k + 1) \ out
        <4>1. \A y : (\E i \in 1..Len(left[k + 1]) : left[k + 1][i] = y)
                       <=> (\E i \in 1..m : left[k][i] = y) \/ y = x
          BY <3>2, <3>3
        <4>2. \A y : y \in In(k + 1) \ out <=> y \in In(k) \ out \/ y = x
          BY <2>2, <2>4
        <4> QED BY <1>5, <4>1, <4>2
      <3>5. In(k + 1) \cap out # {} <=> In(k) \cap out # {}
        BY <2>2, <2>4
      <3>6. In(k) \cap out = {} => \A i \in 1..k + 1 : left[k + 1][i] = seq[i]
        <4> SUFFICES ASSUME In(k) \cap out = {}, NEW i \in 1..k + 1 PROVE left[k + 1][i] = seq[i]
          OBVIOUS
        <4>1. m = k /\ \A j \in 1..k : left[k][j] = seq[j]
          BY <1>5
        <4>2. CASE i = k + 1
          BY <3>2, <4>1, <4>2
        <4>3. CASE i \in 1..k
          BY <3>2, <4>1, <4>3
        <4>4. i = k + 1 \/ i \in 1..k
          BY <2>1
        <4> QED BY <4>2, <4>3, <4>4
      <3>7. Distinct(seq) => Distinct(left[k + 1])
        <4> SUFFICES ASSUME Distinct(seq), NEW i \in 1..m + 1, NEW j \in 1..m + 1,
                            left[k + 1][i] = left[k + 1][j]
                     PROVE  i = j
          BY <3>2 DEF Distinct
        <4>1. ASSUME NEW p \in 1..m, left[k][p] = x PROVE FALSE
          <5>1. x \in In(k)
            BY <1>5, <4>1
          <5>2. PICK q \in 1..k : seq[q] = x
            BY <5>1
          <5>3. q \in 1..n /\ q # k + 1
            BY <1>1, <1>5, <5>2
          <5> QED BY <1>1, <2>1, <5>2, <5>3 DEF Distinct
        <4>2. \A p, q \in 1..m : left[k][p] = left[k][q] => p = q
          BY <1>5 DEF Distinct
        <4> QED BY <3>2, <3>3, <4>1, <4>2
      <3> HIDE DEF In
      <3> QED BY <1>5, <2>1, <3>2, <3>4, <3>5, <3>6, <3>7
    <2> QED BY <2>3, <2>4
  <1>6. n \in G
    <2>1. 0 \in G
      BY <1>1, <1>4
    <2>2. ASSUME NEW k \in 0..n, k < n, k \in G PROVE k + 1 \in G
      <3>1. P(k) /\ k + 1 \in 0..n
        BY <1>1, <2>2
      <3>2. P(k + 1)
        <4> HIDE DEF P
        <4> QED BY <1>5, <2>2, <3>1
      <3> HIDE DEF P
      <3> QED BY <3>1, <3>2
    <2> HIDE DEF G
    <2>3. 0..n \subseteq G
      BY <1>1, <2>1, <2>2, UpTo
    <2> QED BY <1>1, <2>3
  <1>7. P(n)
    BY <1>6
  <1>8. Elements(seq) = In(n) /\ Elements(left[n]) = {left[n][i] : i \in 1..Len(left[n])}
    BY DEF Elements
  <1>9. Elements(left[n]) = In(n) \ out
    <2>1. \A x : x \in Elements(left[n]) <=> \E i \in 1..Len(left[n]) : left[n][i] = x
      BY <1>8
    <2> HIDE DEF In
    <2> QED BY <1>7, <2>1
  <1>10. In(n) \cap out = {} => left[n] = seq
    BY <1>7
  <1> QED BY <1>1, <1>7, <1>8, <1>9, <1>10

LEMMA AppendFacts ==
  ASSUME NEW S, NEW seq \in Seq(S), NEW x \in S
  PROVE  /\ Append(seq, x) \in Seq(S) /\ Len(Append(seq, x)) = Len(seq) + 1
         /\ Append(seq, x)[Len(seq) + 1] = x
         /\ \A i \in 1..Len(seq) : Append(seq, x)[i] = seq[i]
         /\ Elements(Append(seq, x)) = Elements(seq) \cup {x}
         /\ Distinct(seq) /\ x \notin Elements(seq) => Distinct(Append(seq, x))
  <1> DEFINE n == Len(seq)
             s == Append(seq, x)
  <1>1. /\ s \in Seq(S) /\ Len(s) = n + 1 /\ n \in Nat /\ s[n + 1] = x
        /\ \A i \in 1..n : s[i] = seq[i]
    OBVIOUS
  <1>2. \A i : i \in 1..n + 1 <=> i \in 1..n \/ i = n + 1
    BY <1>1
  <1> HIDE DEF s, n
  <1>3. \A y : y \in Elements(s) <=> (\E i \in 1..n : seq[i] = y) \/ y = x
    BY <1>1, <1>2 DEF Elements
  <1>4. \A y : y \in Elements(seq) <=> \E i \in 1..n : seq[i] = y
    BY DEF Elements, n
  <1>5. Elements(s) = Elements(seq) \cup {x}
    BY <1>3, <1>4
  <1>6. ASSUME Distinct(seq), x \notin Elements(seq) PROVE Distinct(s)
    <2>1. \A i \in 1..n : seq[i] # x
      BY <1>4, <1>6
    <2>2. \A i, j \in 1..n : seq[i] = seq[j] => i = j
      BY <1>6 DEF Distinct, n
    <2> QED BY <1>1, <1>2, <2>1, <2>2 DEF Distinct
  <1> QED BY <1>1, <1>5, <1>6 DEF s, n

\* The last ones are no more than n; only the first of n + 1 is not among them.
LEMMA LastOfFacts ==
  ASSUME NEW S, NEW seq \in Seq(S), NEW n \in Nat \ {0}
  PROVE  /\ LastOf(seq, n) \in Seq(S) /\ Len(LastOf(seq, n)) <= n
         /\ Elements(LastOf(seq, n)) \subseteq Elements(seq)
         /\ Len(seq) <= n => LastOf(seq, n) = seq
         /\ Len(seq) > 0 => seq[Len(seq)] \in Elements(LastOf(seq, n))
         /\ Len(seq) > 0 => LastOf(seq, n)[Len(LastOf(seq, n))] = seq[Len(seq)]
         /\ Len(seq) <= n + 1 => Elements(seq) \subseteq Elements(LastOf(seq, n)) \cup {seq[1]}
         /\ Distinct(seq) => Distinct(LastOf(seq, n))
  <1> DEFINE m == Len(seq)
             s == LastOf(seq, n)
  <1>1. m \in Nat
    OBVIOUS
  <1>2. CASE m <= n
    <2>1. s = SubSeq(seq, 1, m)
      <3>1. ~(Len(seq) > n)
        BY <1>1, <1>2
      <3>2. (IF Len(seq) > n THEN Len(seq) - n + 1 ELSE 1) = 1
        BY <3>1
      <3> QED BY <3>2 DEF LastOf
    <2>2. s = seq
      BY <2>1
    <2>3. Len(seq) > 0 => seq[Len(seq)] \in Elements(seq)
      BY <1>1 DEF Elements
    <2> QED BY <1>1, <1>2, <2>2, <2>3
  <1>3. CASE m > n
    <2>1. s = SubSeq(seq, m - n + 1, m)
      BY <1>3 DEF LastOf
    <2>2. /\ s \in Seq(S) /\ Len(s) = n
          /\ \A i \in 1..n : s[i] = seq[m - n + i]
      BY <1>1, <1>3, <2>1
    <2>3. \A i \in 1..n : m - n + i \in 1..m
      BY <1>1, <1>3
    <2> HIDE DEF s
    <2>4. Elements(s) \subseteq Elements(seq)
      BY <2>2, <2>3 DEF Elements
    <2>5. seq[m] \in Elements(s)
      <3>1. n \in 1..n /\ m - n + n = m
        BY <1>1
      <3>2. s[n] = seq[m]
        BY <2>2, <3>1
      <3> QED BY <2>2, <3>1, <3>2 DEF Elements
    <2>9. s[Len(s)] = seq[m]
      <3>1. n \in 1..n /\ m - n + n = m
        BY <1>1
      <3> QED BY <2>2, <3>1
    <2>6. ASSUME m <= n + 1, NEW j \in 1..m, j # 1 PROVE seq[j] \in Elements(s)
      <3>1. m = n + 1 /\ j - 1 \in 1..n /\ m - n + (j - 1) = j
        BY <1>1, <1>3, <2>6
      <3>2. s[j - 1] = seq[j]
        BY <2>2, <3>1
      <3> QED BY <2>2, <3>1, <3>2 DEF Elements
    <2>7. ASSUME Distinct(seq) PROVE Distinct(s)
      <3> SUFFICES ASSUME NEW i \in 1..n, NEW j \in 1..n, s[i] = s[j] PROVE i = j
        BY <2>2 DEF Distinct
      <3>1. seq[m - n + i] = seq[m - n + j]
        BY <2>2
      <3>2. m - n + i = m - n + j
        BY <2>3, <2>7, <3>1 DEF Distinct
      <3> QED BY <1>1, <3>2
    <2>8. m <= n + 1 => Elements(seq) \subseteq Elements(s) \cup {seq[1]}
      <3>1. m <= n + 1 => \A j \in 1..m : seq[j] \in Elements(s) \cup {seq[1]}
        BY <2>6
      <3> QED BY <3>1 DEF Elements
    <2> QED BY <1>1, <1>3, <2>2, <2>4, <2>5, <2>7, <2>8, <2>9 DEF s
  <1> QED BY <1>1, <1>2, <1>3

LEMMA DistinctCardinality ==
  ASSUME NEW S, NEW seq \in Seq(S), Distinct(seq)
  PROVE  IsFiniteSet(Elements(seq)) /\ Cardinality(Elements(seq)) = Len(seq)
  <1> DEFINE D == 1..Len(seq)
  <1>1. IsFiniteSet(D) /\ Cardinality(D) = Len(seq)
    <2>1. Len(seq) \in Nat /\ 1 \in Int /\ Len(seq) \in Int
      OBVIOUS
    <2>2. IsFiniteSet(D) /\ Cardinality(D) = IF 1 > Len(seq) THEN 0 ELSE Len(seq) - 1 + 1
      BY <2>1, FS_Interval
    <2>3. (IF 1 > Len(seq) THEN 0 ELSE Len(seq) - 1 + 1) = Len(seq)
      BY <2>1
    <2> QED BY <2>2, <2>3
  <1>2. seq = [i \in D |-> seq[i]]
    OBVIOUS
  <1>3. seq \in Bijection(D, Elements(seq))
    <2>1. seq \in [D -> Elements(seq)]
      BY <1>2 DEF Elements
    <2>2. \A i, j \in D : seq[i] = seq[j] => i = j
      BY DEF Distinct
    <2>3. \A x \in Elements(seq) : \E i \in D : seq[i] = x
      BY DEF Elements
    <2> HIDE DEF D
    <2> QED BY <2>1, <2>2, <2>3 DEF Bijection, Injection, Surjection, IsInjective
  <1> HIDE DEF D
  <1> QED BY <1>1, <1>3, FS_Bijection DEF ExistsBijection

-----------------------------------------------------------------------------
(*****************************************************************************)
(* II. The memory: its types, and what a lookup finds in it.                 *)
(*****************************************************************************)

Draft   == {NoDraft} \cup [text : Nat \ {0}, replies : Seq(Nat), questions : Nat]
Episode == [fresh : BOOLEAN, turns : 0..TurnLimit, draft : Draft]
Reply   == [owner : Owner, key : Nat]

MemoryInv ==
  /\ serial \in Nat /\ Live \subseteq 1..serial
  /\ episodes \in [Live -> Episode]
  /\ recent \in Seq(Nat) /\ Elements(recent) = Live
  /\ Distinct(recent) /\ Len(recent) <= EpisodeLimit
  /\ active \in [Owner -> Nat] /\ \A o \in Owner : active[o] <= serial
  /\ replies \in Seq(Reply) /\ Len(replies) <= ReplyLimit
  /\ \A r \in Elements(replies) : r.key \in 1..serial
  /\ from \in Seq(Owner) /\ items \in Seq(Seq(Nat)) /\ halfway \in Nat
  /\ ready \in BOOLEAN /\ young \in BOOLEAN

\* The lookup went on with an episode of o's.
OldEpisode(o, f) ==
  /\ f.serial = serial /\ f.key \in Live
  /\ DOMAIN f.episodes = Live /\ f.episodes[f.key] = episodes[f.key]
  /\ f.key = active[o] \/ \E r \in Elements(replies) : r.owner = o /\ r.key = f.key

\* It made a new one, and the least recently used of too many went.
NewEpisode(f) ==
  /\ f.serial = serial + 1 /\ f.key = serial + 1
  /\ f.episodes[f.key].draft = NoDraft
  /\ \A k \in Live :
       \/ k \in DOMAIN f.episodes
       \/ k = Head(recent) /\ Cardinality(Live) = EpisodeLimit

Lookup(o, f) ==
  /\ f.serial \in Nat /\ f.key \in DOMAIN f.episodes
  /\ DOMAIN f.episodes \subseteq 1..f.serial
  /\ f.episodes \in [DOMAIN f.episodes -> Episode]
  /\ f.recent \in Seq(Nat) /\ Elements(f.recent) = DOMAIN f.episodes
  /\ Distinct(f.recent) /\ Len(f.recent) <= EpisodeLimit
  /\ f.recent[Len(f.recent)] = f.key
  /\ \A k \in DOMAIN f.episodes \ {f.key} : k \in Live /\ f.episodes[k] = episodes[k]
  /\ OldEpisode(o, f) \/ NewEpisode(f)

LEMMA NoDraftFacts ==
  /\ NoDraft \in Draft
  /\ \A b \in BOOLEAN : [fresh |-> b, turns |-> 0, draft |-> NoDraft] \in Episode
  <1>1. 0 \in 0..TurnLimit
    BY LimitAssumption
  <1> QED BY <1>1 DEF Draft, Episode

\* A message goes on with a live episode that is its owner's, or with none.
LEMMA ContinuesFacts ==
  ASSUME MemoryInv, NEW o \in Owner, NEW reply \in Replyable(o),
         NEW new \in BOOLEAN, NEW follows \in BOOLEAN
  PROVE  LET k == Continues(o, reply, new, follows) IN
         \/ k = 0
         \/ k \in Live /\ (k = active[o] \/ \E r \in Elements(replies) : r.owner = o /\ r.key = k)
  <1> DEFINE replied == IF reply # 0 /\ ~new THEN replies[reply].key ELSE 0
             open    == IF new THEN 0 ELSE active[o]
             k       == Continues(o, reply, new, follows)
  <1>1. 0 \notin Live
    BY DEF MemoryInv
  <1>2. k \in {0, replied, open} /\ (k = replied => k = 0 \/ k \in Live)
                                 /\ (k = open => k = 0 \/ k \in Live)
    BY <1>1 DEF Continues
  <1>3. CASE k = replied /\ k # 0
    <2>1. reply # 0 /\ reply \in 1..Len(replies) /\ replies[reply].owner = o
      BY <1>3 DEF Replyable
    <2>2. k = replies[reply].key /\ replies[reply] \in Elements(replies)
      BY <1>3, <2>1 DEF Elements
    <2> QED BY <1>2, <1>3, <2>1, <2>2
  <1>4. CASE k = open /\ k # 0
    <2>1. k = active[o]
      BY <1>4
    <2> QED BY <1>2, <1>4, <2>1
  <1> QED BY <1>2, <1>3, <1>4

LEMMA FoundFacts ==
  ASSUME MemoryInv, NEW o \in Owner, NEW reply \in Replyable(o),
         NEW new \in BOOLEAN, NEW follows \in BOOLEAN
  PROVE  \E f : f = Found(o, reply, new, follows) /\ Lookup(o, f)
  <1> DEFINE k    == Continues(o, reply, new, follows)
             key  == IF k = 0 THEN NewKey ELSE k
             rest == Without(recent, {key})
             used == LastOf(Append(rest, key), EpisodeLimit)
             all  == IF k = 0
                     THEN [e \in Live \cup {key} |->
                            IF e = key THEN [fresh |-> young, turns |-> 0, draft |-> NoDraft]
                                       ELSE episodes[e]]
                     ELSE episodes
             eps  == [e \in Elements(used) |-> all[e]]
             ser  == IF k = 0 THEN key ELSE serial
  <1>1. /\ serial \in Nat /\ Live \subseteq 1..serial /\ recent \in Seq(Nat)
        /\ Elements(recent) = Live /\ Distinct(recent) /\ Len(recent) <= EpisodeLimit
        /\ episodes \in [Live -> Episode] /\ young \in BOOLEAN
    BY DEF MemoryInv
  <1>2. \/ k = 0
        \/ k \in Live /\ (k = active[o] \/ \E r \in Elements(replies) : r.owner = o /\ r.key = k)
    BY ContinuesFacts
  <1>3. k = 0 \/ k \in Live
    BY <1>2
  <1> HIDE DEF k
  <1>4. /\ key \in Nat /\ (k = 0 => key = serial + 1 /\ key \notin Live)
        /\ (k # 0 => key = k /\ key \in Live)
    <2>1. CASE k = 0
      <3>1. key = serial + 1
        BY <2>1 DEF NewKey
      <3> HIDE DEF key
      <3> QED BY <1>1, <2>1, <3>1
    <2>2. CASE k # 0
      <3>1. key = k
        BY <2>2
      <3>2. serial \in Nat /\ Live \subseteq 1..serial /\ k \in Live
        BY <1>1, <1>3, <2>2
      <3>3. k \in Nat
        BY <3>2
      <3> HIDE DEF key
      <3> QED BY <2>2, <3>1, <3>2, <3>3
    <2> QED BY <2>1, <2>2
  <1> HIDE DEF key
  <1>5. /\ rest \in Seq(Nat) /\ Elements(rest) = Live \ {key} /\ Distinct(rest)
        /\ Len(rest) <= Len(recent)
        /\ k = 0 => rest = recent
        /\ k # 0 => Len(rest) < Len(recent)
    BY <1>1, <1>4, WithoutFacts
  <1> HIDE DEF rest
  <1> DEFINE s == Append(rest, key)
  <1>6. /\ s \in Seq(Nat) /\ Len(s) = Len(rest) + 1 /\ s[Len(s)] = key
        /\ \A i \in 1..Len(rest) : s[i] = rest[i]
        /\ Elements(s) = (Live \ {key}) \cup {key} /\ Distinct(s)
    BY <1>4, <1>5, AppendFacts
  <1>7. EpisodeLimit \in Nat \ {0} /\ Len(recent) \in Nat /\ Len(rest) \in Nat
    BY <1>1, <1>5, LimitAssumption
  <1> HIDE DEF s
  <1>8. /\ used \in Seq(Nat) /\ Len(used) <= EpisodeLimit /\ Distinct(used)
        /\ Elements(used) \subseteq Live \cup {key}
        /\ key \in Elements(used) /\ used[Len(used)] = key
        /\ Elements(s) \subseteq Elements(used) \cup {s[1]}
        /\ Len(s) <= EpisodeLimit => used = s
    <2>1. used = LastOf(s, EpisodeLimit)
      BY DEF s
    <2>2. Len(s) > 0 /\ Len(s) <= EpisodeLimit + 1
      BY <1>1, <1>5, <1>6, <1>7
    <2> HIDE DEF used
    <2> QED BY <1>6, <1>7, <2>1, <2>2, LastOfFacts
  <1> HIDE DEF used
  <1>9. all \in [Live \cup {key} -> Episode]
    <2>1. [fresh |-> young, turns |-> 0, draft |-> NoDraft] \in Episode
      BY <1>1, NoDraftFacts
    <2> QED BY <1>1, <1>4, <2>1
  <1>10. /\ DOMAIN eps = Elements(used) /\ eps \in [Elements(used) -> Episode]
         /\ \A e \in Elements(used) : eps[e] = all[e]
    <2> HIDE DEF all
    <2> QED BY <1>8, <1>9
  <1>11. \A e \in Elements(used) \ {key} : e \in Live /\ eps[e] = episodes[e]
    BY <1>8, <1>10
  <1>12. k = 0 => all[key].draft = NoDraft
    BY <1>4
  <1>13. k # 0 => all = episodes
    OBVIOUS
  <1> HIDE DEF all, eps
  <1> DEFINE f == [key |-> key, recent |-> used, episodes |-> eps, serial |-> ser]
  <1>14. f = Found(o, reply, new, follows)
    BY DEF Found, key, used, rest, eps, all, k
  <1>15. ser \in Nat /\ Elements(used) \subseteq 1..ser
    <2>1. CASE k = 0
      <3>1. ser = serial + 1 /\ key = serial + 1
        BY <1>4, <2>1
      <3>2. serial \in Nat /\ Elements(used) \subseteq 1..serial \cup {serial + 1}
        BY <1>1, <1>8, <3>1
      <3>3. \A i \in 1..serial \cup {serial + 1} : i \in 1..serial + 1
        BY <3>2
      <3> HIDE DEF ser
      <3> QED BY <3>1, <3>2, <3>3
    <2>2. CASE k # 0
      <3>1. ser = serial /\ key \in Live
        BY <1>4, <2>2
      <3>2. serial \in Nat /\ Live \subseteq 1..serial /\ Elements(used) \subseteq Live
        BY <1>1, <1>8, <3>1
      <3> HIDE DEF ser
      <3> QED BY <3>1, <3>2
    <2> QED BY <2>1, <2>2
  <1>16. CASE k = 0
    <2>1. ser = serial + 1 /\ key = serial + 1 /\ eps[key].draft = NoDraft
      BY <1>4, <1>8, <1>10, <1>12, <1>16
    <2>2. ASSUME NEW e \in Live, e \notin Elements(used)
          PROVE  e = Head(recent) /\ Cardinality(Live) = EpisodeLimit
      <3>1. e \in Elements(s)
        BY <1>6, <2>2
      <3>2. e = s[1] /\ Len(s) > EpisodeLimit
        BY <1>7, <1>6, <1>8, <2>2, <3>1
      <3>3. Len(recent) = EpisodeLimit /\ Len(recent) \in 1..Len(rest) /\ 1 \in 1..Len(rest)
        BY <1>1, <1>5, <1>6, <1>7, <1>16, <3>2
      <3>4. s[1] = recent[1]
        BY <1>5, <1>6, <1>16, <3>3
      <3>5. Head(recent) = recent[1]
        BY <1>1, <3>3
      <3>6. Cardinality(Live) = Len(recent)
        BY <1>1, DistinctCardinality
      <3> QED BY <3>2, <3>3, <3>4, <3>5, <3>6
    <2>3. NewEpisode(f)
      <3>1. /\ f.serial = serial + 1 /\ f.key = serial + 1
            /\ f.episodes = eps /\ f.key = key /\ DOMAIN f.episodes = Elements(used)
        BY <1>10, <2>1
      <3> HIDE DEF f
      <3>2. f.episodes[f.key].draft = NoDraft
        BY <2>1, <3>1
      <3>3. \A e \in Live : \/ e \in DOMAIN f.episodes
                            \/ e = Head(recent) /\ Cardinality(Live) = EpisodeLimit
        BY <2>2, <3>1
      <3> QED BY <3>1, <3>2, <3>3 DEF NewEpisode
    <2> QED BY <1>8, <1>10, <1>11, <1>14, <1>15, <2>3 DEF Lookup
  <1>17. CASE k # 0
    <2>1. ser = serial /\ key = k /\ key \in Live
      BY <1>4, <1>17
    <2>2. used = s
      BY <1>1, <1>5, <1>6, <1>7, <1>8, <1>17
    <2>3. Elements(used) = Live
      BY <1>6, <2>1, <2>2
    <2>4. eps[key] = episodes[key]
      BY <1>10, <1>13, <1>17, <2>1, <2>3
    <2>5. OldEpisode(o, f)
      BY <1>2, <1>10, <1>17, <2>1, <2>3, <2>4 DEF OldEpisode
    <2> QED BY <1>8, <1>10, <1>11, <1>14, <1>15, <2>5 DEF Lookup
  <1> QED BY <1>16, <1>17

-----------------------------------------------------------------------------
(*****************************************************************************)
(* III. What a message does, and the types.                                  *)
(*****************************************************************************)

\* The messages that a draft d is made of.
Spoken(d) == IF d = NoDraft THEN <<>> ELSE <<d.text>> \o d.replies

\* The same with the new message, for the draft that a lookup found.
Grown(f) == Append(Spoken(f.episodes[f.key].draft), This)

LEMMA SpokenFacts ==
  ASSUME NEW d \in Draft
  PROVE  Spoken(d) \in Seq(Nat) /\ (d # NoDraft => Spoken(d) # <<>> /\ d.text \in Nat \ {0})
  <1>1. CASE d = NoDraft
    BY <1>1 DEF Spoken
  <1>2. CASE d # NoDraft
    <2>1. d \in [text : Nat \ {0}, replies : Seq(Nat), questions : Nat]
      BY <1>2 DEF Draft
    <2>2. d.text \in Nat \ {0} /\ d.replies \in Seq(Nat)
      BY <2>1
    <2>3. <<d.text>> \o d.replies \in Seq(Nat) /\ <<d.text>> \o d.replies # <<>>
      BY <2>2
    <2> QED BY <1>2, <2>2, <2>3 DEF Spoken
  <1> QED BY <1>1, <1>2

LEMMA ConcatAppend ==
  ASSUME NEW t \in Nat \ {0}, NEW s \in Seq(Nat), NEW x \in Nat \ {0}
  PROVE  <<t>> \o Append(s, x) = Append(<<t>> \o s, x)
  <1> DEFINE a == <<t>> \o Append(s, x)
             b == Append(<<t>> \o s, x)
  <1>1. /\ a \in Seq(Nat) /\ Len(a) = Len(s) + 2 /\ a[1] = t
        /\ \A i \in 1..Len(s) + 1 : a[i + 1] = Append(s, x)[i]
    OBVIOUS
  <1>2. /\ b \in Seq(Nat) /\ Len(b) = Len(s) + 2 /\ b[1] = t /\ b[Len(s) + 2] = x
        /\ \A i \in 1..Len(s) : b[i + 1] = s[i]
    OBVIOUS
  <1>3. /\ Append(s, x)[Len(s) + 1] = x /\ Len(s) \in Nat
        /\ \A i \in 1..Len(s) : Append(s, x)[i] = s[i]
    OBVIOUS
  <1> HIDE DEF a, b
  <1>4. ASSUME NEW i \in 1..Len(s) + 2 PROVE a[i] = b[i]
    <2>1. CASE i = 1
      BY <1>1, <1>2, <2>1
    <2>2. CASE i - 1 \in 1..Len(s)
      <3>1. i - 1 \in 1..Len(s) + 1 /\ (i - 1) + 1 = i
        BY <1>3, <2>2
      <3>2. a[i] = Append(s, x)[i - 1] /\ b[i] = s[i - 1]
        BY <1>1, <1>2, <2>2, <3>1
      <3> QED BY <1>3, <2>2, <3>2
    <2>3. CASE i = Len(s) + 2
      <3>1. Len(s) + 1 \in 1..Len(s) + 1 /\ (Len(s) + 1) + 1 = Len(s) + 2
        BY <1>3
      <3> QED BY <1>1, <1>2, <1>3, <2>3, <3>1
    <2>4. i = 1 \/ i - 1 \in 1..Len(s) \/ i = Len(s) + 2
      BY <1>3
    <2> QED BY <2>1, <2>2, <2>3, <2>4
  <1>5. a = b
    BY <1>1, <1>2, <1>4
  <1> QED BY <1>5 DEF a, b

LEMMA DraftedFacts ==
  ASSUME NEW f, f.episodes[f.key] \in Episode, from \in Seq(Owner)
  PROVE  /\ Drafted(f) \in Draft /\ Spoken(Drafted(f)) = Grown(f)
         /\ [Drafted(f) EXCEPT !.questions = @ + 1] \in Draft
         /\ Spoken([Drafted(f) EXCEPT !.questions = @ + 1]) = Grown(f)
         /\ <<Drafted(f).text>> \o Drafted(f).replies = Grown(f)
         /\ Grown(f) \in Seq(Nat)
  <1> DEFINE d == f.episodes[f.key].draft
             n == Drafted(f)
             q == [n EXCEPT !.questions = @ + 1]
  <1>1. d \in Draft
    <2> DEFINE e == f.episodes[f.key]
    <2>1. e \in Episode
      OBVIOUS
    <2> HIDE DEF e
    <2>2. e.draft \in Draft
      BY <2>1 DEF Episode
    <2> QED BY <2>2 DEF e
  <1>2. This \in Nat \ {0}
    BY DEF This
  <1>3. /\ n \in [text : Nat \ {0}, replies : Seq(Nat), questions : Nat]
        /\ <<n.text>> \o n.replies = Append(Spoken(d), This)
    <2>1. CASE d = NoDraft
      <3>1. n = [text |-> This, replies |-> <<>>, questions |-> 0]
        BY <2>1 DEF Drafted, NoDraft
      <3>2. Spoken(d) = <<>>
        BY <2>1 DEF Spoken
      <3> HIDE DEF n, d
      <3>3. n \in [text : Nat \ {0}, replies : Seq(Nat), questions : Nat]
        BY <1>2, <3>1
      <3>4. n.text = This /\ n.replies = <<>>
        BY <3>1
      <3>5. <<This>> \o <<>> = Append(<<>>, This)
        BY <1>2
      <3> QED BY <3>2, <3>3, <3>4, <3>5
    <2>2. CASE d # NoDraft
      <3>1. d \in [text : Nat \ {0}, replies : Seq(Nat), questions : Nat]
        BY <1>1, <2>2 DEF Draft
      <3>2. n = [d EXCEPT !.replies = Append(@, This)]
        BY <2>2 DEF Drafted
      <3>3. Spoken(d) = <<d.text>> \o d.replies
        BY <2>2 DEF Spoken
      <3> HIDE DEF n, d
      <3>4. d.text \in Nat \ {0} /\ d.replies \in Seq(Nat) /\ d.questions \in Nat
        BY <3>1
      <3>5. Append(d.replies, This) \in Seq(Nat)
        BY <1>2, <3>4
      <3>6. n.text = d.text /\ n.replies = Append(d.replies, This) /\ n.questions = d.questions
        BY <3>1, <3>2
      <3>7. n \in [text : Nat \ {0}, replies : Seq(Nat), questions : Nat]
        <4>1. n = [text |-> d.text, replies |-> Append(d.replies, This), questions |-> d.questions]
          BY <3>1, <3>2
        <4>2. \A t \in Nat \ {0}, r \in Seq(Nat), i \in Nat :
                [text |-> t, replies |-> r, questions |-> i]
                  \in [text : Nat \ {0}, replies : Seq(Nat), questions : Nat]
          OBVIOUS
        <4> QED BY <3>4, <3>5, <4>1, <4>2, Zenon
      <3>8. <<d.text>> \o Append(d.replies, This) = Append(<<d.text>> \o d.replies, This)
        BY <1>2, <3>4, ConcatAppend, Zenon
      <3> QED BY <3>3, <3>6, <3>7, <3>8
    <2> QED BY <2>1, <2>2
  <1> HIDE DEF n, d
  <1>4. n # NoDraft
    <2>1. n.text # 0
      BY <1>3
    <2> QED BY <2>1 DEF NoDraft
  <1>5. /\ q \in [text : Nat \ {0}, replies : Seq(Nat), questions : Nat]
        /\ q.text = n.text /\ q.replies = n.replies
    BY <1>3
  <1>6. q # NoDraft
    <2>1. q.text # 0
      BY <1>3, <1>5
    <2> HIDE DEF q
    <2> QED BY <2>1 DEF NoDraft
  <1> HIDE DEF q
  <1>7. Spoken(n) = Append(Spoken(d), This) /\ Spoken(q) = Append(Spoken(d), This)
    BY <1>3, <1>4, <1>5, <1>6 DEF Spoken
  <1>8. Spoken(d) \in Seq(Nat)
    BY <1>1, SpokenFacts
  <1>9. Append(Spoken(d), This) \in Seq(Nat)
    BY <1>2, <1>8
  <1>10. n \in Draft /\ q \in Draft
    BY <1>3, <1>5 DEF Draft
  <1> QED BY <1>3, <1>7, <1>9, <1>10 DEF Grown, d, n, q

\* A message goes on with the episode that f found, which becomes e, and stays
\* its owner's active one if it has a draft; that is as it was, or has the
\* message, and perhaps was stored in vain.
GoesOn(o, f, e) ==
  /\ e \in Episode /\ (f.episodes[f.key].fresh => e.fresh)
  /\ f.episodes[f.key].draft = NoDraft \/ active'[o] = f.key
  /\ DOMAIN episodes' = DOMAIN f.episodes
  /\ episodes' \in [DOMAIN f.episodes -> Episode]
  /\ \A k \in DOMAIN f.episodes : episodes'[k] = IF k = f.key THEN e ELSE f.episodes[k]
  /\ recent' = f.recent /\ serial' = f.serial
  /\ active' \in [Owner -> Nat]
  /\ \A p \in Owner : IF p = o THEN active'[p] \in {0, f.key} ELSE active'[p] = active[p]
  /\ replies' \in {replies, Remembered(o, f.key)}
  /\ \/ /\ Spoken(e.draft) \in {Spoken(f.episodes[f.key].draft), Grown(f)}
        /\ UNCHANGED <<items, halfway>>
     \/ /\ Spoken(e.draft) = Grown(f)
        /\ items' = Append(items, Grown(f)) /\ halfway' = halfway + 1

\* The draft is stored with the message and its episode goes.
Kept(o, f) ==
  /\ serial' = f.serial /\ Discarded(o, f.episodes, f.recent, f.key)
  /\ items' = Append(items, Grown(f)) /\ UNCHANGED halfway

\* Any message is led by a lookup and does one or the other.
LEMMA TextFacts ==
  ASSUME MemoryInv, NEW o \in Owner, Text(o)
  PROVE  /\ from' = Append(from, o) /\ UNCHANGED <<ready, young>>
         /\ \E f : Lookup(o, f) /\ (Kept(o, f) \/ \E e : GoesOn(o, f, e))
  <1>1. from' = Append(from, o) /\ UNCHANGED <<ready, young>>
    BY DEF Text, Message
  <1>2. PICK reply \in Replyable(o), new \in BOOLEAN, follows \in BOOLEAN :
          LET f == Found(o, reply, new, follows)
          IN  \/ Excuse(o, f) \/ Answer(o, f)
              \/ Clarify(o, f) \/ Question(o, f) \/ Keep(o, f) \/ KeepHalfway(o, f)
    BY Zenon DEF Text
  <1>3. PICK f : f = Found(o, reply, new, follows) /\ Lookup(o, f)
    BY FoundFacts
  <1>4. \/ Excuse(o, f) \/ Answer(o, f)
        \/ Clarify(o, f) \/ Question(o, f) \/ Keep(o, f) \/ KeepHalfway(o, f)
    BY <1>2, <1>3
  <1> DEFINE old == f.episodes[f.key]
             E   == DOMAIN f.episodes
  <1>5. /\ f.key \in E /\ f.episodes \in [E -> Episode] /\ old \in Episode
        /\ E \subseteq 1..f.serial /\ f.serial \in Nat /\ f.key \in Nat
    BY <1>3 DEF Lookup
  <1>6. active \in [Owner -> Nat] /\ from \in Seq(Owner)
    BY DEF MemoryInv
  <1>7. /\ Drafted(f) \in Draft /\ Spoken(Drafted(f)) = Grown(f)
        /\ [Drafted(f) EXCEPT !.questions = @ + 1] \in Draft
        /\ Spoken([Drafted(f) EXCEPT !.questions = @ + 1]) = Grown(f)
        /\ <<Drafted(f).text>> \o Drafted(f).replies = Grown(f)
    BY <1>5, <1>6, DraftedFacts
  <1>8. old.fresh \in BOOLEAN /\ old.turns \in 0..TurnLimit /\ old.draft \in Draft
    <2> HIDE DEF old
    <2> QED BY <1>5 DEF Episode
  <1>9. ASSUME NEW e \in Episode, episodes' = [f.episodes EXCEPT ![f.key] = e]
        PROVE  /\ DOMAIN episodes' = E /\ episodes' \in [E -> Episode]
               /\ \A k \in E : episodes'[k] = IF k = f.key THEN e ELSE f.episodes[k]
    BY <1>5, <1>9
  <1>10. ASSUME NEW a \in {0, f.key}, active' = [active EXCEPT ![o] = a]
         PROVE  /\ active' \in [Owner -> Nat] /\ active'[o] = a
                /\ \A p \in Owner : IF p = o THEN active'[p] \in {0, f.key}
                                    ELSE active'[p] = active[p]
    BY <1>5, <1>6, <1>10
  <1>11. Looked(o, f) => /\ recent' = f.recent /\ serial' = f.serial
                         /\ active' \in [Owner -> Nat] /\ active'[o] = f.key
                         /\ \A p \in Owner : IF p = o THEN active'[p] \in {0, f.key}
                                             ELSE active'[p] = active[p]
    BY <1>10 DEF Looked
  <1>12. CASE Excuse(o, f)
    <2>1. episodes' = [f.episodes EXCEPT ![f.key] = old]
      <3>1. episodes' = f.episodes
        BY <1>12 DEF Excuse
      <3> QED BY <1>5, <3>1
    <2>2. /\ DOMAIN episodes' = E /\ episodes' \in [E -> Episode]
          /\ \A k \in E : episodes'[k] = IF k = f.key THEN old ELSE f.episodes[k]
      BY <1>5, <1>9, <2>1
    <2>3. Looked(o, f) /\ UNCHANGED <<replies, items, halfway>>
      BY <1>12 DEF Excuse
    <2>4. GoesOn(o, f, old)
      BY <1>5, <1>11, <2>2, <2>3 DEF GoesOn
    <2> QED BY <1>1, <1>3, <2>4
  <1>13. CASE Answer(o, f)
    <2> DEFINE e == [old EXCEPT !.turns = IF @ < TurnLimit THEN @ + 1 ELSE @, !.fresh = TRUE]
               t == IF old.turns < TurnLimit THEN old.turns + 1 ELSE old.turns
    <2>1. e \in Episode /\ e.draft = old.draft /\ e.fresh
      <3>1. t \in 0..TurnLimit
        BY <1>8, LimitAssumption
      <3>2. e = [old EXCEPT !.turns = t, !.fresh = TRUE]
        OBVIOUS
      <3> HIDE DEF e, t, old
      <3>3. e = [fresh |-> TRUE, turns |-> t, draft |-> old.draft]
        BY <1>5, <3>2 DEF Episode
      <3> QED BY <1>8, <3>1, <3>3 DEF Episode
    <2>2. episodes' = [f.episodes EXCEPT ![f.key] = e]
      BY <1>13 DEF Answer
    <2>3. /\ DOMAIN episodes' = E /\ episodes' \in [E -> Episode]
          /\ \A k \in E : episodes'[k] = IF k = f.key THEN e ELSE f.episodes[k]
      <3> HIDE DEF e
      <3> QED BY <1>9, <2>1, <2>2
    <2>4. /\ recent' = f.recent /\ serial' = f.serial /\ UNCHANGED <<items, halfway>>
          /\ replies' \in {replies, Remembered(o, f.key)}
      BY <1>13 DEF Answer
    <2>5. \E a \in {0, f.key} : active' = [active EXCEPT ![o] = a]
      <3>1. PICK long : active' = [active EXCEPT ![o] = IF long THEN 0 ELSE f.key]
        BY <1>13 DEF Answer
      <3>2. (IF long THEN 0 ELSE f.key) \in {0, f.key}
        OBVIOUS
      <3> QED BY <3>1, <3>2
    <2>7. old.draft = NoDraft
      BY <1>13 DEF Answer
    <2> HIDE DEF e
    <2>6. GoesOn(o, f, e)
      BY <1>10, <2>1, <2>3, <2>4, <2>5, <2>7 DEF GoesOn
    <2> QED BY <1>1, <1>3, <2>6
  <1>14. CASE Clarify(o, f)
    <2> DEFINE e == [old EXCEPT !.draft = Drafted(f)]
    <2>1. e \in Episode /\ e.draft = Drafted(f) /\ e.fresh = old.fresh
      <3> HIDE DEF old
      <3> QED BY <1>5, <1>7, <1>8 DEF Episode
    <2>2. episodes' = [f.episodes EXCEPT ![f.key] = e]
      BY <1>14 DEF Clarify
    <2> HIDE DEF e
    <2>3. /\ DOMAIN episodes' = E /\ episodes' \in [E -> Episode]
          /\ \A k \in E : episodes'[k] = IF k = f.key THEN e ELSE f.episodes[k]
      BY <1>9, <2>1, <2>2
    <2>4. Looked(o, f) /\ UNCHANGED <<replies, items, halfway>>
      BY <1>14 DEF Clarify
    <2>5. GoesOn(o, f, e)
      BY <1>7, <1>11, <2>1, <2>3, <2>4 DEF GoesOn
    <2> QED BY <1>1, <1>3, <2>5
  <1>15. CASE Question(o, f)
    <2> DEFINE d == [Drafted(f) EXCEPT !.questions = @ + 1]
               e == [old EXCEPT !.draft = d, !.fresh = TRUE]
    <2>1. e \in Episode /\ e.draft = d /\ e.fresh
      <3>1. d \in Draft
        BY <1>7
      <3> HIDE DEF old, d
      <3> QED BY <1>5, <1>8, <3>1 DEF Episode
    <2>2. episodes' = [f.episodes EXCEPT ![f.key] = e]
      BY <1>15 DEF Question
    <2>3. Spoken(d) = Grown(f)
      BY <1>7
    <2> HIDE DEF e, d
    <2>4. /\ DOMAIN episodes' = E /\ episodes' \in [E -> Episode]
          /\ \A k \in E : episodes'[k] = IF k = f.key THEN e ELSE f.episodes[k]
      BY <1>9, <2>1, <2>2
    <2>5. /\ Looked(o, f) /\ UNCHANGED <<items, halfway>>
          /\ replies' \in {replies, Remembered(o, f.key)}
      BY <1>15 DEF Question
    <2>6. GoesOn(o, f, e)
      BY <1>11, <2>1, <2>3, <2>4, <2>5 DEF GoesOn
    <2> QED BY <1>1, <1>3, <2>6
  <1>16. CASE Keep(o, f)
    <2>1. Kept(o, f)
      BY <1>7, <1>16 DEF Keep, Kept, Stored
    <2> QED BY <1>1, <1>3, <2>1
  <1>17. CASE KeepHalfway(o, f)
    <2> DEFINE e == [old EXCEPT !.draft = Drafted(f)]
    <2>1. e \in Episode /\ e.draft = Drafted(f) /\ e.fresh = old.fresh
      <3> HIDE DEF old
      <3> QED BY <1>5, <1>7, <1>8 DEF Episode
    <2>2. episodes' = [f.episodes EXCEPT ![f.key] = e]
      BY <1>17 DEF KeepHalfway
    <2> HIDE DEF e
    <2>3. /\ DOMAIN episodes' = E /\ episodes' \in [E -> Episode]
          /\ \A k \in E : episodes'[k] = IF k = f.key THEN e ELSE f.episodes[k]
      BY <1>9, <2>1, <2>2
    <2>4. Looked(o, f) /\ UNCHANGED replies /\ Stored(Drafted(f)) /\ halfway' = halfway + 1
      BY <1>17 DEF KeepHalfway
    <2>5. items' = Append(items, Grown(f))
      BY <1>7, <2>4 DEF Stored
    <2>6. GoesOn(o, f, e)
      BY <1>7, <1>11, <2>1, <2>3, <2>4, <2>5 DEF GoesOn
    <2> QED BY <1>1, <1>3, <2>6
  <1> QED BY <1>4, <1>12, <1>13, <1>14, <1>15, <1>16, <1>17

LEMMA RememberedFacts ==
  ASSUME MemoryInv, NEW o \in Owner, NEW k \in Nat
  PROVE  /\ Remembered(o, k) \in Seq(Reply) /\ Len(Remembered(o, k)) <= ReplyLimit
         /\ Elements(Remembered(o, k)) \subseteq Elements(replies) \cup {[owner |-> o, key |-> k]}
         /\ \A q \in Elements(replies) : \/ q \in Elements(Remembered(o, k))
                                         \/ Len(replies) = ReplyLimit /\ q = Head(replies)
  <1> DEFINE r == [owner |-> o, key |-> k]
             s == Append(replies, r)
  <1>1. r \in Reply /\ replies \in Seq(Reply) /\ ReplyLimit \in Nat \ {0}
    BY LimitAssumption DEF Reply, MemoryInv
  <1> HIDE DEF r
  <1>2. /\ s \in Seq(Reply) /\ Elements(s) = Elements(replies) \cup {r}
        /\ Len(s) = Len(replies) + 1 /\ \A i \in 1..Len(replies) : s[i] = replies[i]
    BY <1>1, AppendFacts
  <1>5. Len(replies) \in Nat /\ Len(replies) <= ReplyLimit /\ Len(s) <= ReplyLimit + 1
    BY <1>1, <1>2 DEF MemoryInv
  <1>3. Remembered(o, k) = LastOf(s, ReplyLimit)
    BY DEF Remembered, r
  <1> HIDE DEF s
  <1>4. /\ LastOf(s, ReplyLimit) \in Seq(Reply) /\ Len(LastOf(s, ReplyLimit)) <= ReplyLimit
        /\ Elements(LastOf(s, ReplyLimit)) \subseteq Elements(s)
        /\ Elements(s) \subseteq Elements(LastOf(s, ReplyLimit)) \cup {s[1]}
        /\ Len(s) <= ReplyLimit => LastOf(s, ReplyLimit) = s
    BY <1>1, <1>2, <1>5, LastOfFacts
  <1>6. ASSUME NEW q \in Elements(replies), q \notin Elements(LastOf(s, ReplyLimit))
        PROVE  Len(replies) = ReplyLimit /\ q = Head(replies)
    <2>1. q = s[1] /\ ~(Len(s) <= ReplyLimit)
      BY <1>2, <1>4, <1>6
    <2>2. Len(replies) = ReplyLimit /\ 1 \in 1..Len(replies)
      BY <1>1, <1>2, <1>5, <2>1
    <2>3. Head(replies) = replies[1]
      BY <1>1, <2>2
    <2> QED BY <1>2, <2>1, <2>2, <2>3
  <1>7. \A q \in Elements(replies) : \/ q \in Elements(Remembered(o, k))
                                     \/ Len(replies) = ReplyLimit /\ q = Head(replies)
    BY <1>3, <1>6
  <1>8. /\ Remembered(o, k) \in Seq(Reply) /\ Len(Remembered(o, k)) <= ReplyLimit
        /\ Elements(Remembered(o, k)) \subseteq Elements(replies) \cup {[owner |-> o, key |-> k]}
    BY <1>2, <1>3, <1>4 DEF r
  <1> QED BY <1>7, <1>8

\* What a discard leaves of a memory: nothing that leads to the episode.
Left(o, eps, key) ==
  /\ DOMAIN episodes' = DOMAIN eps \ {key} /\ episodes' \in [DOMAIN eps \ {key} -> Episode]
  /\ \A k \in DOMAIN eps \ {key} : episodes'[k] = eps[k]
  /\ recent' \in Seq(Nat) /\ Elements(recent') = DOMAIN eps \ {key}
  /\ Distinct(recent') /\ Len(recent') <= EpisodeLimit
  /\ active' \in [Owner -> Nat]
  /\ \A p \in Owner : active'[p] = IF p = o THEN 0 ELSE active[p]
  /\ replies' \in Seq(Reply) /\ Len(replies') <= ReplyLimit
  /\ \A r \in Elements(replies') : r \in Elements(replies) /\ r.key # key
  /\ \A r \in Elements(replies) : r.key = key \/ r \in Elements(replies')

LEMMA DiscardedFacts ==
  ASSUME MemoryInv, NEW o \in Owner, NEW eps, NEW rec, NEW key, Discarded(o, eps, rec, key),
         eps \in [DOMAIN eps -> Episode], rec \in Seq(Nat), Elements(rec) = DOMAIN eps,
         Distinct(rec), Len(rec) <= EpisodeLimit
  PROVE  Left(o, eps, key)
  <1>1. /\ episodes' = [e \in DOMAIN eps \ {key} |-> eps[e]] /\ recent' = Without(rec, {key})
        /\ active' = [active EXCEPT ![o] = 0]
        /\ replies' = Without(replies, [owner : Owner, key : {key}])
    BY DEF Discarded
  <1>2. /\ active \in [Owner -> Nat] /\ replies \in Seq(Reply) /\ Len(replies) <= ReplyLimit
        /\ EpisodeLimit \in Nat /\ ReplyLimit \in Nat
    BY LimitAssumption DEF MemoryInv
  <1>3. /\ DOMAIN episodes' = DOMAIN eps \ {key} /\ episodes' \in [DOMAIN eps \ {key} -> Episode]
        /\ \A k \in DOMAIN eps \ {key} : episodes'[k] = eps[k]
    BY <1>1
  <1>4. /\ recent' \in Seq(Nat) /\ Elements(recent') = DOMAIN eps \ {key}
        /\ Distinct(recent') /\ Len(recent') <= Len(rec)
    BY <1>1, WithoutFacts
  <1>5. Len(recent') <= EpisodeLimit
    BY <1>2, <1>4
  <1>6. active' \in [Owner -> Nat] /\ \A p \in Owner : active'[p] = IF p = o THEN 0 ELSE active[p]
    BY <1>1, <1>2
  <1>7. /\ replies' \in Seq(Reply) /\ Len(replies') <= Len(replies)
        /\ Elements(replies') = Elements(replies) \ [owner : Owner, key : {key}]
    BY <1>1, <1>2, WithoutFacts
  <1>8. Len(replies') <= ReplyLimit
    BY <1>2, <1>7
  <1>9. ASSUME NEW r \in Elements(replies') PROVE r \in Elements(replies) /\ r.key # key
    <2>1. r \in Elements(replies) /\ r \notin [owner : Owner, key : {key}]
      BY <1>7
    <2>2. r \in Reply
      BY <1>2, <2>1 DEF Elements
    <2>3. r.owner \in Owner /\ r = [owner |-> r.owner, key |-> r.key]
      BY <2>2 DEF Reply
    <2> QED BY <2>1, <2>3
  <1>10. \A r \in Elements(replies) : r.key = key \/ r \in Elements(replies')
    BY <1>7
  <1> QED BY <1>3, <1>4, <1>5, <1>6, <1>8, <1>7, <1>9, <1>10 DEF Left

LEMMA MemoryStep ==
  ASSUME MemoryInv, [Next]_vars
  PROVE  MemoryInv'
  <1>1. /\ serial \in Nat /\ Live \subseteq 1..serial /\ episodes \in [Live -> Episode]
        /\ recent \in Seq(Nat) /\ Elements(recent) = Live
        /\ Distinct(recent) /\ Len(recent) <= EpisodeLimit
        /\ active \in [Owner -> Nat] /\ \A o \in Owner : active[o] <= serial
        /\ replies \in Seq(Reply) /\ Len(replies) <= ReplyLimit
        /\ \A r \in Elements(replies) : r.key \in 1..serial
    BY DEF MemoryInv
  <1>2. /\ from \in Seq(Owner) /\ items \in Seq(Seq(Nat)) /\ halfway \in Nat
        /\ ready \in BOOLEAN /\ young \in BOOLEAN
    BY DEF MemoryInv
  <1>3. \A o \in Owner : Append(from, o) \in Seq(Owner)
    BY <1>2
  <1>4. /\ This \in Nat /\ <<This>> \in Seq(Nat)
        /\ \A s \in Seq(Nat) : Append(items, s) \in Seq(Seq(Nat))
    BY <1>2 DEF This
  <1>5. ASSUME NEW o \in Owner, Text(o) PROVE MemoryInv'
    <2>1. from' = Append(from, o) /\ UNCHANGED <<ready, young>>
      BY <1>5, TextFacts
    <2>2. PICK f : Lookup(o, f) /\ (Kept(o, f) \/ \E e : GoesOn(o, f, e))
      BY <1>5, TextFacts
    <2> DEFINE E == DOMAIN f.episodes
    <2>3. /\ f.key \in E /\ f.episodes \in [E -> Episode] /\ E \subseteq 1..f.serial
          /\ f.serial \in Nat /\ f.recent \in Seq(Nat) /\ Elements(f.recent) = E
          /\ Distinct(f.recent) /\ Len(f.recent) <= EpisodeLimit
      BY <2>2 DEF Lookup
    <2>4. f.serial \in {serial, serial + 1}
      BY <2>2 DEF Lookup, OldEpisode, NewEpisode
    <2>5. Grown(f) \in Seq(Nat)
      BY <1>2, <2>3, DraftedFacts
    <2>6. from' \in Seq(Owner) /\ ready' \in BOOLEAN /\ young' \in BOOLEAN
      BY <1>2, <1>3, <2>1
    <2>7. CASE \E e : GoesOn(o, f, e)
      <3>1. PICK e : GoesOn(o, f, e)
        BY <2>7
      <3>2. /\ DOMAIN episodes' = E /\ episodes' \in [E -> Episode]
            /\ recent' = f.recent /\ serial' = f.serial /\ active' \in [Owner -> Nat]
            /\ \A p \in Owner : IF p = o THEN active'[p] \in {0, f.key} ELSE active'[p] = active[p]
            /\ replies' \in {replies, Remembered(o, f.key)}
        BY <3>1 DEF GoesOn
      <3>3. items' \in Seq(Seq(Nat)) /\ halfway' \in Nat
        <4>1. \/ UNCHANGED <<items, halfway>>
              \/ items' = Append(items, Grown(f)) /\ halfway' = halfway + 1
          BY <3>1 DEF GoesOn
        <4>2. CASE UNCHANGED <<items, halfway>>
          BY <1>2, <4>2
        <4>3. CASE items' = Append(items, Grown(f)) /\ halfway' = halfway + 1
          <5>1. Append(items, Grown(f)) \in Seq(Seq(Nat))
            BY <1>4, <2>5
          <5> QED BY <1>2, <4>3, <5>1
        <4> QED BY <4>1, <4>2, <4>3
      <3>4. \A p \in Owner : active'[p] <= serial'
        <4>1. ASSUME NEW p \in Owner PROVE active'[p] <= serial'
          <5>1. active[p] \in Nat /\ active[p] <= serial /\ f.key \in 1..f.serial
            BY <1>1, <2>3
          <5>2. active'[p] \in {0, f.key, active[p]} /\ serial' = f.serial
            BY <3>2
          <5> QED BY <1>1, <2>3, <2>4, <5>1, <5>2
        <4> QED BY <4>1
      <3>5. /\ f.key \in Nat
            /\ Remembered(o, f.key) \in Seq(Reply) /\ Len(Remembered(o, f.key)) <= ReplyLimit
            /\ Elements(Remembered(o, f.key))
                 \subseteq Elements(replies) \cup {[owner |-> o, key |-> f.key]}
        <4>1. f.key \in Nat
          BY <2>3
        <4> QED BY <4>1, RememberedFacts
      <3>6. /\ replies' \in Seq(Reply) /\ Len(replies') <= ReplyLimit
            /\ Elements(replies') \subseteq Elements(replies) \cup {[owner |-> o, key |-> f.key]}
        BY <1>1, <3>2, <3>5
      <3>7. ASSUME NEW r \in Elements(replies') PROVE r.key \in 1..serial'
        <4>1. CASE r \in Elements(replies)
          <5>1. r.key \in 1..serial
            BY <1>1, <4>1
          <5> QED BY <1>1, <2>4, <3>2, <5>1
        <4>2. CASE r = [owner |-> o, key |-> f.key]
          <5>1. r.key = f.key
            BY <4>2
          <5>2. f.key \in 1..f.serial /\ serial' = f.serial
            BY <2>3, <3>2
          <5> QED BY <5>1, <5>2
        <4> QED BY <3>6, <4>1, <4>2
      <3>8. Live' = E
        BY <3>2 DEF Live
      <3>9. /\ serial' \in Nat /\ Live' \subseteq 1..serial' /\ episodes' \in [Live' -> Episode]
            /\ recent' \in Seq(Nat) /\ Elements(recent)' = Live'
            /\ Distinct(recent)' /\ Len(recent') <= EpisodeLimit
        <4>1. Elements(recent)' = Elements(f.recent) /\ Distinct(recent)' = Distinct(f.recent)
          BY <3>2 DEF Elements, Distinct
        <4> QED BY <2>3, <3>2, <3>8, <4>1
      <3> QED BY <2>6, <3>2, <3>3, <3>4, <3>6, <3>7, <3>9 DEF MemoryInv, Elements
    <2>8. CASE Kept(o, f)
      <3>1. /\ serial' = f.serial /\ Discarded(o, f.episodes, f.recent, f.key)
            /\ items' = Append(items, Grown(f)) /\ halfway' = halfway
        BY <2>8 DEF Kept
      <3>2. items' \in Seq(Seq(Nat)) /\ halfway' \in Nat
        BY <1>2, <1>4, <2>5, <3>1
      <3>3. /\ DOMAIN episodes' = E \ {f.key} /\ episodes' \in [E \ {f.key} -> Episode]
            /\ recent' \in Seq(Nat) /\ Elements(recent') = E \ {f.key}
            /\ Distinct(recent') /\ Len(recent') <= EpisodeLimit
            /\ active' \in [Owner -> Nat]
            /\ \A p \in Owner : active'[p] = IF p = o THEN 0 ELSE active[p]
            /\ replies' \in Seq(Reply) /\ Len(replies') <= ReplyLimit
            /\ \A r \in Elements(replies') : r \in Elements(replies) /\ r.key # f.key
        <4>1. Left(o, f.episodes, f.key)
          BY <2>3, <3>1, DiscardedFacts
        <4> QED BY <4>1 DEF Left
      <3>4. \A p \in Owner : active'[p] <= serial'
        <4>1. ASSUME NEW p \in Owner PROVE active'[p] <= serial'
          <5>1. active[p] \in Nat /\ active[p] <= serial /\ active'[p] \in {0, active[p]}
            BY <1>1, <3>3
          <5> QED BY <1>1, <2>3, <2>4, <3>1, <5>1
        <4> QED BY <4>1
      <3>5. \A r \in Elements(replies') : r.key \in 1..serial'
        BY <1>1, <2>4, <3>1, <3>3
      <3>6. Live' = E \ {f.key}
        BY <3>3 DEF Live
      <3>7. /\ serial' \in Nat /\ Live' \subseteq 1..serial' /\ episodes' \in [Live' -> Episode]
            /\ recent' \in Seq(Nat) /\ Elements(recent)' = Live'
            /\ Distinct(recent)' /\ Len(recent') <= EpisodeLimit
        BY <2>3, <3>1, <3>3, <3>6 DEF Elements, Distinct
      <3> QED BY <2>6, <3>2, <3>3, <3>4, <3>5, <3>7 DEF MemoryInv, Elements
    <2> QED BY <2>2, <2>7, <2>8
  <1>6. ASSUME NEW o \in Owner, Attach(o) PROVE MemoryInv'
    <2>1. /\ from' = Append(from, o) /\ UNCHANGED <<ready, young, serial, halfway>>
          /\ items' = Append(items, <<This>>)
          /\ Discarded(o, episodes, recent, active[o])
      BY <1>6 DEF Attach, Message
    <2> DEFINE key == active[o]
    <2>2. PICK k : k = active[o]
      OBVIOUS
    <2>3. PICK eps : eps = episodes
      OBVIOUS
    <2>4. PICK rec : rec = recent
      OBVIOUS
    <2>5. /\ Discarded(o, eps, rec, k) /\ eps \in [DOMAIN eps -> Episode] /\ rec \in Seq(Nat)
          /\ Elements(rec) = DOMAIN eps /\ Distinct(rec) /\ Len(rec) <= EpisodeLimit
      BY <1>1, <2>1, <2>2, <2>3, <2>4 DEF Live
    <2>6. /\ DOMAIN episodes' = DOMAIN eps \ {k} /\ episodes' \in [DOMAIN eps \ {k} -> Episode]
          /\ recent' \in Seq(Nat) /\ Elements(recent') = DOMAIN eps \ {k}
          /\ Distinct(recent') /\ Len(recent') <= EpisodeLimit
          /\ active' \in [Owner -> Nat]
          /\ \A p \in Owner : active'[p] = IF p = o THEN 0 ELSE active[p]
          /\ replies' \in Seq(Reply) /\ Len(replies') <= ReplyLimit
          /\ \A r \in Elements(replies') : r \in Elements(replies) /\ r.key # k
      <3>1. Left(o, eps, k)
        BY <2>5, DiscardedFacts
      <3> QED BY <3>1 DEF Left
    <2>7. Live' = Live \ {k}
      BY <2>3, <2>6 DEF Live
    <2>8. /\ serial' \in Nat /\ Live' \subseteq 1..serial' /\ episodes' \in [Live' -> Episode]
          /\ recent' \in Seq(Nat) /\ Elements(recent)' = Live'
          /\ Distinct(recent)' /\ Len(recent') <= EpisodeLimit
      BY <1>1, <2>1, <2>3, <2>6, <2>7 DEF Elements, Distinct, Live
    <2>9. \A p \in Owner : active'[p] <= serial'
      <3>1. ASSUME NEW p \in Owner PROVE active'[p] <= serial'
        <4>1. active[p] \in Nat /\ active[p] <= serial /\ active'[p] \in {0, active[p]}
          BY <1>1, <2>6
        <4> QED BY <1>1, <2>1, <4>1
      <3> QED BY <3>1
    <2>10. \A r \in Elements(replies') : r.key \in 1..serial'
      BY <1>1, <2>1, <2>6
    <2>11. /\ from' \in Seq(Owner) /\ ready' \in BOOLEAN /\ young' \in BOOLEAN
           /\ items' \in Seq(Seq(Nat)) /\ halfway' \in Nat
      BY <1>2, <1>3, <1>4, <2>1
    <2> QED BY <2>6, <2>8, <2>9, <2>10, <2>11 DEF MemoryInv, Elements
  <1>7. ASSUME UNCHANGED <<episodes, recent, serial, replies>>, UNCHANGED items \/ items' = Append(items, <<This>>),
               active' \in [Owner -> Nat], \A o \in Owner : active'[o] \in {0, active[o]},
               from' \in Seq(Owner), halfway' \in Nat, ready' \in BOOLEAN, young' \in BOOLEAN
        PROVE  MemoryInv'
    <2>1. items' \in Seq(Seq(Nat))
      BY <1>2, <1>4, <1>7
    <2>2. \A o \in Owner : active'[o] <= serial'
      <3>1. ASSUME NEW o \in Owner PROVE active'[o] <= serial'
        <4>1. /\ active[o] \in Nat /\ active[o] <= serial /\ active'[o] \in {0, active[o]}
              /\ serial' = serial
          BY <1>1, <1>7
        <4> QED BY <1>1, <4>1
      <3> QED BY <3>1
    <2> QED BY <1>1, <1>7, <2>1, <2>2 DEF MemoryInv, Elements, Distinct, Live
  <1>8. ASSUME NEW o \in Owner, AttachRefused(o) \/ AttachHalfway(o) \/ Close(o) PROVE MemoryInv'
    <2>1. UNCHANGED <<episodes, recent, serial, replies>>
      BY <1>8 DEF AttachRefused, AttachHalfway, Close, memory
    <2>2. UNCHANGED items \/ items' = Append(items, <<This>>)
      BY <1>8 DEF AttachRefused, AttachHalfway, Close
    <2>3. active' = active \/ active' = [active EXCEPT ![o] = 0]
      BY <1>8 DEF AttachRefused, AttachHalfway, Close, memory
    <2>4. active' \in [Owner -> Nat] /\ \A p \in Owner : active'[p] \in {0, active[p]}
      BY <1>1, <2>3
    <2>5. /\ from' \in Seq(Owner) /\ halfway' \in Nat
          /\ ready' \in BOOLEAN /\ young' \in BOOLEAN
      <3>1. from' = Append(from, o) \/ from' = from
        BY <1>8 DEF AttachRefused, AttachHalfway, Close, Message
      <3>2. halfway' = halfway \/ halfway' = halfway + 1
        BY <1>8 DEF AttachRefused, AttachHalfway, Close
      <3>3. ready' = ready /\ young' = young
        BY <1>8 DEF AttachRefused, AttachHalfway, Close, Message
      <3>4. from' \in Seq(Owner)
        BY <1>2, <1>3, <3>1
      <3>5. halfway' \in Nat
        BY <1>2, <3>2
      <3> QED BY <1>2, <3>3, <3>4, <3>5
    <2> QED BY <1>7, <2>1, <2>2, <2>4, <2>5
  <1>9. CASE Wait
    <2>1. /\ episodes' = [e \in Live |-> [episodes[e] EXCEPT !.fresh = FALSE]] /\ young' = FALSE
          /\ UNCHANGED <<recent, active, replies, serial, items, from, ready, halfway>>
      BY <1>9 DEF Wait
    <2>2. \A e \in Live : [episodes[e] EXCEPT !.fresh = FALSE] \in Episode
      BY <1>1 DEF Episode
    <2>3. episodes' \in [Live -> Episode] /\ Live' = Live
      BY <2>1, <2>2 DEF Live
    <2> QED BY <1>1, <1>2, <2>1, <2>3 DEF MemoryInv, Elements, Distinct
  <1>10. CASE Lock
    <2>1. UNCHANGED <<memory, items, from, young, halfway>> /\ ready' = ~ready
      BY <1>10 DEF Lock
    <2> QED BY <1>1, <1>2, <1>7, <2>1 DEF memory
  <1>11. CASE Restart
    <2>1. /\ episodes' = << >> /\ recent' = <<>> /\ active' = [o \in Owner |-> 0]
          /\ replies' = <<>> /\ serial' = 0 /\ UNCHANGED <<items, from, ready, young, halfway>>
      BY <1>11 DEF Restart
    <2>2. Live' = {} /\ episodes' \in [Live' -> Episode]
      BY <2>1 DEF Live
    <2> QED BY <1>2, <2>1, <2>2, LimitAssumption DEF MemoryInv, Elements, Distinct
  <1>12. CASE UNCHANGED vars
    BY <1>1, <1>2, <1>7, <1>12 DEF vars, memory
  <1> QED BY <1>5, <1>6, <1>8, <1>9, <1>10, <1>11, <1>12 DEF Next

LEMMA MemoryInit == Init => MemoryInv
  <1> SUFFICES ASSUME Init PROVE MemoryInv
    OBVIOUS
  <1>1. /\ episodes = << >> /\ recent = <<>> /\ active = [o \in Owner |-> 0]
        /\ replies = <<>> /\ serial = 0 /\ items = <<>> /\ from = <<>>
        /\ ready \in BOOLEAN /\ young \in BOOLEAN /\ halfway = 0
    BY DEF Init
  <1>2. Live = {} /\ episodes \in [Live -> Episode]
    BY <1>1 DEF Live
  <1> QED BY <1>1, <1>2, LimitAssumption DEF MemoryInv, Elements, Distinct

LEMMA MemoryAlways == Spec => []MemoryInv
  <1>1. MemoryInv /\ [Next]_vars => MemoryInv'
    BY MemoryStep
  <1> QED BY <1>1, MemoryInit, PTL DEF Spec

\* The memory is of the types that TypeOK gives and within its limits, every
\* live episode is in the order of use once, for any limits and any owners.
THEOREM TypeCorrect == Spec => []TypeOK
  <1>1. MemoryInv => TypeOK
    <2> SUFFICES ASSUME MemoryInv PROVE TypeOK
      OBVIOUS
    <2>1. /\ recent \in Seq(Nat) /\ Elements(recent) = Live /\ Distinct(recent)
          /\ Len(recent) <= EpisodeLimit /\ episodes \in [Live -> Episode]
      BY DEF MemoryInv
    <2>2. Cardinality(Live) = Len(recent)
      BY <2>1, DistinctCardinality
    <2>3. \A k \in Live : episodes[k].turns <= TurnLimit
      <3>1. \A k \in Live : episodes[k].turns \in 0..TurnLimit
        BY <2>1 DEF Episode
      <3> QED BY <3>1, LimitAssumption
    <2> QED BY <2>1, <2>2, <2>3 DEF TypeOK, MemoryInv
  <1> QED BY <1>1, MemoryAlways, PTL

-----------------------------------------------------------------------------
(*****************************************************************************)
(* IV. A step as the drafts, the inbox and the owners see it.                *)
(*****************************************************************************)

\* The messages in the draft of episode k, none if it is not live.
Said(k) == IF k \in Live THEN Words(k) ELSE <<>>

\* Episode k goes: as the least recently used, or when its owner o sends a file.
Goes(o, k) ==
  \/ k = Head(recent) /\ Cardinality(Live) = EpisodeLimit /\ serial' > serial
  \/ active[o] = k /\ active'[o] = 0 /\ Len(items') > Len(items)

\* A message of o in episode k, 0 if it is in none.
Talk(o, k) ==
  /\ from' = Append(from, o)
  /\ \/ k = 0 /\ serial' = serial
     \/ /\ k \in Live /\ serial' = serial
        /\ k = active[o] \/ \E r \in Elements(replies) : r.owner = o /\ r.key = k
     \/ k = serial + 1 /\ serial' = k
  /\ \A p \in Owner : active'[p] \in {0, active[p]} \/ (p = o /\ active'[p] = k)
  /\ \A r \in Elements(replies') : r \in Elements(replies) \/ r = [owner |-> o, key |-> k]
  /\ \A j \in Nat \ {k} : Said(j)' = Said(j) \/ (Said(j)' = <<>> /\ Goes(o, j))
  /\ \/ Said(k)' \in {Said(k), Append(Said(k), This)} /\ UNCHANGED <<items, halfway>>
     \/ /\ Said(k)' = <<>>
        /\ items' = Append(items, Append(Said(k), This)) /\ halfway' = halfway
     \/ /\ Said(k)' \in {<<>>, Append(Said(k), This)}
        /\ items' = Append(items, Append(Said(k), This)) /\ halfway' = halfway + 1

\* No message: the drafts are as they were, or the process has ended.
Quiet ==
  /\ UNCHANGED <<items, from, halfway>>
  /\ \/ /\ serial' = serial /\ replies' = replies /\ \A j \in Nat : Said(j)' = Said(j)
        /\ \A p \in Owner : active'[p] \in {0, active[p]}
     \/ /\ serial' = 0 /\ serial > 0 /\ replies' = <<>> /\ \A j \in Nat : Said(j)' = <<>>
        /\ \A p \in Owner : active'[p] = 0

LEMMA SaidIs ==
  ASSUME NEW k
  PROVE  /\ Said(k) = IF k \in DOMAIN episodes THEN Spoken(episodes[k].draft) ELSE <<>>
         /\ Said(k)' = IF k \in DOMAIN episodes' THEN Spoken(episodes'[k].draft) ELSE <<>>
  <1>1. Said(k) = IF k \in DOMAIN episodes THEN Spoken(episodes[k].draft) ELSE <<>>
    BY DEF Said, Words, Spoken, Live
  <1>2. Said(k)' = IF k \in DOMAIN episodes' THEN Spoken(episodes'[k].draft) ELSE <<>>
    BY DEF Said, Words, Spoken, Live
  <1> QED BY <1>1, <1>2

LEMMA SaidFacts ==
  ASSUME MemoryInv, NEW k
  PROVE  Said(k) \in Seq(Nat) /\ Said(0) = <<>>
  <1>1. 0 \notin DOMAIN episodes /\ episodes \in [DOMAIN episodes -> Episode]
    BY DEF MemoryInv, Live
  <1>2. ASSUME k \in DOMAIN episodes PROVE Spoken(episodes[k].draft) \in Seq(Nat)
    <2>1. episodes[k] \in Episode
      BY <1>1, <1>2
    <2>2. episodes[k].draft \in Draft
      BY <2>1 DEF Episode
    <2> QED BY <2>2, SpokenFacts
  <1>3. <<>> \in Seq(Nat)
    OBVIOUS
  <1> QED BY <1>1, <1>2, <1>3, SaidIs

\* What a lookup says of the drafts.
LEMMA LookupSaid ==
  ASSUME MemoryInv, NEW o \in Owner, NEW f, Lookup(o, f)
  PROVE  /\ \A j \in DOMAIN f.episodes : Said(j) = Spoken(f.episodes[j].draft)
         /\ Grown(f) = Append(Said(f.key), This)
         /\ \A j \in Nat \ DOMAIN f.episodes :
              \/ Said(j) = <<>>
              \/ f.serial = serial + 1 /\ j = Head(recent) /\ Cardinality(Live) = EpisodeLimit
  <1>1. Live = DOMAIN episodes /\ serial \in Nat /\ Live \subseteq 1..serial
    BY DEF MemoryInv, Live
  <1>2. /\ f.key \in DOMAIN f.episodes
        /\ \A j \in DOMAIN f.episodes \ {f.key} : j \in Live /\ f.episodes[j] = episodes[j]
        /\ OldEpisode(o, f) \/ NewEpisode(f)
    BY DEF Lookup
  <1>3. Said(f.key) = Spoken(f.episodes[f.key].draft)
    <2>1. CASE OldEpisode(o, f)
      BY <1>1, <2>1, SaidIs DEF OldEpisode
    <2>2. CASE NewEpisode(f)
      <3>1. f.key \notin Live /\ f.episodes[f.key].draft = NoDraft
        BY <1>1, <2>2 DEF NewEpisode
      <3> QED BY <1>1, <3>1, SaidIs DEF Spoken
    <2> QED BY <1>2, <2>1, <2>2
  <1>4. \A j \in DOMAIN f.episodes \ {f.key} : Said(j) = Spoken(f.episodes[j].draft)
    BY <1>1, <1>2, SaidIs
  <1>5. ASSUME NEW j \in Nat \ DOMAIN f.episodes, Said(j) # <<>>
        PROVE  f.serial = serial + 1 /\ j = Head(recent) /\ Cardinality(Live) = EpisodeLimit
    <2>1. j \in Live
      BY <1>1, <1>5, SaidIs
    <2>2. CASE OldEpisode(o, f)
      BY <1>5, <2>1, <2>2 DEF OldEpisode
    <2>3. CASE NewEpisode(f)
      BY <1>5, <2>1, <2>3 DEF NewEpisode
    <2> QED BY <1>2, <2>2, <2>3
  <1> QED BY <1>3, <1>4, <1>5 DEF Grown

LEMMA TalkOfText ==
  ASSUME MemoryInv, NEW o \in Owner, Text(o)
  PROVE  \E k \in Nat : Talk(o, k)
  <1>1. from' = Append(from, o)
    BY TextFacts
  <1>2. PICK f : Lookup(o, f) /\ (Kept(o, f) \/ \E e : GoesOn(o, f, e))
    BY TextFacts
  <1> DEFINE E == DOMAIN f.episodes
  <1>3. PICK k : k = f.key
    OBVIOUS
  <1>4. /\ k \in E /\ f.episodes \in [E -> Episode] /\ E \subseteq 1..f.serial
        /\ f.serial \in Nat /\ f.recent \in Seq(Nat) /\ Elements(f.recent) = E
        /\ Distinct(f.recent) /\ Len(f.recent) <= EpisodeLimit /\ k \in Nat
    BY <1>2, <1>3 DEF Lookup
  <1>5. serial \in Nat /\ active \in [Owner -> Nat]
    BY DEF MemoryInv
  <1>6. \/ /\ k \in Live /\ f.serial = serial
           /\ k = active[o] \/ \E r \in Elements(replies) : r.owner = o /\ r.key = k
        \/ k = serial + 1 /\ f.serial = k
    BY <1>2, <1>3 DEF Lookup, OldEpisode, NewEpisode
  <1>7. /\ \A j \in E : Said(j) = Spoken(f.episodes[j].draft)
        /\ Grown(f) = Append(Said(k), This)
        /\ \A j \in Nat \ E : \/ Said(j) = <<>>
                              \/ /\ f.serial = serial + 1 /\ j = Head(recent)
                                 /\ Cardinality(Live) = EpisodeLimit
    BY <1>2, <1>3, LookupSaid
  <1>8. CASE \E e : GoesOn(o, f, e)
    <2>1. PICK e : GoesOn(o, f, e)
      BY <1>8
    <2>2. /\ DOMAIN episodes' = E /\ serial' = f.serial
          /\ \A j \in E : episodes'[j] = IF j = k THEN e ELSE f.episodes[j]
          /\ \A p \in Owner : IF p = o THEN active'[p] \in {0, k} ELSE active'[p] = active[p]
          /\ replies' \in {replies, Remembered(o, k)}
      BY <1>3, <2>1 DEF GoesOn
    <2>3. \A p \in Owner : active'[p] \in {0, active[p]} \/ (p = o /\ active'[p] = k)
      BY <2>2
    <2>4. \A r \in Elements(replies') : r \in Elements(replies) \/ r = [owner |-> o, key |-> k]
      <3>1. Elements(Remembered(o, k)) \subseteq Elements(replies) \cup {[owner |-> o, key |-> k]}
        BY <1>4, RememberedFacts
      <3> QED BY <2>2, <3>1
    <2>5. ASSUME NEW j \in Nat \ {k}
          PROVE  Said(j)' = Said(j) \/ (Said(j)' = <<>> /\ Goes(o, j))
      <3>1. CASE j \in E
        <4>1. Said(j)' = Spoken(f.episodes[j].draft)
          BY <2>2, <2>5, <3>1, SaidIs
        <4> QED BY <1>7, <3>1, <4>1
      <3>2. CASE j \notin E
        <4>1. Said(j)' = <<>>
          BY <2>2, <3>2, SaidIs
        <4>2. CASE Said(j) = <<>>
          BY <4>1, <4>2
        <4>3. CASE f.serial = serial + 1 /\ j = Head(recent) /\ Cardinality(Live) = EpisodeLimit
          <5>1. serial' > serial
            BY <1>5, <2>2, <4>3
          <5> QED BY <4>1, <4>3, <5>1 DEF Goes
        <4> QED BY <1>7, <3>2, <4>2, <4>3
      <3> QED BY <3>1, <3>2
    <2>6. Said(k)' = Spoken(e.draft) /\ Said(k) = Spoken(f.episodes[f.key].draft)
      BY <1>3, <1>4, <1>7, <2>2, SaidIs
    <2>7. \/ /\ Said(k)' \in {Said(k), Append(Said(k), This)} /\ UNCHANGED <<items, halfway>>
          \/ /\ Said(k)' = Append(Said(k), This)
             /\ items' = Append(items, Append(Said(k), This)) /\ halfway' = halfway + 1
      BY <1>7, <2>1, <2>6 DEF GoesOn
    <2>8. Talk(o, k)
      BY <1>1, <1>6, <2>2, <2>3, <2>4, <2>5, <2>7 DEF Talk
    <2> QED BY <1>4, <2>8
  <1>9. CASE Kept(o, f)
    <2>1. /\ serial' = f.serial /\ Discarded(o, f.episodes, f.recent, f.key)
          /\ items' = Append(items, Grown(f)) /\ halfway' = halfway
      BY <1>9 DEF Kept
    <2>2. Left(o, f.episodes, f.key)
      BY <1>4, <2>1, DiscardedFacts
    <2>3. /\ DOMAIN episodes' = E \ {k} /\ \A j \in E \ {k} : episodes'[j] = f.episodes[j]
          /\ \A p \in Owner : active'[p] = IF p = o THEN 0 ELSE active[p]
          /\ \A r \in Elements(replies') : r \in Elements(replies) /\ r.key # k
      BY <1>3, <2>2 DEF Left
    <2>4. ASSUME NEW j \in Nat \ {k}
          PROVE  Said(j)' = Said(j) \/ (Said(j)' = <<>> /\ Goes(o, j))
      <3>1. CASE j \in E
        <4>1. Said(j)' = Spoken(f.episodes[j].draft)
          BY <2>3, <2>4, <3>1, SaidIs
        <4> QED BY <1>7, <3>1, <4>1
      <3>2. CASE j \notin E
        <4>1. Said(j)' = <<>>
          BY <2>3, <3>2, SaidIs
        <4>2. CASE Said(j) = <<>>
          BY <4>1, <4>2
        <4>3. CASE f.serial = serial + 1 /\ j = Head(recent) /\ Cardinality(Live) = EpisodeLimit
          <5>1. serial' > serial
            BY <1>5, <2>1, <4>3
          <5> QED BY <4>1, <4>3, <5>1 DEF Goes
        <4> QED BY <1>7, <3>2, <4>2, <4>3
      <3> QED BY <3>1, <3>2
    <2>5. Said(k)' = <<>>
      BY <2>3, SaidIs
    <2>6. items' = Append(items, Append(Said(k), This))
      BY <1>7, <2>1
    <2>7. \A p \in Owner : active'[p] \in {0, active[p]}
      BY <2>3
    <2>8. Talk(o, k)
      BY <1>1, <1>6, <2>1, <2>3, <2>4, <2>5, <2>6, <2>7 DEF Talk
    <2> QED BY <1>4, <2>8
  <1> QED BY <1>2, <1>8, <1>9

LEMMA StepFacts ==
  ASSUME MemoryInv, [Next]_vars
  PROVE  (\E o \in Owner, k \in Nat : Talk(o, k)) \/ Quiet
  <1>1. /\ serial \in Nat /\ episodes \in [Live -> Episode] /\ active \in [Owner -> Nat]
        /\ recent \in Seq(Nat) /\ Elements(recent) = Live
        /\ Distinct(recent) /\ Len(recent) <= EpisodeLimit /\ items \in Seq(Seq(Nat))
    BY DEF MemoryInv
  <1>2. Said(0) = <<>> /\ Append(<<>>, This) = <<This>> /\ This \in Nat
    BY SaidFacts DEF This, MemoryInv
  <1>3. Said(0)' = <<>>
    <2>1. 0 \notin DOMAIN episodes'
      BY MemoryStep DEF MemoryInv, Live
    <2> QED BY <2>1, SaidIs
  <1>4. ASSUME episodes' = episodes PROVE \A j : Said(j)' = Said(j)
    BY <1>4, SaidIs
  <1>5. ASSUME NEW o \in Owner, Text(o) PROVE \E k \in Nat : Talk(o, k)
    BY <1>5, TalkOfText
  <1>6. ASSUME NEW o \in Owner, Attach(o) PROVE Talk(o, 0)
    <2>1. /\ from' = Append(from, o) /\ serial' = serial /\ halfway' = halfway
          /\ items' = Append(items, <<This>>)
          /\ Discarded(o, episodes, recent, active[o])
      BY <1>6 DEF Attach, Message
    <2>2. PICK k : k = active[o]
      OBVIOUS
    <2>3. PICK eps : eps = episodes
      OBVIOUS
    <2>4. PICK rec : rec = recent
      OBVIOUS
    <2>5. /\ Discarded(o, eps, rec, k) /\ eps \in [DOMAIN eps -> Episode] /\ rec \in Seq(Nat)
          /\ Elements(rec) = DOMAIN eps /\ Distinct(rec) /\ Len(rec) <= EpisodeLimit
      BY <1>1, <2>1, <2>2, <2>3, <2>4 DEF Live
    <2>6. Left(o, eps, k)
      BY <2>5, DiscardedFacts
    <2>7. /\ DOMAIN episodes' = DOMAIN eps \ {k} /\ \A j \in DOMAIN eps \ {k} : episodes'[j] = eps[j]
          /\ \A p \in Owner : active'[p] = IF p = o THEN 0 ELSE active[p]
          /\ \A r \in Elements(replies') : r \in Elements(replies) /\ r.key # k
      BY <2>6 DEF Left
    <2>8. Len(items') > Len(items) /\ active'[o] = 0
      <3>1. <<This>> \in Seq(Nat)
        BY <1>2
      <3> QED BY <1>1, <2>1, <2>7, <3>1
    <2>9. ASSUME NEW j \in Nat \ {0}
          PROVE  Said(j)' = Said(j) \/ (Said(j)' = <<>> /\ Goes(o, j))
      <3>1. CASE j = k
        <4>1. Said(j)' = <<>>
          BY <2>7, <3>1, SaidIs
        <4> QED BY <2>2, <2>8, <3>1, <4>1 DEF Goes
      <3>2. CASE j # k
        BY <2>3, <2>7, <3>2, SaidIs
      <3> QED BY <3>1, <3>2
    <2>10. items' = Append(items, Append(Said(0), This))
      BY <1>2, <2>1
    <2>11. \A p \in Owner : active'[p] \in {0, active[p]}
      BY <2>7
    <2> QED BY <1>3, <2>1, <2>7, <2>9, <2>10, <2>11 DEF Talk
  <1>7. ASSUME NEW o \in Owner, AttachRefused(o) PROVE Talk(o, 0)
    <2>1. from' = Append(from, o) /\ UNCHANGED <<memory, items, halfway>>
      BY <1>7 DEF AttachRefused, Message
    <2>2. \A j : Said(j)' = Said(j)
      BY <1>4, <2>1 DEF memory
    <2> QED BY <2>1, <2>2 DEF Talk, memory, Elements
  <1>8. ASSUME NEW o \in Owner, AttachHalfway(o) PROVE Talk(o, 0)
    <2>1. /\ from' = Append(from, o) /\ UNCHANGED memory
          /\ items' = Append(items, <<This>>) /\ halfway' = halfway + 1
      BY <1>8 DEF AttachHalfway, Message
    <2>2. \A j : Said(j)' = Said(j)
      BY <1>4, <2>1 DEF memory
    <2>3. items' = Append(items, Append(Said(0), This)) /\ Said(0)' = <<>>
      BY <1>2, <1>3, <2>1
    <2> QED BY <2>1, <2>2, <2>3 DEF Talk, memory, Elements
  <1>9. ASSUME NEW o \in Owner, Close(o) PROVE Quiet
    <2>1. /\ active' = [active EXCEPT ![o] = 0]
          /\ UNCHANGED <<episodes, replies, serial, items, from, halfway>>
      BY <1>9 DEF Close
    <2>2. \A j : Said(j)' = Said(j)
      BY <1>4, <2>1
    <2>3. \A p \in Owner : active'[p] \in {0, active[p]}
      BY <1>1, <2>1
    <2> QED BY <2>1, <2>2, <2>3 DEF Quiet
  <1>10. CASE Wait
    <2>1. /\ episodes' = [e \in Live |-> [episodes[e] EXCEPT !.fresh = FALSE]]
          /\ UNCHANGED <<active, replies, serial, items, from, halfway>>
      BY <1>10 DEF Wait
    <2>2. ASSUME NEW j PROVE Said(j)' = Said(j)
      <3>1. DOMAIN episodes' = DOMAIN episodes
        BY <2>1 DEF Live
      <3>2. ASSUME j \in DOMAIN episodes PROVE episodes'[j].draft = episodes[j].draft
        <4>1. episodes'[j] = [episodes[j] EXCEPT !.fresh = FALSE] /\ episodes[j] \in Episode
          BY <1>1, <2>1, <3>2 DEF Live
        <4> QED BY <4>1 DEF Episode
      <3> QED BY <3>1, <3>2, SaidIs
    <2> QED BY <2>1, <2>2 DEF Quiet
  <1>11. CASE Lock
    <2>1. UNCHANGED <<memory, items, from, halfway>>
      BY <1>11 DEF Lock
    <2>2. \A j : Said(j)' = Said(j)
      BY <1>4, <2>1 DEF memory
    <2> QED BY <2>1, <2>2 DEF Quiet, memory
  <1>12. CASE Restart
    <2>1. /\ episodes' = << >> /\ active' = [o \in Owner |-> 0] /\ replies' = <<>>
          /\ serial' = 0 /\ serial > 0 /\ UNCHANGED <<items, from, halfway>>
      BY <1>12 DEF Restart
    <2>2. \A j : Said(j)' = <<>>
      <3>1. DOMAIN episodes' = {}
        BY <2>1
      <3> QED BY <3>1, SaidIs
    <2> QED BY <2>1, <2>2 DEF Quiet
  <1>13. CASE UNCHANGED vars
    <2>1. UNCHANGED <<memory, items, from, halfway>>
      BY <1>13 DEF vars
    <2>2. \A j : Said(j)' = Said(j)
      BY <1>4, <2>1 DEF memory
    <2> QED BY <2>1, <2>2 DEF Quiet, memory
  <1>14. 0 \in Nat
    OBVIOUS
  <1> QED BY <1>5, <1>6, <1>7, <1>8, <1>9, <1>10, <1>11, <1>12, <1>13, <1>14 DEF Next

LEMMA ReachIs ==
  ASSUME NEW o, NEW k
  PROVE  /\ k \in Reach(o) <=> /\ k \in DOMAIN episodes
                               /\ \/ active[o] = k /\ episodes[k].fresh
                                  \/ [owner |-> o, key |-> k] \in Elements(replies)
         /\ k \in Reach(o)' <=> /\ k \in DOMAIN episodes'
                                /\ \/ active'[o] = k /\ episodes'[k].fresh
                                   \/ [owner |-> o, key |-> k] \in Elements(replies')
  <1>1. k \in Reach(o) <=> /\ k \in DOMAIN episodes
                           /\ \/ active[o] = k /\ episodes[k].fresh
                              \/ [owner |-> o, key |-> k] \in Elements(replies)
    BY DEF Reach, Live
  <1>2. k \in Reach(o)' <=> /\ k \in DOMAIN episodes'
                            /\ \/ active'[o] = k /\ episodes'[k].fresh
                               \/ [owner |-> o, key |-> k] \in Elements(replies')
    BY DEF Reach, Live
  <1> QED BY <1>1, <1>2

\* A message takes no draft that is still there out of an owner's reach, but by
\* its being of that owner and elsewhere, or by being remembered itself.
LEMMA ReachOfText ==
  ASSUME MemoryInv, NEW p \in Owner, Text(p), NEW o \in Owner, NEW k \in Reach(o),
         Words(k) # <<>>, k \in Live'
  PROVE  k \in Reach(o)' \/ LeftAlone(o, k)
  <1> DEFINE r == [owner |-> o, key |-> k]
  <1>1. PICK f : Lookup(p, f) /\ (Kept(p, f) \/ \E e : GoesOn(p, f, e))
    BY TextFacts
  <1>2. /\ k \in Live /\ k \in DOMAIN episodes'
        /\ (active[o] = k /\ episodes[k].fresh) \/ r \in Elements(replies)
    BY ReachIs DEF Live
  <1>3. /\ serial \in Nat /\ Live \subseteq 1..serial /\ active \in [Owner -> Nat]
        /\ items \in Seq(Seq(Nat)) /\ k # 0 /\ episodes \in [Live -> Episode]
    BY <1>2 DEF MemoryInv
  <1>4. /\ f.key \in DOMAIN f.episodes /\ f.episodes \in [DOMAIN f.episodes -> Episode]
        /\ DOMAIN f.episodes \subseteq 1..f.serial /\ f.serial \in Nat
        /\ f.recent \in Seq(Nat) /\ Elements(f.recent) = DOMAIN f.episodes
        /\ Distinct(f.recent) /\ Len(f.recent) <= EpisodeLimit
        /\ f.recent[Len(f.recent)] = f.key
    BY <1>1 DEF Lookup
  <1>5. k \in DOMAIN f.episodes => f.episodes[k] = episodes[k]
    <2>1. CASE k = f.key
      <3>1. ~NewEpisode(f)
        BY <1>2, <1>3, <2>1 DEF NewEpisode
      <3> QED BY <1>1, <2>1, <3>1 DEF Lookup, OldEpisode
    <2>2. CASE k # f.key
      BY <1>1, <2>2 DEF Lookup
    <2> QED BY <2>1, <2>2
  <1>6. CASE Kept(p, f)
    <2>1. Left(p, f.episodes, f.key)
      BY <1>4, <1>6, DiscardedFacts DEF Kept
    <2>2. /\ k \in DOMAIN f.episodes /\ k # f.key /\ episodes'[k] = f.episodes[k]
          /\ active'[o] = IF o = p THEN 0 ELSE active[o]
          /\ r \in Elements(replies) => r \in Elements(replies')
      BY <1>2, <2>1 DEF Left
    <2>3. Len(items') > Len(items)
      <3>1. items' = Append(items, Grown(f))
        BY <1>6 DEF Kept
      <3>2. Grown(f) \in Seq(Nat)
        <4>1. f.episodes[f.key] \in Episode /\ from \in Seq(Owner)
          BY <1>4 DEF MemoryInv
        <4> QED BY <4>1, DraftedFacts
      <3> QED BY <1>3, <3>1, <3>2
    <2>4. CASE r \in Elements(replies)
      BY <1>2, <2>2, <2>4, ReachIs
    <2>5. CASE active[o] = k /\ episodes[k].fresh
      <3>1. CASE o = p
        BY <1>3, <2>2, <2>3, <2>5, <3>1 DEF LeftAlone
      <3>2. CASE o # p
        BY <1>2, <1>5, <2>2, <2>5, <3>2, ReachIs
      <3> QED BY <3>1, <3>2
    <2> QED BY <1>2, <2>4, <2>5
  <1>7. CASE \E e : GoesOn(p, f, e)
    <2>1. PICK e : GoesOn(p, f, e)
      BY <1>7
    <2>2. /\ k \in DOMAIN f.episodes /\ (f.episodes[f.key].fresh => e.fresh)
          /\ f.episodes[f.key].draft = NoDraft \/ active'[p] = f.key
          /\ episodes'[k] = IF k = f.key THEN e ELSE f.episodes[k]
          /\ recent' = f.recent /\ (o # p => active'[o] = active[o])
          /\ (o = p => active'[o] \in {0, f.key})
          /\ replies' \in {replies, Remembered(p, f.key)}
      BY <1>2, <2>1 DEF GoesOn
    <2>3. episodes[k].fresh => episodes'[k].fresh
      BY <1>5, <2>2
    <2>4. CASE r \in Elements(replies)
      <3>1. CASE r \in Elements(replies')
        BY <1>2, <3>1, ReachIs
      <3>2. CASE r \notin Elements(replies')
        <4>1. replies' = Remembered(p, f.key) /\ replies' # replies
          BY <2>2, <2>4, <3>2
        <4>2. f.key \in Nat
          BY <1>4
        <4>3. Len(replies) = ReplyLimit /\ r = Head(replies)
          BY <2>4, <3>2, <4>1, <4>2, RememberedFacts
        <4> QED BY <4>1, <4>3 DEF LeftAlone
      <3> QED BY <3>1, <3>2
    <2>5. CASE active[o] = k /\ episodes[k].fresh
      <3>1. CASE active'[o] = k
        BY <1>2, <2>3, <2>5, <3>1, ReachIs
      <3>2. CASE active'[o] # k
        <4>1. o = p
          BY <2>2, <2>5, <3>2
        <4>2. k # f.key
          <5>1. episodes[k].draft # NoDraft
            BY DEF Words
          <5> QED BY <1>5, <2>2, <3>2, <4>1, <5>1
        <4>3. recent'[Len(recent')] # k
          BY <1>4, <2>2, <4>2
        <4> QED BY <2>5, <3>2, <4>3 DEF LeftAlone
      <3> QED BY <3>1, <3>2
    <2> QED BY <1>2, <2>4, <2>5
  <1> QED BY <1>1, <1>6, <1>7

LEMMA ReachStep ==
  ASSUME MemoryInv, [Next]_vars, NEW o \in Owner, NEW k \in Reach(o),
         Words(k) # <<>>, k \in Live'
  PROVE  k \in Reach(o)' \/ LeftAlone(o, k)
  <1> DEFINE r == [owner |-> o, key |-> k]
  <1>1. /\ k \in Live /\ k \in DOMAIN episodes'
        /\ (active[o] = k /\ episodes[k].fresh) \/ r \in Elements(replies)
    BY ReachIs DEF Live
  <1>2. /\ serial \in Nat /\ Live \subseteq 1..serial /\ episodes \in [Live -> Episode]
        /\ active \in [Owner -> Nat] /\ k # 0 /\ recent \in Seq(Nat) /\ Elements(recent) = Live
        /\ Distinct(recent) /\ Len(recent) <= EpisodeLimit /\ items \in Seq(Seq(Nat))
    BY <1>1 DEF MemoryInv
  <1>3. ASSUME UNCHANGED memory PROVE k \in Reach(o)'
    BY <1>1, <1>3, ReachIs DEF memory, Elements
  <1>4. ASSUME NEW p \in Owner, Text(p) PROVE k \in Reach(o)' \/ LeftAlone(o, k)
    BY <1>4, ReachOfText
  <1>5. ASSUME NEW p \in Owner, Attach(p) PROVE k \in Reach(o)' \/ LeftAlone(o, k)
    <2>1. Discarded(p, episodes, recent, active[p]) /\ items' = Append(items, <<This>>)
      BY <1>5 DEF Attach
    <2>2. PICK key : key = active[p]
      OBVIOUS
    <2>3. PICK eps : eps = episodes
      OBVIOUS
    <2>4. Left(p, eps, key)
      BY <1>2, <2>1, <2>2, <2>3, DiscardedFacts DEF Live
    <2>5. /\ k # key /\ episodes'[k] = episodes[k]
          /\ active'[o] = IF o = p THEN 0 ELSE active[o]
          /\ r \in Elements(replies) => r \in Elements(replies')
      BY <1>1, <2>3, <2>4 DEF Left, Live
    <2>6. active[o] = k => active'[o] = k
      BY <2>2, <2>5
    <2> QED BY <1>1, <2>5, <2>6, ReachIs
  <1>6. ASSUME NEW p \in Owner, AttachRefused(p) \/ AttachHalfway(p) PROVE k \in Reach(o)'
    BY <1>3, <1>6 DEF AttachRefused, AttachHalfway
  <1>7. ASSUME NEW p \in Owner, Close(p) PROVE k \in Reach(o)' \/ LeftAlone(o, k)
    <2>1. /\ active' = [active EXCEPT ![p] = 0]
          /\ UNCHANGED <<episodes, recent, replies, serial, items, from>>
      BY <1>7 DEF Close
    <2>2. CASE r \in Elements(replies)
      BY <1>1, <2>1, <2>2, ReachIs
    <2>3. CASE active[o] = k /\ episodes[k].fresh
      <3>1. CASE active'[o] = k
        BY <1>1, <2>1, <2>3, <3>1, ReachIs
      <3>2. CASE active'[o] # k
        BY <2>1, <2>3, <3>2 DEF LeftAlone
      <3> QED BY <3>1, <3>2
    <2> QED BY <1>1, <2>2, <2>3
  <1>8. CASE Wait
    <2>1. /\ episodes' = [e \in Live |-> [episodes[e] EXCEPT !.fresh = FALSE]]
          /\ UNCHANGED <<recent, active, replies, serial, items, from>>
      BY <1>8 DEF Wait
    <2>2. CASE r \in Elements(replies)
      BY <1>1, <2>1, <2>2, ReachIs
    <2>3. CASE active[o] = k
      <3>1. ~episodes'[k].fresh
        <4>1. episodes'[k] = [episodes[k] EXCEPT !.fresh = FALSE] /\ episodes[k] \in Episode
          BY <1>1, <1>2, <2>1
        <4> QED BY <4>1 DEF Episode
      <3> QED BY <2>1, <2>3, <3>1 DEF LeftAlone
    <2> QED BY <1>1, <2>2, <2>3
  <1>9. CASE Lock
    BY <1>3, <1>9 DEF Lock
  <1>10. ~Restart
    BY <1>1 DEF Restart
  <1>11. CASE UNCHANGED vars
    BY <1>3, <1>11 DEF vars
  <1> QED BY <1>4, <1>5, <1>6, <1>7, <1>8, <1>9, <1>10, <1>11 DEF Next

\* What an owner can go on to keep stays so until it is kept whole, for any
\* limits: no step alters what is in a draft, ends it but in the inbox, with the
\* process, as the least recently used of exactly EpisodeLimit episodes or by a
\* file of its owner's, or takes it out of its owner's reach but by the owner's
\* own turning away, by silence, or as the oldest of ReplyLimit messages
\* (episode, begin, turn, remember and discard together).
THEOREM DraftsStayInReach == Spec => DraftStaysInReach
  <1> DEFINE Stays(k) ==
       /\ k \in Live' /\ \E rest \in {<<>>, <<This>>} : Words(k)' = Words(k) \o rest
       /\ \A o \in Owner : k \in Reach(o) => k \in Reach(o)' \/ LeftAlone(o, k)
  <1>1. ASSUME MemoryInv, [Next]_vars
        PROVE  \A k \in Live : Words(k) # <<>> => Ended(k) \/ Stays(k)
    <2> HIDE DEF Stays
    <2> SUFFICES ASSUME MemoryInv, [Next]_vars, NEW k \in Live, Words(k) # <<>>
                 PROVE  Ended(k) \/ Stays(k)
      BY <1>1
    <2>1. Said(k) = Words(k) /\ k \in Nat /\ serial \in Nat /\ items \in Seq(Seq(Nat))
      <3>1. serial \in Nat /\ Live \subseteq 1..serial /\ items \in Seq(Seq(Nat))
        BY DEF MemoryInv
      <3> QED BY <3>1 DEF Said
    <2>2. Said(k) \in Seq(Nat) /\ This \in Nat /\ Said(k) \o <<>> = Said(k)
          /\ Said(k) \o <<This>> = Append(Said(k), This) /\ Append(Said(k), This) # <<>>
      <3>1. Said(k) \in Seq(Nat)
        BY SaidFacts
      <3>2. This \in Nat
        BY DEF This, MemoryInv
      <3> QED BY <3>1, <3>2
    <2>3. ASSUME Said(k)' # <<>> PROVE k \in Live' /\ Words(k)' = Said(k)'
      BY <2>3 DEF Said
    <2>4. ASSUME Said(k)' \in {Said(k), Append(Said(k), This)}
          PROVE  Stays(k)
      <3>1. k \in Live' /\ Words(k)' = Said(k)'
        BY <2>1, <2>2, <2>3, <2>4
      <3>2. Said(k)' = Said(k) => Words(k)' = Words(k) \o <<>>
        BY <2>1, <2>2, <3>1
      <3>3. Said(k)' = Append(Said(k), This) => Words(k)' = Words(k) \o <<This>>
        BY <2>1, <2>2, <3>1
      <3>4. \E rest \in {<<>>, <<This>>} : Words(k)' = Words(k) \o rest
        BY <2>4, <3>2, <3>3
      <3>5. \A o \in Owner : k \in Reach(o) => k \in Reach(o)' \/ LeftAlone(o, k)
        BY <3>1, ReachStep
      <3> QED BY <3>1, <3>4, <3>5 DEF Stays
    <2>5. ASSUME items' = Append(items, Append(Said(k), This))
          PROVE  \E i \in 1..Len(items') \ 1..Len(items) : items'[i] = Append(Words(k), This)
      <3>1. Append(Said(k), This) \in Seq(Nat)
        BY <2>2
      <3>2. Len(items) + 1 \in 1..Len(items') \ 1..Len(items)
        BY <2>1, <2>5, <3>1
      <3>3. items'[Len(items) + 1] = Append(Words(k), This)
        BY <2>1, <2>5, <3>1
      <3> QED BY <3>2, <3>3
    <2>8. ASSUME NEW o \in Owner, Goes(o, k) PROVE Ended(k)
      BY <2>8 DEF Goes, Ended
    <2>6. CASE \E o \in Owner, j \in Nat : Talk(o, j)
      <3>1. PICK o \in Owner, j \in Nat : Talk(o, j)
        BY <2>6
      <3>2. CASE k = j
        <4>1. \/ Said(k)' \in {Said(k), Append(Said(k), This)}
              \/ items' = Append(items, Append(Said(k), This))
          BY <3>1, <3>2 DEF Talk
        <4> QED BY <2>4, <2>5, <4>1 DEF Ended
      <3>3. CASE k # j
        <4>1. Said(k)' = Said(k) \/ Goes(o, k)
          BY <2>1, <3>1, <3>3 DEF Talk
        <4> QED BY <2>4, <2>8, <4>1
      <3> QED BY <3>2, <3>3
    <2>7. CASE Quiet
      <3>1. Said(k)' = Said(k) \/ (serial' = 0 /\ serial > 0)
        BY <2>1, <2>7 DEF Quiet
      <3>2. serial' = 0 /\ serial > 0 => serial' < serial
        BY <2>1
      <3> QED BY <2>4, <3>1, <3>2 DEF Ended
    <2> QED BY <2>6, <2>7, StepFacts
  <1>2. MemoryInv /\ [Next]_vars =>
          [\A k \in Live : Words(k) # <<>> =>
             \/ Ended(k)
             \/ /\ k \in Live' /\ \E rest \in {<<>>, <<This>>} : Words(k)' = Words(k) \o rest
                /\ \A o \in Owner : k \in Reach(o) => k \in Reach(o)' \/ LeftAlone(o, k)]_vars
    BY <1>1
  <1> QED BY <1>2, MemoryAlways, PTL DEF Spec, DraftStaysInReach

-----------------------------------------------------------------------------
(*****************************************************************************)
(* V. Drafts hold different messages, in order, and one owner's each.        *)
(*****************************************************************************)

\* Messages that were sent, in the order they were.
Good(seq) == Rising(seq) /\ Elements(seq) \subseteq 1..Len(from)

DraftInv ==
  /\ \A k \in Live : Good(Words(k))
  /\ \A j, k \in Live : j # k => Elements(Words(j)) \cap Elements(Words(k)) = {}

\* of gives every episode its owner, whether it is still live or not.
Belongs(of) ==
  /\ \A o \in Owner : active[o] # 0 => of[active[o]] = o
  /\ \A r \in Elements(replies) : of[r.key] = r.owner
  /\ \A k \in Live : \A m \in Elements(Words(k)) : from[m] = of[k]

OwnerInv == \E of \in [1..serial -> Owner] : Belongs(of)

LEMMA RisingAppend ==
  ASSUME NEW s \in Seq(Nat), NEW n \in Nat, Rising(s), Elements(s) \subseteq 1..n
  PROVE  /\ Append(s, n + 1) \in Seq(Nat) /\ Rising(Append(s, n + 1))
         /\ Elements(Append(s, n + 1)) = Elements(s) \cup {n + 1}
         /\ Elements(Append(s, n + 1)) \subseteq 1..n + 1
  <1> DEFINE t == Append(s, n + 1)
             l == Len(s)
  <1>1. /\ t \in Seq(Nat) /\ Len(t) = l + 1 /\ t[l + 1] = n + 1
        /\ \A i \in 1..l : t[i] = s[i]
        /\ Elements(t) = Elements(s) \cup {n + 1}
    BY AppendFacts
  <1>2. l \in Nat /\ (\A i \in 1..l + 1 : i \in 1..l \/ i = l + 1)
    OBVIOUS
  <1>3. \A i \in 1..l : s[i] \in 1..n
    BY DEF Elements
  <1> HIDE DEF t, l
  <1>4. \A i, j \in 1..l : i < j => s[i] < s[j]
    BY DEF Rising, l
  <1>5. Rising(t)
    <2> SUFFICES ASSUME NEW i \in 1..l + 1, NEW j \in 1..l + 1, i < j PROVE t[i] < t[j]
      BY <1>1 DEF Rising
    <2>1. i \in 1..l /\ t[i] = s[i]
      BY <1>1, <1>2
    <2>2. CASE j = l + 1
      <3>1. s[i] \in 1..n /\ t[j] = n + 1
        BY <1>1, <1>3, <2>1, <2>2
      <3> QED BY <2>1, <3>1
    <2>3. CASE j \in 1..l
      <3>1. t[j] = s[j] /\ s[i] < s[j]
        BY <1>1, <1>4, <2>1, <2>3
      <3> QED BY <2>1, <3>1
    <2> QED BY <1>2, <2>2, <2>3
  <1>6. \A m \in 1..n : m \in 1..n + 1
    OBVIOUS
  <1> QED BY <1>1, <1>5, <1>6 DEF t

\* The invariant of the drafts, for every key.
LEMMA DraftsSaid ==
  ASSUME MemoryInv, DraftInv
  PROVE  /\ \A k \in Nat : Good(Said(k))
         /\ \A j, k \in Nat : j # k => Elements(Said(j)) \cap Elements(Said(k)) = {}
  <1>1. Elements(<<>>) = {} /\ Good(<<>>)
    BY DEF Elements, Good, Rising
  <1>2. \A k \in Nat : Said(k) = <<>> \/ (k \in Live /\ Said(k) = Words(k))
    BY DEF Said
  <1>3. \A k \in Nat : Good(Said(k))
    BY <1>1, <1>2, Zenon DEF DraftInv
  <1>4. ASSUME NEW j \in Nat, NEW k \in Nat, j # k
        PROVE  Elements(Said(j)) \cap Elements(Said(k)) = {}
    <2>1. CASE Said(j) = <<>> \/ Said(k) = <<>>
      BY <1>1, <2>1
    <2>2. CASE j \in Live /\ Said(j) = Words(j) /\ k \in Live /\ Said(k) = Words(k)
      BY <1>4, <2>2 DEF DraftInv
    <2> QED BY <1>2, <2>1, <2>2
  <1> QED BY <1>3, <1>4

\* After a message only the draft of its episode may have it, at the end.
LEMMA TalkSaid ==
  ASSUME MemoryInv, DraftInv, NEW o \in Owner, NEW k \in Nat, Talk(o, k)
  PROVE  /\ Len(from) \in Nat /\ This = Len(from) + 1 /\ Len(from') = Len(from) + 1
         /\ from'[Len(from) + 1] = o /\ \A m \in 1..Len(from) : from'[m] = from[m]
         /\ \A j \in Nat \ {k} : Said(j)' \in {Said(j), <<>>}
         /\ Said(k)' \in {Said(k), <<>>, Append(Said(k), This)}
         /\ Append(Said(k), This) \in Seq(Nat) /\ Rising(Append(Said(k), This))
         /\ Elements(Append(Said(k), This)) = Elements(Said(k)) \cup {Len(from) + 1}
         /\ \A j \in Nat : Rising(Said(j)) /\ Elements(Said(j)) \subseteq 1..Len(from)
  <1>1. /\ from \in Seq(Owner) /\ Len(from) \in Nat /\ from' = Append(from, o)
    BY DEF MemoryInv, Talk
  <1>2. /\ Len(from') = Len(from) + 1 /\ from'[Len(from) + 1] = o
        /\ \A m \in 1..Len(from) : from'[m] = from[m]
    BY <1>1
  <1>3. \A j \in Nat : Rising(Said(j)) /\ Elements(Said(j)) \subseteq 1..Len(from)
    BY DraftsSaid DEF Good
  <1>4. Said(k) \in Seq(Nat) /\ This = Len(from) + 1
    BY SaidFacts DEF This
  <1>5. /\ Append(Said(k), This) \in Seq(Nat) /\ Rising(Append(Said(k), This))
        /\ Elements(Append(Said(k), This)) = Elements(Said(k)) \cup {Len(from) + 1}
    BY <1>1, <1>3, <1>4, RisingAppend
  <1>6. /\ \A j \in Nat \ {k} : Said(j)' \in {Said(j), <<>>}
        /\ Said(k)' \in {Said(k), <<>>, Append(Said(k), This)}
    BY DEF Talk
  <1> QED BY <1>1, <1>2, <1>3, <1>4, <1>5, <1>6

LEMMA DraftStep ==
  ASSUME MemoryInv, DraftInv, [Next]_vars
  PROVE  DraftInv'
  <1> DEFINE n == Len(from')
  <1>1. ASSUME \A k \in Nat : Rising(Said(k)') /\ Elements(Said(k)') \subseteq 1..n,
               \A j, k \in Nat : j # k => Elements(Said(j)') \cap Elements(Said(k)') = {}
        PROVE  DraftInv'
    <2>1. \A k \in Live' : k \in Nat /\ Said(k)' = Words(k)'
      BY MemoryStep DEF Said, MemoryInv
    <2>2. \A k \in Live' : Good(Words(k))'
      BY <1>1, <2>1 DEF Good, Rising, Elements
    <2>3. \A j, k \in Live' : j # k => Elements(Words(j)') \cap Elements(Words(k)') = {}
      BY <1>1, <2>1
    <2> QED BY <2>2, <2>3 DEF DraftInv, Elements
  <1>2. Elements(<<>>) = {} /\ Rising(<<>>)
    BY DEF Elements, Rising
  <1>3. CASE \E o \in Owner, k \in Nat : Talk(o, k)
    <2>1. PICK o \in Owner, k \in Nat : Talk(o, k)
      BY <1>3
    <2>2. /\ Len(from) \in Nat /\ n = Len(from) + 1
          /\ \A j \in Nat \ {k} : Said(j)' \in {Said(j), <<>>}
          /\ Said(k)' \in {Said(k), <<>>, Append(Said(k), This)}
          /\ Rising(Append(Said(k), This))
          /\ Elements(Append(Said(k), This)) = Elements(Said(k)) \cup {n}
          /\ \A j \in Nat : Rising(Said(j)) /\ Elements(Said(j)) \subseteq 1..Len(from)
      BY <2>1, TalkSaid
    <2> HIDE DEF n
    <2>3. (\A m \in 1..Len(from) : m \in 1..n) /\ n \in 1..n /\ n \notin 1..Len(from)
      BY <2>2
    <2>4. \A j \in Nat \ {k} : Rising(Said(j)') /\ Elements(Said(j)') \subseteq Elements(Said(j))
      BY <1>2, <2>2
    <2>5. Rising(Said(k)') /\ Elements(Said(k)') \subseteq Elements(Said(k)) \cup {n}
      BY <1>2, <2>2
    <2>6. \A j \in Nat : Rising(Said(j)') /\ Elements(Said(j)') \subseteq 1..n
      BY <2>2, <2>3, <2>4, <2>5
    <2>7. \A i, j \in Nat : i # j => Elements(Said(i)) \cap Elements(Said(j)) = {}
      BY DraftsSaid
    <2>8. ASSUME NEW i \in Nat, NEW j \in Nat, i # j
          PROVE  Elements(Said(i)') \cap Elements(Said(j)') = {}
      <3>1. Elements(Said(i)) \cap Elements(Said(j)) = {}
        BY <2>7, <2>8
      <3>2. n \notin Elements(Said(i)) /\ n \notin Elements(Said(j))
        BY <2>2, <2>3
      <3>3. /\ i # k => Elements(Said(i)') \subseteq Elements(Said(i))
            /\ j # k => Elements(Said(j)') \subseteq Elements(Said(j))
        BY <2>4
      <3> QED BY <2>5, <2>8, <3>1, <3>2, <3>3
    <2> QED BY <1>1, <2>6, <2>8
  <1>4. CASE Quiet
    <2>1. n = Len(from) /\ \A j \in Nat : Said(j)' \in {Said(j), <<>>}
      BY <1>4 DEF Quiet
    <2>2. \A j \in Nat : Rising(Said(j)) /\ Elements(Said(j)) \subseteq 1..n
      BY <2>1, DraftsSaid DEF Good
    <2>3. \A i, j \in Nat : i # j => Elements(Said(i)) \cap Elements(Said(j)) = {}
      BY DraftsSaid
    <2>4. \A j \in Nat : Rising(Said(j)') /\ Elements(Said(j)') \subseteq Elements(Said(j))
      BY <1>2, <2>1, <2>2
    <2> HIDE DEF n
    <2>5. \A j \in Nat : Rising(Said(j)') /\ Elements(Said(j)') \subseteq 1..n
      BY <2>2, <2>4
    <2>6. \A i, j \in Nat : i # j => Elements(Said(i)') \cap Elements(Said(j)') = {}
      BY <2>3, <2>4
    <2> QED BY <1>1, <2>5, <2>6
  <1> QED BY <1>3, <1>4, StepFacts

\* What is in the draft that a message joins is of the same owner.
LEMMA TalkOwner ==
  ASSUME MemoryInv, OwnerInv, NEW o \in Owner, NEW k \in Nat, Talk(o, k)
  PROVE  \A m \in Elements(Said(k)) : from[m] = o
  <1>1. PICK of \in [1..serial -> Owner] : Belongs(of)
    BY DEF OwnerInv
  <1>2. SUFFICES ASSUME NEW m \in Elements(Said(k)) PROVE from[m] = o
    OBVIOUS
  <1>3. k \in Live /\ Said(k) = Words(k)
    <2>1. Elements(<<>>) = {}
      BY DEF Elements
    <2> QED BY <2>1 DEF Said
  <1>4. k # 0 /\ k # serial + 1
    BY <1>3 DEF MemoryInv
  <1>5. k = active[o] \/ \E r \in Elements(replies) : r.owner = o /\ r.key = k
    BY <1>4 DEF Talk
  <1>6. of[k] = o
    BY <1>1, <1>4, <1>5 DEF Belongs
  <1> QED BY <1>1, <1>2, <1>3, <1>6 DEF Belongs

LEMMA OwnerStep ==
  ASSUME MemoryInv, DraftInv, OwnerInv, [Next]_vars
  PROVE  OwnerInv'
  <1>1. PICK of \in [1..serial -> Owner] : Belongs(of)
    BY DEF OwnerInv
  <1>2. /\ \A o \in Owner : active[o] # 0 => of[active[o]] = o
        /\ \A r \in Elements(replies) : of[r.key] = r.owner
        /\ \A k \in Live : \A m \in Elements(Words(k)) : from[m] = of[k]
    BY <1>1 DEF Belongs
  <1>3. /\ serial \in Nat /\ Live \subseteq 1..serial
        /\ active \in [Owner -> Nat] /\ \A o \in Owner : active[o] <= serial
        /\ \A r \in Elements(replies) : r.key \in 1..serial
    BY DEF MemoryInv
  <1>4. \A o \in Owner : active[o] # 0 => active[o] \in 1..serial
    <2>1. \A o \in Owner : active[o] \in Nat /\ active[o] <= serial
      BY <1>3
    <2> QED BY <1>3, <2>1
  <1>5. MemoryInv'
    BY MemoryStep
  <1>6. /\ serial' \in Nat /\ Live' \subseteq 1..serial'
        /\ \A r \in Elements(replies') : r.key \in 1..serial'
    BY <1>5 DEF MemoryInv, Elements
  <1>7. Elements(<<>>) = {}
    BY DEF Elements
  <1>8. \A k \in Live' : Said(k)' = Words(k)'
    BY DEF Said
  <1>9. \A j \in Nat : \A m \in Elements(Said(j)) : j \in Live /\ from[m] = of[j]
    BY <1>2, <1>7 DEF Said
  <1>10. ASSUME NEW g \in [1..serial' -> Owner],
                \A o \in Owner : active'[o] # 0 => g[active'[o]] = o,
                \A r \in Elements(replies') : g[r.key] = r.owner,
                \A k \in Live' : \A m \in Elements(Said(k)') : from'[m] = g[k]
         PROVE  OwnerInv'
    <2>1. Belongs(g)'
      BY <1>8, <1>10 DEF Belongs, Elements
    <2> QED BY <2>1 DEF OwnerInv
  <1>11. CASE \E o \in Owner, k \in Nat : Talk(o, k)
    <2>1. PICK o \in Owner, k \in Nat : Talk(o, k)
      BY <1>11
    <2>2. PICK last : last = serial'
      OBVIOUS
    <2> DEFINE g == [j \in 1..last |-> IF j = k THEN o ELSE of[j]]
    <2>3. \/ k = 0 /\ last = serial
          \/ /\ k \in Live /\ last = serial
             /\ k = active[o] \/ \E r \in Elements(replies) : r.owner = o /\ r.key = k
          \/ k = serial + 1 /\ last = k
      BY <2>1, <2>2 DEF Talk
    <2>4. \A j \in 1..last : j = k \/ j \in 1..serial
      BY <1>3, <2>3
    <2>5. k \in 1..serial => of[k] = o
      <3>1. ASSUME k \in 1..serial PROVE k # 0 /\ k # serial + 1
        BY <1>3, <3>1
      <3> QED BY <1>2, <2>3, <3>1
    <2>6. g \in [1..last -> Owner]
      BY <1>1, <2>4
    <2>7. \A j \in 1..serial : j \in 1..last /\ g[j] = of[j]
      <3>1. \A j \in 1..serial : j \in 1..last
        BY <1>3, <2>3
      <3> QED BY <2>5, <3>1
    <2>8. k \in 1..last => g[k] = o
      OBVIOUS
    <2> HIDE DEF g
    <2>9. k # 0 => k \in 1..last
      BY <1>3, <2>3
    <2>10. ASSUME NEW p \in Owner, active'[p] # 0 PROVE g[active'[p]] = p
      <3>1. active'[p] \in {0, active[p]} \/ (p = o /\ active'[p] = k)
        BY <2>1 DEF Talk
      <3>2. CASE active'[p] = active[p]
        BY <1>2, <1>4, <2>7, <2>10, <3>2
      <3>3. CASE p = o /\ active'[p] = k
        BY <2>8, <2>9, <2>10, <3>3
      <3> QED BY <2>10, <3>1, <3>2, <3>3
    <2>11. ASSUME NEW r \in Elements(replies') PROVE g[r.key] = r.owner
      <3>1. r \in Elements(replies) \/ r = [owner |-> o, key |-> k]
        BY <2>1 DEF Talk
      <3>2. CASE r \in Elements(replies)
        BY <1>2, <1>3, <2>7, <3>2
      <3>3. CASE r = [owner |-> o, key |-> k]
        <4>1. r.key = k /\ r.owner = o /\ k \in 1..last
          BY <1>6, <2>2, <3>3
        <4> QED BY <2>8, <4>1
      <3> QED BY <3>1, <3>2, <3>3
    <2>12. /\ Len(from) \in Nat
           /\ from'[Len(from) + 1] = o /\ \A m \in 1..Len(from) : from'[m] = from[m]
           /\ \A j \in Nat \ {k} : Said(j)' \in {Said(j), <<>>}
           /\ Said(k)' \in {Said(k), <<>>, Append(Said(k), This)}
           /\ Elements(Append(Said(k), This)) = Elements(Said(k)) \cup {Len(from) + 1}
           /\ \A j \in Nat : Elements(Said(j)) \subseteq 1..Len(from)
      BY <2>1, TalkSaid
    <2>13. ASSUME NEW j \in Live', NEW m \in Elements(Said(j)') PROVE from'[m] = g[j]
      <3>1. j \in Nat /\ j \in 1..last
        BY <1>6, <2>2
      <3>2. m \in Elements(Said(j)) \/ (j = k /\ m = Len(from) + 1)
        BY <1>7, <2>12, <2>13, <3>1
      <3>3. CASE m \in Elements(Said(j))
        <4>1. from'[m] = from[m] /\ from[m] = of[j] /\ j \in 1..serial
          BY <1>3, <1>9, <2>12, <3>1, <3>3
        <4> QED BY <2>7, <4>1
      <3>4. CASE j = k /\ m = Len(from) + 1
        BY <2>8, <2>12, <3>1, <3>4
      <3> QED BY <3>2, <3>3, <3>4
    <2> QED BY <1>10, <2>2, <2>6, <2>10, <2>11, <2>13
  <1>12. CASE Quiet
    <2>1. from' = from
      BY <1>12 DEF Quiet
    <2>2. CASE /\ serial' = serial /\ replies' = replies /\ \A j \in Nat : Said(j)' = Said(j)
               /\ \A p \in Owner : active'[p] \in {0, active[p]}
      <3>1. \A o \in Owner : active'[o] # 0 => of[active'[o]] = o
        BY <1>2, <2>2
      <3>2. \A r \in Elements(replies') : of[r.key] = r.owner
        BY <1>2, <2>2
      <3>3. \A k \in Live' : \A m \in Elements(Said(k)') : from'[m] = of[k]
        <4>1. \A k \in Live' : k \in Nat
          BY <1>6
        <4> QED BY <1>9, <2>1, <2>2, <4>1
      <3>4. of \in [1..serial' -> Owner]
        BY <2>2
      <3> QED BY <1>10, <3>1, <3>2, <3>3, <3>4
    <2>3. CASE /\ serial' = 0 /\ replies' = <<>> /\ \A j \in Nat : Said(j)' = <<>>
               /\ \A p \in Owner : active'[p] = 0
      <3> DEFINE g == [j \in {} |-> CHOOSE o \in Owner : TRUE]
      <3>1. g \in [1..serial' -> Owner]
        BY <2>3
      <3>2. \A r \in Elements(replies') : g[r.key] = r.owner
        BY <1>7, <2>3
      <3>3. \A k \in Live' : \A m \in Elements(Said(k)') : from'[m] = g[k]
        <4>1. \A k \in Live' : k \in Nat
          BY <1>6
        <4> QED BY <1>7, <2>3, <4>1
      <3> HIDE DEF g
      <3> QED BY <1>10, <2>3, <3>1, <3>2, <3>3
    <2> QED BY <1>12, <2>2, <2>3 DEF Quiet
  <1> QED BY <1>11, <1>12, StepFacts

LEMMA OwnersAlways == Spec => [](MemoryInv /\ DraftInv /\ OwnerInv)
  <1>1. Init => DraftInv /\ OwnerInv
    <2> SUFFICES ASSUME Init PROVE DraftInv /\ OwnerInv
      OBVIOUS
    <2>1. /\ episodes = << >> /\ active = [o \in Owner |-> 0] /\ replies = <<>> /\ serial = 0
      BY DEF Init
    <2>2. Live = {} /\ Elements(replies) = {}
      BY <2>1 DEF Live, Elements
    <2> DEFINE g == [j \in {} |-> CHOOSE o \in Owner : TRUE]
    <2>3. g \in [1..serial -> Owner]
      BY <2>1
    <2> HIDE DEF g
    <2>4. Belongs(g)
      BY <2>1, <2>2 DEF Belongs
    <2> QED BY <2>2, <2>3, <2>4 DEF DraftInv, OwnerInv
  <1>2. MemoryInv /\ DraftInv /\ OwnerInv /\ [Next]_vars => (MemoryInv /\ DraftInv /\ OwnerInv)'
    BY MemoryStep, DraftStep, OwnerStep
  <1> QED BY <1>1, <1>2, MemoryInit, PTL DEF Spec

\* No episode is within reach of two owners, and a draft within an owner's
\* reach has that owner's words only, for any owners, limits and order of
\* messages, evictions, discards and late replies (find and remember).
THEOREM OwnersStayApart == Spec => []OwnersApart
  <1>1. MemoryInv /\ DraftInv /\ OwnerInv => OwnersApart
    <2> SUFFICES ASSUME MemoryInv, OwnerInv PROVE OwnersApart
      OBVIOUS
    <2>1. PICK of \in [1..serial -> Owner] : Belongs(of)
      BY DEF OwnerInv
    <2>2. ASSUME NEW o \in Owner, NEW k \in Within(o) PROVE k \in Live /\ of[k] = o
      <3>1. k \in Live /\ k # 0
        BY <2>2 DEF Within, MemoryInv
      <3>2. CASE k = active[o]
        BY <2>1, <3>1, <3>2 DEF Belongs
      <3>3. CASE \E i \in 1..Len(replies) : replies[i].owner = o /\ k = replies[i].key
        <4>1. PICK i \in 1..Len(replies) : replies[i].owner = o /\ k = replies[i].key
          BY <3>3
        <4>2. replies[i] \in Elements(replies)
          BY DEF Elements
        <4> QED BY <2>1, <3>1, <4>1, <4>2 DEF Belongs
      <3> QED BY <2>2, <3>1, <3>2, <3>3 DEF Within
    <2>3. \A o \in Owner : \A k \in Within(o) : \A m \in Elements(Words(k)) : from[m] = o
      BY <2>1, <2>2 DEF Belongs
    <2>4. \A o \in Owner : \A p \in Owner \ {o} : Within(o) \cap Within(p) = {}
      BY <2>2
    <2> QED BY <2>3, <2>4 DEF OwnersApart
  <1> QED BY <1>1, OwnersAlways, PTL

-----------------------------------------------------------------------------
(*****************************************************************************)
(* VI. The inbox: the copies of a message, and those a live draft may add.   *)
(*****************************************************************************)

\* The items that hold message m.
Copies(m) == {i \in 1..Len(items) : m \in Elements(items[i])}

\* Every copy but one is of a store that failed; for what a draft still holds
\* every one is.
ItemInv ==
  /\ \A i \in 1..Len(items) :
       /\ items[i] # <<>> /\ Good(items[i])
       /\ \A m \in Elements(items[i]) : from[m] = from[items[i][1]]
  /\ \A m \in 1..Len(from) :
       /\ Cardinality(Copies(m)) <= 1 + halfway
       /\ (\E k \in Live : m \in Elements(Words(k))) => Cardinality(Copies(m)) <= halfway

LEMMA CopiesFacts ==
  ASSUME MemoryInv, NEW m
  PROVE  /\ IsFiniteSet(Copies(m)) /\ Cardinality(Copies(m)) \in Nat
         /\ items' = items => Copies(m)' = Copies(m)
         /\ \A w \in Seq(Nat) : items' = Append(items, w) =>
              Cardinality(Copies(m)') = IF m \in Elements(w) THEN Cardinality(Copies(m)) + 1
                                        ELSE Cardinality(Copies(m))
  <1> DEFINE l == Len(items)
  <1>1. items \in Seq(Seq(Nat)) /\ l \in Nat
    BY DEF MemoryInv
  <1>2. IsFiniteSet(Copies(m))
    <2>1. IsFiniteSet(1..l)
      BY <1>1, FS_Interval
    <2> QED BY <2>1, FS_Subset DEF Copies
  <1>3. Cardinality(Copies(m)) \in Nat
    BY <1>2, FS_CardinalityType
  <1>4. items' = items => Copies(m)' = Copies(m)
    BY DEF Copies
  <1>5. ASSUME NEW w \in Seq(Nat), items' = Append(items, w)
        PROVE  Cardinality(Copies(m)') = IF m \in Elements(w) THEN Cardinality(Copies(m)) + 1
                                         ELSE Cardinality(Copies(m))
    <2>1. Len(items') = l + 1 /\ items'[l + 1] = w /\ \A i \in 1..l : items'[i] = items[i]
      BY <1>1, <1>5
    <2>2. (\A i : i \in 1..l + 1 <=> i \in 1..l \/ i = l + 1) /\ l + 1 \notin 1..l
      BY <1>1
    <2> HIDE DEF l
    <2>3. \A i : i \in Copies(m)' <=> i \in 1..l + 1 /\ m \in Elements(items'[i])
      BY <2>1 DEF Copies, Elements
    <2>4. \A i : i \in Copies(m) <=> i \in 1..l /\ m \in Elements(items[i])
      BY DEF Copies, l
    <2>5. CASE m \in Elements(w)
      <3>1. Copies(m)' = Copies(m) \cup {l + 1} /\ l + 1 \notin Copies(m)
        BY <2>1, <2>2, <2>3, <2>4, <2>5
      <3>2. Cardinality(Copies(m) \cup {l + 1}) = Cardinality(Copies(m)) + 1
        BY <1>2, <3>1, FS_AddElement
      <3> QED BY <2>5, <3>1, <3>2
    <2>6. CASE m \notin Elements(w)
      <3>1. Copies(m)' = Copies(m)
        BY <2>1, <2>2, <2>3, <2>4, <2>6
      <3> QED BY <2>6, <3>1
    <2> QED BY <2>5, <2>6
  <1> QED BY <1>2, <1>3, <1>4, <1>5

LEMMA ItemStep ==
  ASSUME MemoryInv, DraftInv, OwnerInv, ItemInv, [Next]_vars
  PROVE  ItemInv'
  <1> DEFINE n == Len(from)
             l == Len(items)
  <1>1. /\ items \in Seq(Seq(Nat)) /\ from \in Seq(Owner) /\ halfway \in Nat
        /\ n \in Nat /\ l \in Nat
    BY DEF MemoryInv
  <1>2. /\ \A i \in 1..l : items[i] # <<>> /\ Rising(items[i]) /\ Elements(items[i]) \subseteq 1..n
        /\ \A i \in 1..l : \A m \in Elements(items[i]) : from[m] = from[items[i][1]]
    BY DEF ItemInv, Good
  <1>3. \A m \in 1..n : Cardinality(Copies(m)) <= 1 + halfway
    BY DEF ItemInv
  <1>4. Elements(<<>>) = {}
    BY DEF Elements
  <1>5. \A j \in Nat : \A m \in 1..n : m \in Elements(Said(j)) => Cardinality(Copies(m)) <= halfway
    BY <1>4 DEF ItemInv, Said
  <1>6. \A m : Cardinality(Copies(m)) \in Nat
    BY CopiesFacts
  <1>7. \A i \in 1..l : items[i][1] \in 1..n
    <2>1. ASSUME NEW i \in 1..l PROVE items[i][1] \in Elements(items[i])
      <3>1. items[i] \in Seq(Nat) /\ items[i] # <<>>
        BY <1>1, <1>2
      <3>2. 1 \in 1..Len(items[i])
        BY <3>1
      <3> QED BY <3>2 DEF Elements
    <2> QED BY <1>2, <2>1
  <1>8. ASSUME \A i \in 1..Len(items') :
                 /\ items'[i] # <<>> /\ Rising(items'[i]) /\ Elements(items'[i]) \subseteq 1..Len(from')
                 /\ \A m \in Elements(items'[i]) : from'[m] = from'[items'[i][1]],
               \A m \in 1..Len(from') : Cardinality(Copies(m)') <= 1 + halfway',
               \A j \in Nat : \A m \in Elements(Said(j)') : Cardinality(Copies(m)') <= halfway'
        PROVE  ItemInv'
    <2>1. \A k \in Live' : k \in Nat /\ Words(k)' = Said(k)'
      BY MemoryStep DEF MemoryInv, Said
    <2>2. \A m \in 1..Len(from') : (\E k \in Live' : m \in Elements(Words(k))')
                                     => Cardinality(Copies(m)') <= halfway'
      BY <1>8, <2>1 DEF Elements
    <2>3. \A i \in 1..Len(items') :
             /\ items'[i] # <<>> /\ Good(items[i])'
             /\ \A m \in Elements(items[i])' : from'[m] = from'[items'[i][1]]
      BY <1>8 DEF Good, Rising, Elements
    <2> QED BY <1>8, <2>2, <2>3 DEF ItemInv
  <1>9. CASE \E o \in Owner, k \in Nat : Talk(o, k)
    <2>1. PICK o \in Owner, k \in Nat : Talk(o, k)
      BY <1>9
    <2>2. PICK w : w = Append(Said(k), This)
      OBVIOUS
    <2>3. /\ Len(from') = n + 1 /\ from'[n + 1] = o /\ \A m \in 1..n : from'[m] = from[m]
          /\ \A j \in Nat \ {k} : Said(j)' \in {Said(j), <<>>}
          /\ Said(k)' \in {Said(k), <<>>, w}
          /\ w \in Seq(Nat) /\ Rising(w) /\ Elements(w) = Elements(Said(k)) \cup {n + 1}
          /\ \A j \in Nat : Rising(Said(j)) /\ Elements(Said(j)) \subseteq 1..n
      BY <2>1, <2>2, TalkSaid
    <2>4. \A m \in Elements(Said(k)) : from[m] = o
      BY <2>1, TalkOwner
    <2>5. \/ Said(k)' \in {Said(k), w} /\ UNCHANGED <<items, halfway>>
          \/ Said(k)' = <<>> /\ items' = Append(items, w) /\ halfway' = halfway
          \/ Said(k)' \in {<<>>, w} /\ items' = Append(items, w) /\ halfway' = halfway + 1
      BY <2>1, <2>2 DEF Talk
    <2>6. /\ \A m : m \in 1..n + 1 <=> m \in 1..n \/ m = n + 1
          /\ n + 1 \notin 1..n
      BY <1>1
    <2> HIDE DEF n
    <2>7. \A m \in Elements(w) : from'[m] = o /\ m \in 1..n + 1
      BY <2>3, <2>4, <2>6
    <2>8. Cardinality(Copies(n + 1)) = 0
      <3>1. Copies(n + 1) = {}
        BY <1>2, <2>6 DEF Copies
      <3> QED BY <3>1, FS_EmptySet
    <2>9. \A i \in 1..l : /\ items[i] # <<>> /\ Rising(items[i]) /\ Elements(items[i]) \subseteq 1..n + 1
                          /\ \A m \in Elements(items[i]) : from'[m] = from'[items[i][1]]
      BY <1>2, <1>7, <2>3, <2>6
    <2>10. CASE Said(k)' \in {Said(k), w} /\ UNCHANGED <<items, halfway>>
      <3>1. \A m : Copies(m)' = Copies(m)
        BY <2>10, CopiesFacts
      <3>2. \A m \in 1..n + 1 : Cardinality(Copies(m)) <= 1 + halfway
        <4>1. 0 <= 1 + halfway
          BY <1>1
        <4> QED BY <1>3, <2>6, <2>8, <4>1
      <3>3. ASSUME NEW j \in Nat, NEW m \in Elements(Said(j)') PROVE Cardinality(Copies(m)) <= halfway
        <4>1. m \in Elements(Said(j)) \/ m = n + 1
          BY <1>4, <2>3, <3>3
        <4>2. CASE m \in Elements(Said(j))
          BY <1>5, <2>3, <4>2
        <4>3. CASE m = n + 1
          BY <1>1, <2>8, <4>3
        <4> QED BY <4>1, <4>2, <4>3
      <3> QED BY <1>8, <2>3, <2>9, <2>10, <3>1, <3>2, <3>3
    <2>11. CASE /\ items' = Append(items, w) /\ halfway' \in {halfway, halfway + 1}
                /\ halfway' = halfway => Said(k)' = <<>>
      <3>1. /\ Len(items') = l + 1 /\ items'[l + 1] = w /\ \A i \in 1..l : items'[i] = items[i]
            /\ \A i : i \in 1..l + 1 <=> i \in 1..l \/ i = l + 1
        BY <1>1, <2>3, <2>11
      <3>2. w # <<>> /\ w[1] \in Elements(w)
        <4>1. n + 1 \in Elements(w)
          BY <2>3
        <4>2. w # <<>>
          BY <1>4, <4>1
        <4>3. 1 \in 1..Len(w)
          BY <2>3, <4>2
        <4> QED BY <4>2, <4>3 DEF Elements
      <3>3. \A i \in 1..l + 1 :
               /\ items'[i] # <<>> /\ Rising(items'[i]) /\ Elements(items'[i]) \subseteq 1..n + 1
               /\ \A m \in Elements(items'[i]) : from'[m] = from'[items'[i][1]]
        <4> HIDE DEF l
        <4>1. ASSUME NEW i \in 1..l
              PROVE  /\ items'[i] # <<>> /\ Rising(items'[i]) /\ Elements(items'[i]) \subseteq 1..n + 1
                     /\ \A m \in Elements(items'[i]) : from'[m] = from'[items'[i][1]]
          <5>1. items'[i] = items[i]
            BY <3>1
          <5> QED BY <2>9, <5>1
        <4>2. /\ items'[l + 1] # <<>> /\ Rising(items'[l + 1])
              /\ Elements(items'[l + 1]) \subseteq 1..n + 1
              /\ \A m \in Elements(items'[l + 1]) : from'[m] = from'[items'[l + 1][1]]
          BY <2>3, <2>7, <3>1, <3>2
        <4> QED BY <3>1, <4>1, <4>2
      <3>4. \A m : Cardinality(Copies(m)') = IF m \in Elements(w) THEN Cardinality(Copies(m)) + 1
                                             ELSE Cardinality(Copies(m))
        BY <2>3, <2>11, CopiesFacts
      <3>5. \A m \in Elements(Said(k)) : Cardinality(Copies(m)) <= halfway
        BY <1>5, <2>3
      <3>6. ASSUME NEW m \in 1..n + 1 PROVE Cardinality(Copies(m)') <= 1 + halfway'
        <4>1. CASE m \in Elements(w)
          <5>1. Cardinality(Copies(m)') = Cardinality(Copies(m)) + 1
            BY <3>4, <4>1
          <5>2. m \in Elements(Said(k)) \/ m = n + 1
            BY <2>3, <4>1
          <5>3. Cardinality(Copies(m)) <= halfway
            BY <1>1, <2>8, <3>5, <5>2
          <5> QED BY <1>1, <1>6, <2>11, <5>1, <5>3
        <4>2. CASE m \notin Elements(w)
          <5>1. Cardinality(Copies(m)') = Cardinality(Copies(m)) /\ m \in 1..n
            BY <2>3, <2>6, <3>4, <4>2
          <5>2. Cardinality(Copies(m)) <= 1 + halfway
            BY <1>3, <5>1
          <5> QED BY <1>1, <1>6, <2>11, <5>1, <5>2
        <4> QED BY <4>1, <4>2
      <3>7. ASSUME NEW j \in Nat, NEW m \in Elements(Said(j)') PROVE Cardinality(Copies(m)') <= halfway'
        <4>1. CASE j # k
          <5>1. m \in Elements(Said(j)) /\ m \in 1..n
            BY <1>4, <2>3, <3>7, <4>1
          <5>2. m \notin Elements(w)
            <6>1. Elements(Said(j)) \cap Elements(Said(k)) = {}
              BY <4>1, DraftsSaid
            <6> QED BY <2>3, <2>6, <5>1, <6>1
          <5>3. Cardinality(Copies(m)') = Cardinality(Copies(m)) /\ Cardinality(Copies(m)) <= halfway
            BY <1>5, <3>4, <5>1, <5>2
          <5> QED BY <1>1, <1>6, <2>11, <5>3
        <4>2. CASE j = k
          <5>1. halfway' = halfway + 1 /\ m \in Elements(w)
            BY <1>4, <2>3, <2>11, <3>7, <4>2
          <5>2. m \in Elements(Said(k)) \/ m = n + 1
            BY <2>3, <5>1
          <5>3. Cardinality(Copies(m)) <= halfway
            BY <1>1, <2>8, <3>5, <5>2
          <5>4. Cardinality(Copies(m)') = Cardinality(Copies(m)) + 1
            BY <3>4, <5>1
          <5> QED BY <1>1, <1>6, <5>1, <5>3, <5>4
        <4> QED BY <4>1, <4>2
      <3> QED BY <1>8, <2>3, <3>1, <3>3, <3>6, <3>7
    <2>12. CASE items' = Append(items, w)
      <3>1. /\ halfway' \in {halfway, halfway + 1}
            /\ halfway' = halfway => Said(k)' = <<>>
        <4>1. halfway # halfway + 1
          BY <1>1
        <4>2. items' # items
          <5>1. Len(items') = l + 1
            BY <1>1, <2>3, <2>12
          <5> QED BY <1>1, <5>1
        <4> QED BY <2>5, <4>1, <4>2
      <3> QED BY <2>11, <2>12, <3>1
    <2> QED BY <2>5, <2>10, <2>12
  <1>10. CASE Quiet
    <2>1. items' = items /\ from' = from /\ halfway' = halfway
      BY <1>10 DEF Quiet
    <2>2. \A j \in Nat : Said(j)' \in {Said(j), <<>>}
      BY <1>10 DEF Quiet
    <2>3. \A m : Copies(m)' = Copies(m)
      BY <2>1, CopiesFacts
    <2>4. \A j \in Nat : Elements(Said(j)) \subseteq 1..n
      BY DraftsSaid DEF Good
    <2>5. \A j \in Nat : \A m \in Elements(Said(j)') : Cardinality(Copies(m)) <= halfway
      BY <1>4, <1>5, <2>2, <2>4
    <2> QED BY <1>2, <1>3, <1>8, <2>1, <2>3, <2>5
  <1> QED BY <1>9, <1>10, StepFacts

\* An item holds one owner's messages in the order they were sent, and a
\* message has at most one copy more than stores failed after the rename, for
\* any owners and limits (handle, file and the inbox's store).
THEOREM NothingIsKeptTwice == Spec => []KeptOnce
  <1>1. Init => ItemInv
    BY DEF Init, ItemInv
  <1>2. MemoryInv /\ DraftInv /\ OwnerInv /\ ItemInv /\ [Next]_vars => ItemInv'
    BY ItemStep
  <1>3. ItemInv => KeptOnce
    BY DEF ItemInv, KeptOnce, Copies, Good
  <1> QED BY <1>1, <1>2, <1>3, OwnersAlways, PTL DEF Spec
===============================================================================

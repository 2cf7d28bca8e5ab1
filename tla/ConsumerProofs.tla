---------------------------- MODULE ConsumerProofs ----------------------------
(***************************************************************************)
(* Proofs about Consumer for any number of instances, requests, pickers    *)
(* and turns, any weights, hashes and widths of the wire that hold what    *)
(* validation admits.                                                      *)
(***************************************************************************)
EXTENDS Consumer, FiniteSetTheorems, SequenceTheorems, TLAPS

-----------------------------------------------------------------------------
(* Induction: the library's theorems on it take a predicate as parameter,  *)
(* so it is over sets of numbers here, from the well-foundedness of finite *)
(* intervals.                                                              *)

LEMMA Least ==
    ASSUME NEW S \in SUBSET Nat, S # {}
    PROVE  \E n \in S : \A m \in S : n <= m
<1> PICK top \in S : TRUE
  OBVIOUS
<1> DEFINE below == {m \in S : m <= top}
           T == {1..m : m \in below}
<1>1. IsFiniteSet(1..top)
  BY FS_Interval
<1>2. IsWellFoundedOn(StrictSubsetOrdering(1..top), FiniteSubsetsOf(1..top))
  BY <1>1, FS_StrictSubsetOrderingWellFounded
<1>3. T \subseteq FiniteSubsetsOf(1..top) /\ T # {}
  BY <1>1, FS_Subset DEF FiniteSubsetsOf
<1>4. \E x \in T : \A y \in T : ~(<<y, x>> \in StrictSubsetOrdering(1..top))
  BY <1>2, <1>3, WFMin
<1>5. PICK n \in below : \A m \in below : ~(<<1..m, 1..n>> \in StrictSubsetOrdering(1..top))
  BY <1>4
<1>6. ASSUME NEW m \in S, m < n PROVE FALSE
  <2>1. m \in below /\ 1..m \subseteq 1..n /\ 1..n \subseteq 1..top /\ n \in 1..n /\ n \notin 1..m
    BY <1>6
  <2> QED
    BY <1>5, <2>1 DEF StrictSubsetOrdering
<1> QED
  BY <1>6

LEMMA Induction ==
    ASSUME NEW S, 0 \in S, \A n \in Nat : n \in S => n + 1 \in S
    PROVE  \A n \in Nat : n \in S
<1> SUFFICES ASSUME NEW n \in Nat, n \notin S PROVE FALSE
  OBVIOUS
<1>1. PICK m \in Nat \ S : \A k \in Nat \ S : m <= k
  <2>1. Nat \ S \in SUBSET Nat /\ Nat \ S # {}
    OBVIOUS
  <2> QED
    BY <2>1, Least
<1>2. m # 0 /\ m - 1 \in Nat /\ m - 1 \notin Nat \ S
  BY <1>1
<1> QED
  BY <1>1, <1>2

\* A function that is defined by recursion exists.
Recursive(f, n, v0, step) ==
    \A m \in 0..n : f[m] = IF m = 0 THEN v0 ELSE step[<<f[m - 1], m>>]

LEMMA Recursion ==
    ASSUME NEW V, NEW v0 \in V, NEW step \in [V \X Nat -> V], NEW n \in Nat
    PROVE  \E f \in [0..n -> V] : Recursive(f, n, v0, step)
<1> DEFINE Def(f, k) == \A m \in 0..k : f[m] = IF m = 0 THEN v0 ELSE step[<<f[m - 1], m>>]
           S == {k \in Nat : \E f \in [0..k -> V] : Def(f, k)}
<1>1. 0 \in S
  <2> DEFINE f == [m \in 0..0 |-> v0]
  <2>1. f \in [0..0 -> V] /\ Def(f, 0)
    OBVIOUS
  <2> QED
    BY <2>1
<1>2. ASSUME NEW k \in Nat, k \in S PROVE k + 1 \in S
  <2> PICK f \in [0..k -> V] : Def(f, k)
    BY <1>2
  <2> DEFINE g == [m \in 0..(k + 1) |-> IF m = k + 1 THEN step[<<f[k], m>>] ELSE f[m]]
  <2>1. g \in [0..(k + 1) -> V]
    <3>1. f[k] \in V /\ step[<<f[k], k + 1>>] \in V
      OBVIOUS
    <3> QED
      BY <3>1
  <2>2. ASSUME NEW m \in 0..(k + 1) PROVE g[m] = IF m = 0 THEN v0 ELSE step[<<g[m - 1], m>>]
    <3>1. CASE m = k + 1
      <4>1. g[m - 1] = f[k] /\ g[m] = step[<<f[k], m>>] /\ m # 0
        BY <3>1
      <4> QED
        BY <4>1
    <3>2. CASE m # k + 1
      <4>1. m \in 0..k /\ g[m] = f[m] /\ (m # 0 => g[m - 1] = f[m - 1])
        BY <3>2
      <4> QED
        BY <4>1
    <3> QED
      BY <3>1, <3>2
  <2>3. Def(g, k + 1)
    BY <2>2
  <2> HIDE DEF g
  <2> QED
    BY <2>1, <2>3
<1> HIDE DEF S
<1>3. n \in S
  BY <1>1, <1>2, Induction
<1> QED
  BY <1>3 DEF S, Recursive

LEMMA Appending ==
    ASSUME NEW T, NEW s \in Seq(T), NEW e \in T
    PROVE  /\ Append(s, e) \in Seq(T) /\ Len(Append(s, e)) = Len(s) + 1
           /\ \A j \in 1..Len(s) : Append(s, e)[j] = s[j]
           /\ Append(s, e)[Len(s) + 1] = e
  OBVIOUS

\* What Selected leaves of a sequence is what of it lies in the set.
LEMMA Selecting ==
    ASSUME NEW T, NEW s \in Seq(T), NEW S
    PROVE  /\ Selected(s, S) \in Seq(T)
           /\ \A x : (\E j \in DOMAIN Selected(s, S) : Selected(s, S)[j] = x)
                     <=> x \in S /\ \E j \in DOMAIN s : s[j] = x
<1> DEFINE n == Len(s)
           step == [p \in Seq(T) \X Nat |->
                       IF p[2] \in 1..n /\ s[p[2]] \in S THEN Append(p[1], s[p[2]]) ELSE p[1]]
           Def(f) == f = [m \in 0..n |-> IF m = 0 THEN <<>>
                                         ELSE IF s[m] \in S THEN Append(f[m - 1], s[m])
                                         ELSE f[m - 1]]
           first == CHOOSE f : Def(f)
<1>1. n \in Nat /\ \A m \in 1..n : s[m] \in T
  OBVIOUS
<1>4. Selected(s, S) = first[n]
  BY DEF Selected
<1>0. n = Len(s) /\ DOMAIN s = 1..n
  OBVIOUS
<1> HIDE DEF n
<1>2. \E f : Def(f)
  <2>1. step \in [Seq(T) \X Nat -> Seq(T)]
    <3> SUFFICES ASSUME NEW q \in Seq(T), NEW m \in Nat
                 PROVE  (IF m \in 1..n /\ s[m] \in S THEN Append(q, s[m]) ELSE q) \in Seq(T)
      OBVIOUS
    <3> QED
      BY <1>1, Appending
  <2> HIDE DEF step
  <2>2. PICK f \in [0..n -> Seq(T)] :
           \A m \in 0..n : f[m] = IF m = 0 THEN <<>> ELSE step[<<f[m - 1], m>>]
    <3> DEFINE V == Seq(T)
               v0 == <<>>
    <3>1. v0 \in V /\ step \in [V \X Nat -> V]
      BY <2>1
    <3> HIDE DEF V, v0
    <3>2. \E f \in [0..n -> V] : Recursive(f, n, v0, step)
      BY <1>1, <3>1, Recursion
    <3> QED
      BY <3>2 DEF V, v0, Recursive
  <2>3. ASSUME NEW m \in 0..n
        PROVE  f[m] = IF m = 0 THEN <<>>
                      ELSE IF s[m] \in S THEN Append(f[m - 1], s[m])
                      ELSE f[m - 1]
    <3>1. CASE m # 0
      <4>1. m \in 1..n /\ m \in Nat /\ f[m - 1] \in Seq(T)
        BY <1>1, <3>1
      <4>2. step[<<f[m - 1], m>>] = IF s[m] \in S THEN Append(f[m - 1], s[m]) ELSE f[m - 1]
        BY <4>1 DEF step
      <4> QED
        BY <2>2, <3>1, <4>2
    <3> QED
      BY <2>2, <3>1
  <2> QED
    BY <2>2, <2>3
<1>3. Def(first)
  BY <1>2
<1> HIDE DEF first
<1>5. first[0] = <<>>
  BY <1>1, <1>3
<1>6. ASSUME NEW m \in 1..n
      PROVE  first[m] = IF s[m] \in S THEN Append(first[m - 1], s[m]) ELSE first[m - 1]
  <2>1. m \in 0..n /\ m # 0
    BY <1>1
  <2> QED
    BY <1>3, <2>1
<1> HIDE DEF Def
<1> DEFINE Fine(m) ==
              /\ first[m] \in Seq(T)
              /\ \A x : (\E j \in 1..Len(first[m]) : first[m][j] = x)
                        <=> x \in S /\ \E j \in 1..m : s[j] = x
           R == {m \in Nat : m <= n => Fine(m)}
<1>7. 0 \in R
  <2>1. first[0] \in Seq(T) /\ Len(first[0]) = 0 /\ 1..0 = {}
    BY <1>5
  <2> QED
    BY <2>1
<1> HIDE DEF Fine
<1>8. ASSUME NEW m \in Nat, m \in R PROVE m + 1 \in R
  <2> SUFFICES ASSUME m + 1 <= n PROVE Fine(m + 1)
    OBVIOUS
  <2>1. Fine(m) /\ m + 1 \in 1..n /\ s[m + 1] \in T
    BY <1>1, <1>8
  <2> HIDE DEF R
  <2>2. first[m + 1] = IF s[m + 1] \in S THEN Append(first[m], s[m + 1]) ELSE first[m]
    <3>1. (m + 1) - 1 = m
      OBVIOUS
    <3> QED
      BY <1>6, <2>1, <3>1
  <2>3. \A j : j \in 1..(m + 1) <=> j \in 1..m \/ j = m + 1
    OBVIOUS
  <2>4. CASE s[m + 1] \in S
    <3> DEFINE q == first[m]
               r == Append(q, s[m + 1])
    <3>1. q \in Seq(T) /\ first[m + 1] = r
      BY <2>1, <2>2, <2>4 DEF Fine
    <3> HIDE DEF q
    <3>2. /\ r \in Seq(T) /\ Len(r) = Len(q) + 1
          /\ \A j \in 1..Len(q) : r[j] = q[j]
          /\ r[Len(q) + 1] = s[m + 1]
      BY <2>1, <3>1, Appending
    <3>3. Len(q) \in Nat
      BY <3>1
    <3> HIDE DEF r
    <3>4. \A x : (\E j \in 1..Len(r) : r[j] = x) <=> (\E j \in 1..Len(q) : q[j] = x) \/ x = s[m + 1]
      <4>1. \A j : j \in 1..Len(r) <=> j \in 1..Len(q) \/ j = Len(q) + 1
        BY <3>2, <3>3
      <4> QED
        BY <3>2, <4>1
    <3>5. \A x : (\E j \in 1..Len(q) : q[j] = x) <=> x \in S /\ \E j \in 1..m : s[j] = x
      BY <2>1 DEF Fine, q
    <3>6. \A x : (\E j \in 1..Len(r) : r[j] = x) <=> x \in S /\ \E j \in 1..(m + 1) : s[j] = x
      BY <2>3, <2>4, <3>4, <3>5
    <3> QED
      BY <3>1, <3>2, <3>6 DEF Fine
  <2>5. CASE s[m + 1] \notin S
    <3>1. first[m + 1] = first[m]
      BY <2>2, <2>5
    <3>2. \A x : x \in S /\ (\E j \in 1..(m + 1) : s[j] = x) <=> x \in S /\ \E j \in 1..m : s[j] = x
      BY <2>3, <2>5
    <3> QED
      BY <2>1, <3>1, <3>2 DEF Fine
  <2> QED
    BY <2>4, <2>5
<1> HIDE DEF R
<1>9. n \in R
  BY <1>1, <1>7, <1>8, Induction
<1>10. Fine(n)
  BY <1>1, <1>9 DEF R
<1> QED
  <2>1. first[n] \in Seq(T) /\ DOMAIN first[n] = 1..Len(first[n]) /\ DOMAIN s = 1..n
    BY <1>0, <1>10 DEF Fine
  <2> QED
    BY <1>4, <1>10, <2>1 DEF Fine

-----------------------------------------------------------------------------
(* The weighted pick.                                                      *)

Weighed(s, W) ==
    /\ W \in [0..Len(s) -> Nat] /\ W[0] = 0
    /\ \A m \in 1..Len(s) : W[m] = W[m - 1] + s[m].weight

\* The sums that WeightOf makes.
LEMMA Summing ==
    ASSUME NEW T, NEW s \in Seq(T), \A j \in 1..Len(s) : s[j].weight \in Nat
    PROVE  \E W : Weighed(s, W) /\ \A m \in 0..Len(s) : WeightOf(s, m) = W[m]
<1> DEFINE n == Len(s)
           step == [p \in Nat \X Nat |-> IF p[2] \in 1..n THEN p[1] + s[p[2]].weight ELSE p[1]]
           Def(f) == f = [k \in 0..n |-> IF k = 0 THEN 0 ELSE f[k - 1] + s[k].weight]
           sum == CHOOSE f : Def(f)
<1>1. n \in Nat /\ n = Len(s) /\ \A j \in 1..n : s[j].weight \in Nat
  OBVIOUS
<1>2. \A m : WeightOf(s, m) = sum[m]
  BY DEF WeightOf
<1> HIDE DEF n
<1>3. PICK f \in [0..n -> Nat] : Recursive(f, n, 0, step)
  <2>1. step \in [Nat \X Nat -> Nat] /\ 0 \in Nat
    BY <1>1
  <2> HIDE DEF step
  <2> QED
    BY <1>1, <2>1, Recursion
<1>4. ASSUME NEW m \in 1..n PROVE f[m] = f[m - 1] + s[m].weight
  <2>1. m \in 0..n /\ m # 0 /\ m \in Nat /\ m - 1 \in 0..n /\ f[m - 1] \in Nat
    BY <1>1
  <2>2. step[<<f[m - 1], m>>] = f[m - 1] + s[m].weight
    BY <2>1
  <2> HIDE DEF step
  <2> QED
    BY <1>3, <2>1, <2>2 DEF Recursive
<1> HIDE DEF step
<1>5. f[0] = 0
  <2>1. 0 \in 0..n
    BY <1>1
  <2> QED
    BY <1>3, <2>1 DEF Recursive
<1>6. Def(f)
  <2>1. \A k \in 0..n : k = 0 \/ k \in 1..n
    BY <1>1
  <2> QED
    BY <1>3, <1>4, <1>5, <2>1
<1>7. Def(sum)
  BY <1>6
<1> HIDE DEF sum
<1>8. sum[0] = 0 /\ DOMAIN sum = 0..n
  BY <1>1, <1>7
<1>9. ASSUME NEW m \in 1..n PROVE sum[m] = sum[m - 1] + s[m].weight
  <2>1. m \in 0..n /\ m # 0
    BY <1>1
  <2> QED
    BY <1>7, <2>1
<1>10. sum \in [0..n -> Nat]
  <2> DEFINE R == {m \in Nat : m <= n => sum[m] \in Nat}
  <2>1. 0 \in R
    BY <1>8
  <2>2. ASSUME NEW m \in Nat, m \in R PROVE m + 1 \in R
    <3> SUFFICES ASSUME m + 1 <= n PROVE sum[m + 1] \in Nat
      OBVIOUS
    <3>1. m + 1 \in 1..n /\ (m + 1) - 1 = m /\ sum[m] \in Nat
      BY <1>1, <2>2
    <3> HIDE DEF R
    <3>2. sum[m + 1] = sum[m] + s[m + 1].weight
      BY <1>9, <3>1
    <3> QED
      BY <1>1, <3>1, <3>2
  <2> HIDE DEF R
  <2>3. \A m \in Nat : m \in R
    BY <2>1, <2>2, Induction
  <2>4. \A m \in 0..n : sum[m] \in Nat
    BY <1>1, <2>3 DEF R
  <2>5. sum = [m \in 0..n |-> sum[m]]
    BY <1>7
  <2> QED
    BY <2>4, <2>5
<1> QED
  BY <1>1, <1>2, <1>8, <1>9, <1>10 DEF Weighed

LEMMA SumsGrow ==
    ASSUME NEW T, NEW s \in Seq(T), \A j \in 1..Len(s) : s[j].weight \in Nat,
           NEW W, Weighed(s, W), NEW k \in 0..Len(s)
    PROVE  \A m \in k..Len(s) : W[k] <= W[m]
<1> DEFINE R == {d \in Nat : k + d <= Len(s) => W[k] <= W[k + d]}
<1>1. 0 \in R
  BY DEF Weighed
<1>2. ASSUME NEW d \in Nat, d \in R PROVE d + 1 \in R
  <2> SUFFICES ASSUME k + (d + 1) <= Len(s) PROVE W[k] <= W[k + (d + 1)]
    OBVIOUS
  <2>1. /\ k + (d + 1) \in 1..Len(s) /\ (k + (d + 1)) - 1 = k + d
        /\ k + d \in 0..Len(s) /\ W[k] <= W[k + d]
    BY <1>2
  <2>2. W[k + (d + 1)] = W[k + d] + s[k + (d + 1)].weight
    BY <2>1 DEF Weighed
  <2>3. W[k] \in Nat /\ W[k + d] \in Nat /\ s[k + (d + 1)].weight \in Nat
    BY <2>1 DEF Weighed
  <2> HIDE DEF R
  <2> QED
    BY <2>1, <2>2, <2>3
<1> HIDE DEF R
<1>3. \A d \in Nat : d \in R
  BY <1>1, <1>2, Induction
<1>4. ASSUME NEW m \in k..Len(s) PROVE W[k] <= W[m]
  <2>1. m - k \in Nat /\ k + (m - k) = m /\ m <= Len(s)
    OBVIOUS
  <2>2. m - k \in R
    BY <1>3, <2>1
  <2> QED
    BY <2>1, <2>2 DEF R
<1> QED
  BY <1>4

\* A number falls on the place whose sum it is the first below.
LEMMA Drawing ==
    ASSUME NEW T, NEW s \in Seq(T), \A j \in 1..Len(s) : s[j].weight \in Nat,
           NEW j \in 1..Len(s), NEW pick \in Nat,
           WeightOf(s, j - 1) <= pick, pick < WeightOf(s, j - 1) + s[j].weight
    PROVE  WeightedPick(s, pick) = j
<1>1. PICK W : Weighed(s, W) /\ \A m \in 0..Len(s) : WeightOf(s, m) = W[m]
  BY Summing
<1>2. \A m \in 0..Len(s) : W[m] \in Nat
  BY <1>1 DEF Weighed
<1>3. /\ j - 1 \in 0..Len(s) /\ j \in 0..Len(s)
      /\ W[j] = W[j - 1] + s[j].weight /\ WeightOf(s, j - 1) = W[j - 1]
  BY <1>1 DEF Weighed
<1> DEFINE Falls(m) == pick < WeightOf(s, m) /\ \A k \in 1..(m - 1) : pick >= WeightOf(s, k)
<1>4. Falls(j)
  <2>1. pick < WeightOf(s, j)
    BY <1>1, <1>3
  <2>2. ASSUME NEW k \in 1..(j - 1) PROVE pick >= WeightOf(s, k)
    <3>1. k \in 0..Len(s) /\ j - 1 \in k..Len(s)
      OBVIOUS
    <3>2. W[k] <= W[j - 1]
      BY <1>1, <3>1, SumsGrow
    <3> QED
      BY <1>1, <1>2, <1>3, <3>1, <3>2
  <2> QED
    BY <2>1, <2>2
<1>5. ASSUME NEW m \in 1..Len(s), Falls(m) PROVE m = j
  <2>1. CASE m < j
    <3>1. m \in 0..Len(s) /\ j - 1 \in m..Len(s)
      BY <2>1
    <3>2. W[m] <= W[j - 1]
      BY <1>1, <3>1, SumsGrow
    <3> QED
      BY <1>1, <1>2, <1>3, <1>5, <3>1, <3>2
  <2>2. CASE m > j
    <3>1. j \in 1..(m - 1)
      BY <2>2
    <3> QED
      BY <1>1, <1>2, <1>3, <1>5, <3>1
  <2> QED
    BY <2>1, <2>2
<1>6. WeightedPick(s, pick) = CHOOSE m \in 1..Len(s) : Falls(m)
  BY DEF WeightedPick
<1> HIDE DEF Falls
<1> QED
  BY <1>4, <1>5, <1>6

-----------------------------------------------------------------------------
(* The pick by hash: the least score, and of equal ones the first.         *)

LEMMA Scoring ==
    ASSUME NEW T, NEW s \in Seq(T), s # <<>>, NEW h \in HashKeys,
           \A j \in 1..Len(s) : Endpoint(s[j]) \in Endpoints
    PROVE  \E best \in 1..Len(s) :
              HashPick(s, h) = s[best] /\ \A k \in 1..Len(s) : ScoreAt(s, h, best) <= ScoreAt(s, h, k)
<1> DEFINE n == Len(s)
           score(j) == ScoreAt(s, h, j)
           values == {score(j) : j \in 1..n}
           Best(j) == \A k \in 1..n :
                         \/ score(j) < score(k)
                         \/ score(j) = score(k) /\ j <= k
<1>1. n \in Nat /\ n # 0 /\ 1 \in 1..n
  OBVIOUS
<1>2. \A j \in 1..n : score(j) \in Nat
  BY ConsumerAssumption DEF ScoreAt
<1>3. HashPick(s, h) = s[CHOOSE j \in 1..n : Best(j)]
  <2>1. DOMAIN s = 1..n
    OBVIOUS
  <2> HIDE DEF n
  <2> QED
    BY <2>1, Zenon DEF HashPick
<1> HIDE DEF n, score
<1>4. PICK j \in 1..n : \A k \in 1..n : score(j) <= score(k)
  <2>1. values \in SUBSET Nat /\ values # {}
    BY <1>1, <1>2
  <2>2. PICK v \in values : \A w \in values : v <= w
    BY <2>1, Least
  <2> QED
    BY <2>2
<1>5. PICK i \in 1..n : Best(i)
  <2> DEFINE equal == {k \in 1..n : score(k) = score(j)}
  <2>1. equal \in SUBSET Nat /\ equal # {}
    BY <1>1
  <2>2. PICK i \in equal : \A k \in equal : i <= k
    BY <2>1, Least
  <2>3. ASSUME NEW k \in 1..n PROVE score(i) < score(k) \/ (score(i) = score(k) /\ i <= k)
    <3>1. score(i) = score(j) /\ score(j) <= score(k) /\ score(j) \in Nat /\ score(k) \in Nat
      BY <1>2, <1>4, <2>2
    <3>2. score(k) = score(j) => i <= k
      BY <2>2
    <3> QED
      BY <3>1, <3>2
  <2> QED
    BY <2>2, <2>3
<1> DEFINE best == CHOOSE k \in 1..n : Best(k)
<1>6. best \in 1..n /\ Best(best)
  BY <1>5
<1> HIDE DEF best
<1>7. ASSUME NEW k \in 1..n PROVE score(best) <= score(k)
  <2>1. score(best) \in Nat /\ score(k) \in Nat /\ (score(best) < score(k) \/ score(best) = score(k))
    BY <1>2, <1>6
  <2> QED
    BY <2>1
<1>8. HashPick(s, h) = s[best]
  BY <1>3 DEF best
<1> QED
  BY <1>6, <1>7, <1>8 DEF n, score

\* A key moves from one endpoint to another only if one of them is new or gone.
LEMMA HashMoves ==
    ASSUME NEW T, NEW s \in Seq(T), s # <<>>, NEW t \in Seq(T), t # <<>>, NEW h \in HashKeys,
           \A j \in 1..Len(s) : Endpoint(s[j]) \in Endpoints,
           \A j \in 1..Len(t) : Endpoint(t[j]) \in Endpoints,
           NEW i \in 1..Len(t), Endpoint(t[i]) = Endpoint(HashPick(s, h)),
           NEW k \in 1..Len(s), Endpoint(s[k]) = Endpoint(HashPick(t, h))
    PROVE  Endpoint(HashPick(s, h)) = Endpoint(HashPick(t, h))
<1>1. PICK a \in 1..Len(s) : /\ HashPick(s, h) = s[a]
                             /\ \A j \in 1..Len(s) : ScoreAt(s, h, a) <= ScoreAt(s, h, j)
  BY Scoring
<1>2. PICK b \in 1..Len(t) : /\ HashPick(t, h) = t[b]
                             /\ \A j \in 1..Len(t) : ScoreAt(t, h, b) <= ScoreAt(t, h, j)
  BY Scoring
<1> DEFINE e == Endpoint(s[a])
           f == Endpoint(t[b])
<1>3. e \in Endpoints /\ f \in Endpoints
  OBVIOUS
<1>4. Score[h][e] <= Score[h][f] /\ Score[h][f] <= Score[h][e]
  BY <1>1, <1>2 DEF ScoreAt
<1>5. Score[h][e] \in Nat /\ Score[h][f] \in Nat
  BY <1>3, ConsumerAssumption
<1>6. Score[h][e] = Score[h][f]
  BY <1>4, <1>5
<1> QED
  BY <1>1, <1>2, <1>3, <1>6, ConsumerAssumption

-----------------------------------------------------------------------------
(* Numbers: the turns of round robin, and the width of the wire.           *)

LEMMA Divided ==
    ASSUME NEW n \in Nat \ {0}, NEW t \in Nat
    PROVE  t \div n \in Nat /\ t % n \in 0..(n - 1) /\ t = n * (t \div n) + (t % n)
  OBVIOUS

LEMMA Remainder ==
    ASSUME NEW n \in Nat \ {0}, NEW t \in Nat, NEW q \in Int, NEW r \in 0..(n - 1), t = n * q + r
    PROVE  t % n = r
  OBVIOUS

LEMMA NextPlace ==
    ASSUME NEW n \in Nat \ {0}, NEW t \in Nat
    PROVE  (t + 1) % n = IF t % n = n - 1 THEN 0 ELSE (t % n) + 1
<1> DEFINE q == t \div n
           r == t % n
<1>1. q \in Nat /\ r \in 0..(n - 1) /\ t = n * q + r
  BY Divided
<1>2. t % n = r
  OBVIOUS
<1> HIDE DEF q, r
<1>3. CASE r = n - 1
  <2>1. t + 1 = n * (q + 1) + 0 /\ q + 1 \in Int /\ 0 \in 0..(n - 1)
    BY <1>1, <1>3
  <2>2. t + 1 \in Nat /\ n \in Nat \ {0}
    OBVIOUS
  <2>3. (t + 1) % n = 0
    BY ONLY <2>1, <2>2, Remainder
  <2> QED
    BY <1>2, <1>3, <2>3
<1>4. CASE r # n - 1
  <2>1. t + 1 = n * q + (r + 1) /\ r + 1 \in 0..(n - 1)
    BY <1>1, <1>4
  <2>2. (t + 1) % n = r + 1
    BY <1>1, <2>1, Remainder
  <2> QED
    BY <1>2, <1>4, <2>2
<1> QED
  BY <1>3, <1>4

LEMMA Widths == Half \in Nat \ {0} /\ MaxPort \in Nat /\ MaxPort < Half
<1>1. MaxPort \in Nat
  BY DEF MaxPort
<1> QED
  BY <1>1, WidthAssumption

LEMMA Int32Typed == \A n \in Int : Int32(n) \in Int
<1>1. Half \in Nat \ {0}
  BY Widths
<1> QED
  BY <1>1 DEF Int32

LEMMA Int32Fits == \A n \in Int : Fits(n) => Int32(n) = n
<1>1. Half \in Nat \ {0}
  BY Widths
<1> SUFFICES ASSUME NEW n \in Int, Fits(n) PROVE Int32(n) = n
  OBVIOUS
<1> DEFINE d == 2 * Half
<1>2. d \in Nat \ {0} /\ n + Half \in 0..(d - 1) /\ n + Half \in Nat
  BY <1>1 DEF Fits
<1>3. (n + Half) % d = n + Half
  <2> HIDE DEF d
  <2>1. n + Half = d * 0 + (n + Half)
    BY <1>2
  <2> QED
    BY <1>2, <2>1, Remainder
<1> QED
  BY <1>1, <1>3 DEF Int32

LEMMA ValidFits == \A n \in 0..MaxPort : Int32(n) = n
<1> SUFFICES ASSUME NEW n \in 0..MaxPort PROVE Int32(n) = n
  OBVIOUS
<1>1. n \in Int /\ Fits(n)
  BY Widths DEF Fits
<1> QED
  BY <1>1, Int32Fits

-----------------------------------------------------------------------------
(* What is stored.                                                         *)

\* A register request leaves the revision to the registry. What is said of the
\* revision inside a value holds if they all do.
Fresh == \A raw \in Registrations : raw.revision = 0

\* An instance as it may be stored.
Good(i) ==
    /\ i \in Instance /\ ValidInstance(i)
    /\ KeyOf(i) \in Keys /\ i.metadata # Nil /\ Endpoint(i) \in Endpoints

Change == [type : {"put", "delete"}, key : Keys, value : Instance]

\* The history has a change of an instance for every revision.
Logging ==
    /\ log \in Seq(Change) /\ Len(log) = rev - 1
    /\ \A n \in 1..(rev - 1) :
          /\ Good(log[n].value) /\ KeyOf(log[n].value) = log[n].key
          /\ Fresh => log[n].value.revision <= n

\* What is stored is what the last change of its key says.
RecordedAt(k) ==
    LET n == kv[k].mod - 1 IN
    /\ n \in 1..(rev - 1)
    /\ log[n].type = "put" /\ log[n].key = k /\ log[n].value = kv[k].value
    /\ \A m \in (n + 1)..(rev - 1) : log[m].key # k

Recorded ==
    /\ \A k \in Keys : Present(k) => RecordedAt(k)
    /\ \A n \in 1..(rev - 1) :
          /\ log[n].type = "put" /\ \A m \in (n + 1)..(rev - 1) : log[m].key # log[n].key
          => kv[log[n].key].mod = n + 1

Stored ==
    /\ rev \in Nat \ {0} /\ kv = [k \in Keys |-> kv[k]]
    /\ \A k \in Keys : kv[k].mod \in 0..rev
    /\ \A k \in Keys : Present(k) =>
          /\ Good(kv[k].value) /\ KeyOf(kv[k].value) = k
          /\ Fresh => kv[k].value.revision < kv[k].mod

CatalogInv == Stored /\ Logging /\ Recorded

LEMMA Normalized ==
    ASSUME NEW i \in Instance
    PROVE  LET j == Normalize(i) IN
           /\ j \in Instance /\ j.metadata # Nil /\ KeyOf(j) = KeyOf(i) /\ Endpoint(j) = Endpoint(i)
           /\ j.revision = i.revision
<1> DEFINE mode == Or(i.mode, "heartbeat")
           j == Normalize(i)
<1>1. /\ mode \in STRING \cup Modes
      /\ Or(i.group, "default") \in STRING \cup {"default"}
      /\ Or(i.status, "health") \in STRING \cup Statuses
  BY DEF Or, Instance, Modes, Statuses
<1>2. CopyStringMap(i.metadata) \in Metadata /\ CopyStringMap(i.metadata) # Nil
  BY CatalogAssumption DEF CopyStringMap, Instance, Metadata
<1>3. NormalizedProbe(i, mode) \in Probe
  <2> DEFINE Paths == STRING \cup {ProbePath(m, "") : m \in Modes}
  <2>1. i.probe.path \in Paths
    BY DEF Probe, Instance
  <2>2. /\ ProbePath("http_probe", "") = "/etcdisc/http/health"
        /\ ProbePath("grpc_probe", "") = "/etcdisc/grpc/health"
        /\ ProbePath("tcp_probe", "") = ""
    BY DEF ProbePath, Or
  <2>3. {"/etcdisc/http/health", "/etcdisc/grpc/health", ""} \subseteq Paths
    BY <2>2 DEF Modes
  <2> HIDE DEF Paths
  <2>4. ProbePath(mode, i.probe.path) \in Paths
    BY <2>1, <2>3 DEF ProbePath, Or
  <2> QED
    BY <2>4 DEF Paths, Probe, NormalizedProbe, Or, Instance
<1>4. j = [i EXCEPT !.group = Or(@, "default"), !.weight = IF @ = 0 THEN 100 ELSE @,
                    !.mode = mode, !.metadata = CopyStringMap(@), !.status = Or(@, "health"),
                    !.probe = NormalizedProbe(i, mode)]
  BY DEF Normalize
<1>5. i.weight \in Int
  BY DEF Instance
<1> HIDE DEF mode, j
<1>6. j \in Instance
  <2>1. (IF i.weight = 0 THEN 100 ELSE i.weight) \in Int
    BY <1>5
  <2>2. mode \in STRING \cup Modes
    BY <1>1
  <2> DEFINE group == Or(i.group, "default")
             status == Or(i.status, "health")
             metadata == CopyStringMap(i.metadata)
             probe == NormalizedProbe(i, mode)
             weight == IF i.weight = 0 THEN 100 ELSE i.weight
  <2>3. /\ group \in STRING \cup {"default"} /\ status \in STRING \cup Statuses
        /\ metadata \in Metadata /\ probe \in Probe /\ weight \in Int
    BY <1>1, <1>2, <1>3, <2>1
  <2>4. j = [i EXCEPT !.group = group, !.weight = weight, !.mode = mode, !.metadata = metadata,
                      !.status = status, !.probe = probe]
    BY <1>4
  <2> HIDE DEF group, status, metadata, probe, weight
  <2> QED
    BY <2>2, <2>3, <2>4 DEF Instance
<1>7. /\ j.namespace = i.namespace /\ j.service = i.service /\ j.instanceId = i.instanceId
      /\ j.address = i.address /\ j.port = i.port /\ j.revision = i.revision
      /\ j.metadata = CopyStringMap(i.metadata)
  BY <1>4 DEF Instance
<1> QED
  BY <1>2, <1>6, <1>7 DEF j, KeyOf, Endpoint

LEMMA OverWireTyped ==
    ASSUME NEW i \in Instance
    PROVE  LET j == InstanceOverWire(i) IN
           /\ j \in Instance /\ KeyOf(j) = KeyOf(i) /\ j.revision = i.revision
           /\ Endpoint(j) = <<i.address, Int32(i.port)>>
<1> DEFINE j == InstanceOverWire(i)
<1>1. Int32(i.weight) \in Int /\ Int32(i.port) \in Int /\ Int32(i.probe.port) \in Int
  BY Int32Typed DEF Instance, Probe
<1>2. CloneStringMap(i.metadata) \in Metadata
  BY DEF CloneStringMap, Instance, Metadata
<1>3. ProbeConfigOverWire(i.probe) \in Probe
  BY <1>1 DEF ProbeConfigOverWire, Instance, Probe
<1>4. j = [i EXCEPT !.weight = Int32(@), !.port = Int32(@), !.metadata = CloneStringMap(@),
                    !.probe = ProbeConfigOverWire(@)]
  BY DEF InstanceOverWire
<1> HIDE DEF j
<1>5. j \in Instance
  BY <1>1, <1>2, <1>3, <1>4 DEF Instance
<1>6. /\ j.namespace = i.namespace /\ j.service = i.service /\ j.instanceId = i.instanceId
      /\ j.address = i.address /\ j.port = Int32(i.port) /\ j.revision = i.revision
  BY <1>4 DEF Instance
<1> QED
  BY <1>5, <1>6 DEF j, KeyOf, Endpoint

\* The wire takes nothing from a valid instance but a map without entries.
LEMMA OverWireValid ==
    ASSUME NEW i \in Instance, ValidInstance(i)
    PROVE  InstanceOverWire(i) = [i EXCEPT !.metadata = CloneStringMap(@)]
<1>1. i.weight \in 0..MaxPort /\ i.port \in 0..MaxPort /\ i.probe.port \in 0..MaxPort
  <2>1. MaxPort \in Nat /\ MaxWeight \in Nat /\ MaxWeight <= MaxPort
    BY DEF MaxPort, MaxWeight
  <2>2. i.weight \in 1..MaxWeight /\ i.port \in 1..MaxPort /\ i.probe.port \in 0..MaxPort
    BY DEF ValidInstance
  <2> QED
    BY <2>1, <2>2
<1>2. Int32(i.weight) = i.weight /\ Int32(i.port) = i.port /\ Int32(i.probe.port) = i.probe.port
  BY <1>1, ValidFits
<1>3. ProbeConfigOverWire(i.probe) = i.probe
  <2>1. i.probe \in Probe
    BY DEF Instance
  <2> QED
    BY <1>2, <2>1 DEF ProbeConfigOverWire, Probe
<1> QED
  BY <1>2, <1>3 DEF InstanceOverWire, Instance

LEMMA DecodedGood ==
    ASSUME CatalogInv, NEW k \in Keys, Present(k)
    PROVE  /\ Good(Decoded(k)) /\ KeyOf(Decoded(k)) = k /\ Decoded(k).revision = kv[k].mod
           /\ \A f \in {"namespace", "service", "instanceId", "metadata", "status", "group", "version"} :
                 Decoded(k)[f] = kv[k].value[f]
           /\ Content(Decoded(k)) = Content(kv[k].value)
<1> DEFINE i == kv[k].value
           d == Decoded(k)
<1>1. i \in Instance /\ Good(i) /\ KeyOf(i) = k /\ kv[k].mod \in Nat
  BY DEF CatalogInv, Stored, Good
<1>2. d = [i EXCEPT !.revision = kv[k].mod]
  BY DEF Decoded
<1> HIDE DEF i, d
<1>3. d \in Instance /\ d.revision = kv[k].mod
  BY <1>1, <1>2 DEF Instance
<1>4. /\ d.namespace = i.namespace /\ d.service = i.service /\ d.instanceId = i.instanceId
      /\ d.address = i.address /\ d.port = i.port /\ d.weight = i.weight
      /\ d.metadata = i.metadata /\ d.mode = i.mode /\ d.status = i.status /\ d.probe = i.probe
      /\ d.group = i.group /\ d.version = i.version
  BY <1>1, <1>2 DEF Instance
<1>5. KeyOf(d) = k /\ Endpoint(d) = Endpoint(i)
  BY <1>1, <1>4 DEF KeyOf, Endpoint
<1>6. Good(d)
  BY <1>1, <1>3, <1>4, <1>5 DEF Good, ValidInstance
<1>7. Content(d) = Content(i)
  BY <1>1, <1>2 DEF Content, Instance
<1> QED
  BY <1>3, <1>4, <1>5, <1>6, <1>7 DEF d, i

\* A change: an instance is stored, or a key goes.
Wrote(k, i) ==
    /\ Good(i) /\ KeyOf(i) = k /\ k \in Keys /\ (Fresh => i.revision = kv[k].mod)
    /\ \E l : kv' = [kv EXCEPT ![k] = Record(i, rev + 1, l)]
    /\ rev' = rev + 1
    /\ log' = Append(log, [type |-> "put", key |-> k, value |-> i])

Erased(k) ==
    /\ k \in Keys /\ Present(k)
    /\ kv' = [j \in Keys |-> IF j = k THEN Missing ELSE kv[j]]
    /\ rev' = rev + 1
    /\ log' = Append(log, [type |-> "delete", key |-> k, value |-> kv[k].value])

LEMMA Registering ==
    ASSUME CatalogInv, NEW raw \in Registrations, NEW via \in {"http", "grpc"}, Register(raw, via)
    PROVE  \E i : /\ Wrote(KeyOf(raw), i)
                  /\ i = Normalize(IF via = "grpc" THEN InstanceOverWire(raw) ELSE raw)
<1> DEFINE sent == IF via = "grpc" THEN InstanceOverWire(raw) ELSE raw
           i == Normalize(sent)
<1>1. raw \in Instance /\ (Fresh => raw.revision = 0) /\ KeyOf(raw) \in Keys
  BY CatalogAssumption DEF Fresh
<1>2. /\ sent \in Instance /\ KeyOf(sent) = KeyOf(raw) /\ sent.revision = raw.revision
      /\ Endpoint(sent) \in {<<raw.address, raw.port>>, <<raw.address, Int32(raw.port)>>}
  BY <1>1, OverWireTyped DEF Endpoint
<1>3. Endpoint(sent) \in Endpoints
  BY <1>2 DEF Endpoints
<1>4. ValidInstance(i) /\ Create(KeyOf(i), i, NoLease) /\ Logged("put", KeyOf(i), i)
  BY DEF Register
<1> HIDE DEF sent
<1>5. /\ i \in Instance /\ i.metadata # Nil /\ KeyOf(i) = KeyOf(raw)
      /\ Endpoint(i) = Endpoint(sent) /\ i.revision = raw.revision
  BY <1>2, Normalized
<1>6. Good(i)
  BY <1>1, <1>3, <1>4, <1>5 DEF Good
<1> HIDE DEF i
<1>7. kv[KeyOf(raw)].mod = 0
  BY <1>1, <1>4, <1>5 DEF Create, Present, CatalogInv, Stored
<1>8. Wrote(KeyOf(raw), i)
  BY <1>1, <1>4, <1>5, <1>6, <1>7 DEF Wrote, Create, WriteKey, Logged
<1> QED
  BY <1>8 DEF i, sent

LEMMA Updating ==
    ASSUME CatalogInv, NEW u \in Updates, NEW via \in {"http", "grpc"}, NEW expected \in 0..rev,
           Update(u, via, expected)
    PROVE  \E i : Wrote(KeyOf(u), i)
<1> DEFINE k == KeyOf(u)
           sent == IF via = "grpc" THEN UpdateOverWire(u) ELSE u
           d == Decoded(k)
           m == Merged(d, sent)
           i == Normalize(m)
<1>1. u \in UpdateInput /\ k \in Keys
  BY CatalogAssumption
<1>2. Present(k) /\ ValidInstance(i) /\ CAS(k, expected, i, kv[k].lease) /\ Logged("put", k, i)
  BY DEF Update
<1> HIDE DEF k
<1>3. Good(d) /\ KeyOf(d) = k /\ d.revision = kv[k].mod /\ d \in Instance
  BY <1>1, <1>2, DecodedGood DEF Good
<1> HIDE DEF d
<1>4. sent.weight \in {Nil} \cup Int /\ sent.metadata \in Metadata /\ sent.version \in {Nil} \cup STRING
  <2>1. u.weight \in {Nil} \cup Int /\ u.metadata \in Metadata /\ u.version \in {Nil} \cup STRING
    BY <1>1 DEF UpdateInput
  <2>2. OptionalInt32(u.weight) \in {Nil} \cup Int
    BY <2>1, Int32Typed DEF OptionalInt32
  <2>3. CloneStringMap(u.metadata) \in Metadata
    BY <2>1 DEF CloneStringMap, Metadata
  <2> QED
    BY <1>1, <2>1, <2>2, <2>3 DEF UpdateOverWire, UpdateInput
<1> HIDE DEF sent
<1>5. m \in Instance /\ KeyOf(m) = KeyOf(d) /\ Endpoint(m) = Endpoint(d) /\ m.revision = d.revision
  <2> DEFINE weight == Unless(d.weight, sent.weight)
             metadata == Unless(d.metadata, sent.metadata)
             version == Unless(d.version, sent.version)
  <2>1. weight \in Int /\ metadata \in Metadata /\ version \in STRING
    BY <1>3, <1>4 DEF Unless, Instance
  <2>2. m = [d EXCEPT !.weight = weight, !.metadata = metadata, !.version = version]
    BY DEF Merged
  <2> HIDE DEF weight, metadata, version, m
  <2>3. m \in Instance
    BY <1>3, <2>1, <2>2 DEF Instance
  <2>4. /\ m.namespace = d.namespace /\ m.service = d.service /\ m.instanceId = d.instanceId
        /\ m.address = d.address /\ m.port = d.port /\ m.revision = d.revision
    BY <1>3, <2>2 DEF Instance
  <2> QED
    BY <2>3, <2>4 DEF KeyOf, Endpoint
<1> HIDE DEF m
<1>6. i \in Instance /\ i.metadata # Nil /\ KeyOf(i) = k /\ Endpoint(i) = Endpoint(d) /\ i.revision = kv[k].mod
  BY <1>3, <1>5, Normalized
<1>7. Good(i)
  BY <1>1, <1>2, <1>3, <1>6 DEF Good
<1> HIDE DEF i
<1>8. Wrote(k, i)
  BY <1>1, <1>2, <1>6, <1>7 DEF Wrote, CAS, WriteKey, Logged
<1> QED
  BY <1>8 DEF k

LEMMA Reporting ==
    ASSUME CatalogInv, NEW k \in Keys, NEW s \in Statuses, Report(k, s)
    PROVE  \E i : Wrote(k, i)
<1> DEFINE d == Decoded(k)
           i == [d EXCEPT !.status = s]
<1>1. Present(k) /\ Put(k, i, kv[k].lease) /\ Logged("put", k, i)
  BY DEF Report
<1>2. Good(d) /\ KeyOf(d) = k /\ d.revision = kv[k].mod /\ d \in Instance
  BY <1>1, DecodedGood DEF Good
<1> HIDE DEF d
<1>3. i \in Instance
  BY <1>2 DEF Instance
<1>4. /\ i.namespace = d.namespace /\ i.service = d.service /\ i.instanceId = d.instanceId
      /\ i.address = d.address /\ i.port = d.port /\ i.weight = d.weight
      /\ i.metadata = d.metadata /\ i.mode = d.mode /\ i.status = s /\ i.probe = d.probe
      /\ i.revision = d.revision
  BY <1>2 DEF Instance
<1> HIDE DEF i
<1>5. KeyOf(i) = k /\ Endpoint(i) = Endpoint(d)
  BY <1>2, <1>4 DEF KeyOf, Endpoint
<1>6. Good(i)
  BY <1>2, <1>3, <1>4, <1>5 DEF Good, ValidInstance
<1>7. Wrote(k, i)
  BY <1>1, <1>2, <1>4, <1>5, <1>6 DEF Wrote, Put, WriteKey, Logged
<1> QED
  BY <1>7

LEMMA Leaving ==
    ASSUME NEW k \in Keys, Leave(k)
    PROVE  Erased(k)
<1>1. /\ Present(k) /\ log' = Append(log, [type |-> "delete", key |-> k, value |-> kv[k].value])
      /\ kv' = [j \in Keys |-> IF j \in {k} THEN Missing ELSE kv[j]]
      /\ rev' = IF {k} = {} THEN rev ELSE rev + 1
  BY DEF Leave, Delete, EraseKeys, Logged
<1> QED
  BY <1>1 DEF Erased

LEMMA Writing ==
    ASSUME CatalogInv, Write
    PROVE  \E k \in Keys : Erased(k) \/ \E i : Wrote(k, i)
<1>1. CASE \E via \in {"http", "grpc"}, raw \in Registrations : Register(raw, via)
  BY <1>1, Registering, CatalogAssumption
<1>2. CASE \E via \in {"http", "grpc"}, u \in Updates, expected \in 0..rev : Update(u, via, expected)
  BY <1>2, Updating, CatalogAssumption
<1>3. CASE \E k \in Keys : Leave(k) \/ \E s \in Statuses : Report(k, s)
  BY <1>3, Leaving, Reporting
<1> QED
  BY <1>1, <1>2, <1>3 DEF Write

\* What the history is after a change.
LEMMA Growing ==
    ASSUME CatalogInv, NEW e \in Change, log' = Append(log, e), rev' = rev + 1
    PROVE  /\ log' \in Seq(Change) /\ Len(log') = rev' - 1 /\ DOMAIN log' = 1..rev
           /\ log'[rev] = e /\ \A n \in 1..(rev - 1) : log'[n] = log[n]
           /\ \A n : n \in 1..(rev' - 1) <=> n \in 1..(rev - 1) \/ n = rev
<1>1. log \in Seq(Change) /\ Len(log) = rev - 1 /\ rev \in Nat \ {0}
  BY DEF CatalogInv, Stored, Logging
<1>2. /\ log' \in Seq(Change) /\ Len(log') = Len(log) + 1
      /\ \A j \in 1..Len(log) : log'[j] = log[j]
      /\ log'[Len(log) + 1] = e
  BY <1>1, Appending
<1>3. DOMAIN log' = 1..Len(log')
  BY <1>2
<1> QED
  BY <1>1, <1>2, <1>3

LEMMA CatalogStarts == CatalogInit => CatalogInv
<1> SUFFICES ASSUME CatalogInit PROVE CatalogInv
  OBVIOUS
<1>1. log = <<>> /\ rev = 1 /\ kv = [k \in Keys |-> Missing]
  BY DEF CatalogInit, StoreInit
<1>2. log \in Seq(Change) /\ Len(log) = 0 /\ 1..(rev - 1) = {}
  BY <1>1
<1>3. ASSUME NEW k \in Keys PROVE kv[k].mod = 0 /\ ~Present(k)
  <2>1. kv[k] = Missing
    BY <1>1
  <2>2. Missing.mod = 0
    BY DEF Missing, Record
  <2> QED
    BY <2>1, <2>2 DEF Present
<1> QED
  BY <1>1, <1>2, <1>3 DEF CatalogInv, Stored, Logging, Recorded

LEMMA CatalogWritten ==
    ASSUME CatalogInv, NEW k \in Keys, NEW i, Wrote(k, i)
    PROVE  CatalogInv'
<1> DEFINE e == [type |-> "put", key |-> k, value |-> i]
<1>1. PICK l : kv' = [kv EXCEPT ![k] = Record(i, rev + 1, l)]
  BY DEF Wrote
<1>2. Good(i) /\ KeyOf(i) = k /\ (Fresh => i.revision = kv[k].mod) /\ rev' = rev + 1 /\ log' = Append(log, e)
  BY DEF Wrote
<1>3. rev \in Nat \ {0} /\ kv[k].mod \in 0..rev /\ kv = [j \in Keys |-> kv[j]]
  BY DEF CatalogInv, Stored
<1>4. e \in Change
  BY <1>2 DEF Change, Good
<1>5. /\ log' \in Seq(Change) /\ Len(log') = rev' - 1 /\ DOMAIN log' = 1..rev
      /\ log'[rev] = e /\ \A n \in 1..(rev - 1) : log'[n] = log[n]
      /\ \A n : n \in 1..(rev' - 1) <=> n \in 1..(rev - 1) \/ n = rev
  BY <1>2, <1>4, Growing
<1>6. /\ kv' = [j \in Keys |-> kv'[j]] /\ kv'[k].value = i /\ kv'[k].mod = rev + 1
      /\ \A j \in Keys \ {k} : kv'[j] = kv[j]
  BY <1>1, <1>3 DEF Record
<1>7. Present(k)' /\ \A j \in Keys \ {k} : Present(j)' <=> Present(j)
  BY <1>3, <1>6 DEF Present
<1>8. Stored'
  <2>1. ASSUME NEW j \in Keys PROVE kv'[j].mod \in 0..rev'
    BY <1>2, <1>3, <1>6 DEF CatalogInv, Stored
  <2>2. ASSUME NEW j \in Keys, Present(j)'
        PROVE  /\ Good(kv'[j].value) /\ KeyOf(kv'[j].value) = j
               /\ Fresh => kv'[j].value.revision < kv'[j].mod
    BY <1>2, <1>3, <1>6, <1>7, <2>2 DEF CatalogInv, Stored
  <2> QED
    BY <1>2, <1>3, <1>6, <2>1, <2>2 DEF Stored, Good
<1>9. Logging'
  <2>1. ASSUME NEW n \in 1..(rev' - 1)
        PROVE  /\ Good(log'[n].value) /\ KeyOf(log'[n].value) = log'[n].key
               /\ Fresh => log'[n].value.revision <= n
    BY <1>2, <1>3, <1>5 DEF CatalogInv, Logging
  <2> QED
    BY <1>5, <2>1 DEF Logging, Good
<1>10. Recorded'
  <2>1. ASSUME NEW j \in Keys, Present(j)' PROVE RecordedAt(j)'
    <3>1. CASE j = k
      BY <1>2, <1>3, <1>5, <1>6, <3>1 DEF RecordedAt
    <3>2. CASE j # k
      <4>1. RecordedAt(j) /\ kv[j].mod \in 0..rev
        BY <1>7, <2>1, <3>2 DEF CatalogInv, Recorded, Stored
      <4> DEFINE n == kv[j].mod - 1
      <4>2. n \in 1..(rev - 1) /\ log'[n] = log[n] /\ kv'[j] = kv[j]
        BY <1>5, <1>6, <3>2, <4>1 DEF RecordedAt
      <4>3. \A m \in (n + 1)..(rev' - 1) : m \in (n + 1)..(rev - 1) \/ m = rev
        BY <1>2, <1>3, <4>2
      <4>4. \A m \in (n + 1)..(rev' - 1) : log'[m].key # j
        BY <1>5, <3>2, <4>1, <4>2, <4>3 DEF RecordedAt
      <4>5. /\ n \in 1..(rev' - 1) /\ n = kv'[j].mod - 1
            /\ log'[n].type = "put" /\ log'[n].key = j /\ log'[n].value = kv'[j].value
        BY <1>5, <4>1, <4>2 DEF RecordedAt
      <4> HIDE DEF n
      <4> QED
        BY <4>4, <4>5 DEF RecordedAt
    <3> QED
      BY <3>1, <3>2
  <2>2. ASSUME NEW n \in 1..(rev' - 1), log'[n].type = "put",
               \A m \in (n + 1)..(rev' - 1) : log'[m].key # log'[n].key
        PROVE  kv'[log'[n].key].mod = n + 1
    <3>1. CASE n = rev
      BY <1>5, <1>6, <3>1
    <3>2. CASE n # rev
      <4>1. n \in 1..(rev - 1) /\ log'[n] = log[n] /\ rev \in (n + 1)..(rev' - 1)
        BY <1>2, <1>3, <1>5, <3>2
      <4>2. log[n].key # k
        BY <1>5, <2>2, <4>1
      <4>3. \A m \in (n + 1)..(rev - 1) : m \in (n + 1)..(rev' - 1) /\ log'[m] = log[m]
        BY <1>2, <1>3, <1>5, <4>1
      <4>4. log[n].type = "put" /\ \A m \in (n + 1)..(rev - 1) : log[m].key # log[n].key
        BY <2>2, <4>1, <4>3
      <4>5. kv[log[n].key].mod = n + 1
        BY <4>1, <4>4 DEF CatalogInv, Recorded
      <4>6. log[n].key \in Keys
        BY <4>1 DEF CatalogInv, Logging, Good
      <4> QED
        BY <1>6, <4>1, <4>2, <4>5, <4>6
    <3> QED
      BY <3>1, <3>2
  <2> QED
    BY <2>1, <2>2 DEF Recorded
<1> QED
  BY <1>8, <1>9, <1>10 DEF CatalogInv

LEMMA CatalogErased ==
    ASSUME CatalogInv, NEW k \in Keys, Erased(k)
    PROVE  CatalogInv'
<1> DEFINE i == kv[k].value
           e == [type |-> "delete", key |-> k, value |-> i]
<1>1. /\ Good(i) /\ KeyOf(i) = k /\ (Fresh => i.revision < kv[k].mod)
      /\ kv[k].mod \in 0..rev /\ rev \in Nat \ {0}
  BY DEF CatalogInv, Stored, Erased
<1>2. /\ kv' = [j \in Keys |-> IF j = k THEN Missing ELSE kv[j]]
      /\ rev' = rev + 1 /\ log' = Append(log, e)
  BY DEF Erased
<1> HIDE DEF i
<1>3. e \in Change /\ i.revision \in Nat
  BY <1>1 DEF Change, Good, Instance
<1>4. /\ log' \in Seq(Change) /\ Len(log') = rev' - 1 /\ DOMAIN log' = 1..rev
      /\ log'[rev] = e /\ \A n \in 1..(rev - 1) : log'[n] = log[n]
      /\ \A n : n \in 1..(rev' - 1) <=> n \in 1..(rev - 1) \/ n = rev
  BY <1>2, <1>3, Growing
<1>5. /\ kv' = [j \in Keys |-> kv'[j]] /\ kv'[k].mod = 0
      /\ \A j \in Keys \ {k} : kv'[j] = kv[j]
  BY <1>2 DEF Record, Missing
<1>6. ~Present(k)' /\ \A j \in Keys \ {k} : Present(j)' <=> Present(j)
  BY <1>5 DEF Present
<1>7. Stored'
  <2>1. ASSUME NEW j \in Keys PROVE kv'[j].mod \in 0..rev'
    BY <1>1, <1>2, <1>5 DEF CatalogInv, Stored
  <2>2. ASSUME NEW j \in Keys, Present(j)'
        PROVE  /\ Good(kv'[j].value) /\ KeyOf(kv'[j].value) = j
               /\ Fresh => kv'[j].value.revision < kv'[j].mod
    BY <1>5, <1>6, <2>2 DEF CatalogInv, Stored
  <2> QED
    BY <1>1, <1>2, <1>5, <2>1, <2>2 DEF Stored, Good
<1>8. Logging'
  <2>1. ASSUME NEW n \in 1..(rev' - 1)
        PROVE  /\ Good(log'[n].value) /\ KeyOf(log'[n].value) = log'[n].key
               /\ Fresh => log'[n].value.revision <= n
    BY <1>1, <1>3, <1>4 DEF CatalogInv, Logging
  <2> QED
    BY <1>4, <2>1 DEF Logging, Good
<1>9. Recorded'
  <2>1. ASSUME NEW j \in Keys, Present(j)' PROVE RecordedAt(j)'
    <3>1. j # k /\ RecordedAt(j) /\ kv[j].mod \in 0..rev
      BY <1>6, <2>1 DEF CatalogInv, Recorded, Stored
    <3> DEFINE n == kv[j].mod - 1
    <3>2. n \in 1..(rev - 1) /\ log'[n] = log[n] /\ kv'[j] = kv[j]
      BY <1>4, <1>5, <3>1 DEF RecordedAt
    <3>3. \A m \in (n + 1)..(rev' - 1) : m \in (n + 1)..(rev - 1) \/ m = rev
      BY <1>1, <1>2, <3>2
    <3>4. \A m \in (n + 1)..(rev' - 1) : log'[m].key # j
      BY <1>4, <3>1, <3>2, <3>3 DEF RecordedAt
    <3>5. /\ n \in 1..(rev' - 1) /\ n = kv'[j].mod - 1
          /\ log'[n].type = "put" /\ log'[n].key = j /\ log'[n].value = kv'[j].value
      BY <1>4, <3>1, <3>2 DEF RecordedAt
    <3> HIDE DEF n
    <3> QED
      BY <3>4, <3>5 DEF RecordedAt
  <2>2. ASSUME NEW n \in 1..(rev' - 1), log'[n].type = "put",
               \A m \in (n + 1)..(rev' - 1) : log'[m].key # log'[n].key
        PROVE  kv'[log'[n].key].mod = n + 1
    <3>1. n # rev
      BY <1>4, <2>2
    <3>2. n \in 1..(rev - 1) /\ log'[n] = log[n] /\ rev \in (n + 1)..(rev' - 1)
      BY <1>1, <1>2, <1>4, <3>1
    <3>3. log[n].key # k
      BY <1>4, <2>2, <3>2
    <3>4. \A m \in (n + 1)..(rev - 1) : m \in (n + 1)..(rev' - 1) /\ log'[m] = log[m]
      BY <1>1, <1>2, <1>4, <3>2
    <3>5. log[n].type = "put" /\ \A m \in (n + 1)..(rev - 1) : log[m].key # log[n].key
      BY <2>2, <3>2, <3>4
    <3>6. kv[log[n].key].mod = n + 1
      BY <3>2, <3>5 DEF CatalogInv, Recorded
    <3>7. log[n].key \in Keys
      BY <3>2 DEF CatalogInv, Logging, Good
    <3> QED
      BY <1>5, <3>2, <3>3, <3>6, <3>7
  <2> QED
    BY <2>1, <2>2 DEF Recorded
<1> QED
  BY <1>7, <1>8, <1>9 DEF CatalogInv

LEMMA CatalogKept ==
    ASSUME CatalogInv, Write
    PROVE  CatalogInv'
  BY Writing, CatalogWritten, CatalogErased

-----------------------------------------------------------------------------
(* The keys of a service: a name ends where its slash is.                  *)

Pieces == STRING \cup {"instances", "/"}
SlashFree(name) == \A j \in 1..Len(name) : name[j] # "/"

Begins(s, t) == Len(s) <= Len(t) /\ \A j \in 1..Len(s) : s[j] = t[j]

\* One joined to the next.
Cat(s, t) == s \o t

LEMMA CoversBegins ==
    ASSUME NEW s \in Seq(Pieces), NEW t \in Seq(Pieces)
    PROVE  Covers(s, t) <=> Begins(s, t)
<1>1. ASSUME Covers(s, t) PROVE Begins(s, t)
  BY <1>1 DEF Covers, Begins
<1>2. ASSUME Begins(s, t) PROVE Covers(s, t)
  <2>1. SubSeq(t, 1, Len(s)) = s
    BY <1>2 DEF Begins
  <2> QED
    BY <1>2, <2>1 DEF Covers, Begins
<1> QED
  BY <1>1, <1>2

LEMMA Joined ==
    ASSUME NEW s \in Seq(Pieces), NEW t \in Seq(Pieces)
    PROVE  /\ Cat(s, t) \in Seq(Pieces) /\ Len(Cat(s, t)) = Len(s) + Len(t)
           /\ \A j \in 1..Len(s) : Cat(s, t)[j] = s[j]
           /\ \A j \in 1..Len(t) : Cat(s, t)[Len(s) + j] = t[j]
           /\ Len(s) \in Nat /\ Len(t) \in Nat
<1>1. /\ Cat(s, t) \in Seq(Pieces) /\ Len(Cat(s, t)) = Len(s) + Len(t)
      /\ \A j \in 1..(Len(s) + Len(t)) : Cat(s, t)[j] = IF j <= Len(s) THEN s[j] ELSE t[j - Len(s)]
  BY ConcatProperties DEF Cat
<1>2. Len(s) \in Nat /\ Len(t) \in Nat
  OBVIOUS
<1>3. \A j \in 1..Len(s) : Cat(s, t)[j] = s[j]
  BY <1>1, <1>2
<1>4. ASSUME NEW j \in 1..Len(t) PROVE Cat(s, t)[Len(s) + j] = t[j]
  <2>1. Len(s) + j \in 1..(Len(s) + Len(t)) /\ ~(Len(s) + j <= Len(s)) /\ (Len(s) + j) - Len(s) = j
    BY <1>2
  <2> QED
    BY <1>1, <2>1
<1> QED
  BY <1>1, <1>2, <1>3, <1>4

LEMMA SameHead ==
    ASSUME NEW h \in Seq(Pieces), NEW s \in Seq(Pieces), NEW t \in Seq(Pieces)
    PROVE  Begins(Cat(h, s), Cat(h, t)) <=> Begins(s, t)
<1> DEFINE x == Cat(h, s)
           y == Cat(h, t)
<1>1. /\ Len(x) = Len(h) + Len(s) /\ Len(h) \in Nat /\ Len(s) \in Nat
      /\ \A j \in 1..Len(h) : x[j] = h[j]
      /\ \A j \in 1..Len(s) : x[Len(h) + j] = s[j]
  BY Joined
<1>2. /\ Len(y) = Len(h) + Len(t) /\ Len(t) \in Nat
      /\ \A j \in 1..Len(h) : y[j] = h[j]
      /\ \A j \in 1..Len(t) : y[Len(h) + j] = t[j]
  BY Joined
<1> HIDE DEF x, y
<1>3. ASSUME Begins(x, y) PROVE Begins(s, t)
  <2>1. Len(s) <= Len(t)
    BY <1>1, <1>2, <1>3 DEF Begins
  <2>2. ASSUME NEW j \in 1..Len(s) PROVE s[j] = t[j]
    <3>1. Len(h) + j \in 1..Len(x) /\ j \in 1..Len(t)
      BY <1>1, <1>2, <2>1
    <3> QED
      BY <1>1, <1>2, <1>3, <3>1 DEF Begins
  <2> QED
    BY <2>1, <2>2 DEF Begins
<1>4. ASSUME Begins(s, t) PROVE Begins(x, y)
  <2>1. Len(x) <= Len(y)
    BY <1>1, <1>2, <1>4 DEF Begins
  <2>2. ASSUME NEW j \in 1..Len(x) PROVE x[j] = y[j]
    <3>1. CASE j <= Len(h)
      BY <1>1, <1>2, <3>1
    <3>2. CASE j > Len(h)
      <4>1. j - Len(h) \in 1..Len(s) /\ j - Len(h) \in 1..Len(t) /\ Len(h) + (j - Len(h)) = j
        BY <1>1, <1>2, <1>4, <3>2 DEF Begins
      <4>2. x[j] = s[j - Len(h)] /\ y[j] = t[j - Len(h)]
        BY <1>1, <1>2, <4>1
      <4> QED
        BY <1>4, <4>1, <4>2 DEF Begins
    <3> QED
      BY <1>1, <3>1, <3>2
  <2> QED
    BY <2>1, <2>2 DEF Begins
<1> QED
  BY <1>3, <1>4 DEF x, y

LEMMA NameFirst ==
    ASSUME NEW m \in Seq(Pieces), NEW n \in Seq(Pieces), NEW s \in Seq(Pieces), NEW t \in Seq(Pieces),
           SlashFree(m), SlashFree(n)
    PROVE  Begins(Cat(m, Cat(Slash, s)), Cat(n, Cat(Slash, t))) <=> m = n /\ Begins(s, t)
<1>1. Slash \in Seq(Pieces) /\ Len(Slash) = 1 /\ Slash[1] = "/"
  BY DEF Slash, Pieces
<1> DEFINE ss == Cat(Slash, s)
           tt == Cat(Slash, t)
           x == Cat(m, ss)
           y == Cat(n, tt)
<1>0. ASSUME NEW u \in Seq(Pieces), NEW v, v = Cat(Slash, u)
      PROVE  v \in Seq(Pieces) /\ v[1] = "/" /\ 1 \in 1..Len(v)
  <2>1. /\ v \in Seq(Pieces) /\ Len(v) = Len(Slash) + Len(u) /\ Len(u) \in Nat
        /\ \A j \in 1..Len(Slash) : v[j] = Slash[j]
    BY <1>0, <1>1, Joined
  <2> QED
    BY <1>1, <2>1
<1>2. ss \in Seq(Pieces) /\ tt \in Seq(Pieces) /\ ss[1] = "/" /\ tt[1] = "/" /\ 1 \in 1..Len(ss) /\ 1 \in 1..Len(tt)
  BY <1>0
<1> HIDE DEF ss, tt
<1>3. /\ Len(x) = Len(m) + Len(ss) /\ Len(m) \in Nat /\ Len(ss) \in Nat
      /\ \A j \in 1..Len(m) : x[j] = m[j]
      /\ \A j \in 1..Len(ss) : x[Len(m) + j] = ss[j]
  BY <1>2, Joined
<1>4. /\ Len(y) = Len(n) + Len(tt) /\ Len(n) \in Nat /\ Len(tt) \in Nat
      /\ \A j \in 1..Len(n) : y[j] = n[j]
      /\ \A j \in 1..Len(tt) : y[Len(n) + j] = tt[j]
  BY <1>2, Joined
<1> HIDE DEF x, y
<1>5. ASSUME Begins(x, y) PROVE m = n
  <2>1. ~(Len(m) < Len(n))
    <3> SUFFICES ASSUME Len(m) < Len(n) PROVE FALSE
      OBVIOUS
    <3>1. Len(m) + 1 \in 1..Len(n) /\ Len(m) + 1 \in 1..Len(x)
      BY <1>2, <1>3, <1>4
    <3>2. x[Len(m) + 1] = "/" /\ y[Len(m) + 1] = n[Len(m) + 1]
      BY <1>2, <1>3, <1>4, <3>1
    <3>3. x[Len(m) + 1] = y[Len(m) + 1]
      BY <1>5, <3>1 DEF Begins
    <3> QED
      BY <3>1, <3>2, <3>3 DEF SlashFree
  <2>2. ~(Len(n) < Len(m))
    <3> SUFFICES ASSUME Len(n) < Len(m) PROVE FALSE
      OBVIOUS
    <3>1. Len(n) + 1 \in 1..Len(m) /\ Len(n) + 1 \in 1..Len(x)
      BY <1>2, <1>3, <1>4
    <3>2. x[Len(n) + 1] = m[Len(n) + 1] /\ y[Len(n) + 1] = "/"
      BY <1>2, <1>3, <1>4, <3>1
    <3>3. x[Len(n) + 1] = y[Len(n) + 1]
      BY <1>5, <3>1 DEF Begins
    <3> QED
      BY <3>1, <3>2, <3>3 DEF SlashFree
  <2>3. Len(m) = Len(n)
    BY <1>3, <1>4, <2>1, <2>2
  <2>4. \A j \in 1..Len(m) : m[j] = n[j]
    <3> TAKE j \in 1..Len(m)
    <3>1. j \in 1..Len(n) /\ j \in 1..Len(x)
      BY <1>3, <2>3
    <3> QED
      BY <1>3, <1>4, <1>5, <3>1 DEF Begins
  <2> QED
    BY <2>3, <2>4, SeqEqual
<1>6. ASSUME m = n PROVE Begins(x, y) <=> Begins(s, t)
  <2>1. Begins(x, y) <=> Begins(ss, tt)
    BY <1>2, <1>6, SameHead DEF x, y
  <2>2. Begins(ss, tt) <=> Begins(s, t)
    BY <1>1, SameHead DEF ss, tt
  <2> QED
    BY <2>1, <2>2
<1> QED
  BY <1>5, <1>6 DEF x, y, ss, tt

LEMMA NamesSlashFree ==
    \A name \in NamespaceNames \cup ServiceNames \cup InstanceIDs :
        name \in Seq(STRING) => name \in Seq(Pieces) /\ SlashFree(name) /\ name # <<>>
<1> SUFFICES ASSUME NEW name \in NamespaceNames \cup ServiceNames \cup InstanceIDs, name \in Seq(STRING)
             PROVE  name \in Seq(Pieces) /\ SlashFree(name) /\ name # <<>>
  OBVIOUS
<1>1. name \in Seq(Pieces)
  BY SeqMonotonic DEF Pieces
<1>2. DOMAIN name = 1..Len(name)
  OBVIOUS
<1> QED
  BY <1>1, <1>2, NameAssumption DEF SlashFree

Head2 == <<"instances", "/">>

LEMMA CatAssociative == \A T : \A x, y, z \in Seq(T) : Cat(Cat(x, y), z) = Cat(x, Cat(y, z))
<1>1. \A T : \A x, y, z \in Seq(T) : (x \o y) \o z = x \o (y \o z)
  BY ConcatAssociative
<1> QED
  BY <1>1 DEF Cat

LEMMA Associating ==
    ASSUME NEW h \in Seq(Pieces), NEW n \in Seq(Pieces), NEW l \in Seq(Pieces), NEW s \in Seq(Pieces),
           NEW t \in Seq(Pieces)
    PROVE  /\ Cat(Cat(Cat(Cat(Cat(h, n), l), s), l), t) = Cat(h, Cat(n, Cat(l, Cat(s, Cat(l, t)))))
           /\ Cat(l, t) \in Seq(Pieces) /\ Cat(s, Cat(l, t)) \in Seq(Pieces)
           /\ Cat(l, Cat(s, Cat(l, t))) \in Seq(Pieces)
           /\ Cat(n, Cat(l, Cat(s, Cat(l, t)))) \in Seq(Pieces)
           /\ Cat(h, Cat(n, Cat(l, Cat(s, Cat(l, t))))) \in Seq(Pieces)
<1>0. ASSUME NEW x \in Seq(Pieces), NEW y \in Seq(Pieces) PROVE Cat(x, y) \in Seq(Pieces)
  BY DEF Cat
<1>1. /\ Cat(h, n) \in Seq(Pieces) /\ Cat(Cat(h, n), l) \in Seq(Pieces)
      /\ Cat(Cat(Cat(h, n), l), s) \in Seq(Pieces)
  BY <1>0
<1>2. /\ Cat(l, t) \in Seq(Pieces) /\ Cat(s, Cat(l, t)) \in Seq(Pieces)
      /\ Cat(l, Cat(s, Cat(l, t))) \in Seq(Pieces)
  BY <1>0
<1>3. /\ Cat(n, Cat(l, Cat(s, Cat(l, t)))) \in Seq(Pieces)
      /\ Cat(h, Cat(n, Cat(l, Cat(s, Cat(l, t))))) \in Seq(Pieces)
  BY <1>0, <1>2
<1> QED
  BY <1>1, <1>2, <1>3, CatAssociative

LEMMA JoinedRight ==
    ASSUME NEW n \in Seq(Pieces), NEW s \in Seq(Pieces), NEW id \in Seq(Pieces)
    PROVE  /\ InstanceKey(n, s, id) = Cat(Head2, Cat(n, Cat(Slash, Cat(s, Cat(Slash, id)))))
           /\ InstanceServicePrefix(n, s) = Cat(Head2, Cat(n, Cat(Slash, Cat(s, Cat(Slash, <<>>)))))
<1>1. Slash \in Seq(Pieces) /\ Head2 \in Seq(Pieces) /\ <<>> \in Seq(Pieces)
  BY DEF Slash, Head2, Pieces
<1>2. InstanceKey(n, s, id) = Cat(Cat(Cat(Cat(Cat(Head2, n), Slash), s), Slash), id)
  BY DEF InstanceKey, Head2, Cat
<1>3. InstanceServicePrefix(n, s) = Cat(Cat(Cat(Cat(Cat(Head2, n), Slash), s), Slash), <<>>)
  <2> DEFINE p == Cat(Cat(Cat(Cat(Head2, n), Slash), s), Slash)
  <2>1. p \in Seq(Pieces)
    BY <1>1, ConcatProperties DEF Cat
  <2>2. InstanceServicePrefix(n, s) = p
    BY DEF InstanceServicePrefix, Head2, Cat
  <2> HIDE DEF p
  <2>3. Cat(p, <<>>) = p
    BY <2>1, ConcatEmptySeq DEF Cat
  <2> QED
    BY <2>2, <2>3 DEF p
<1>4. ASSUME NEW u \in Seq(Pieces)
      PROVE  Cat(Cat(Cat(Cat(Cat(Head2, n), Slash), s), Slash), u)
             = Cat(Head2, Cat(n, Cat(Slash, Cat(s, Cat(Slash, u)))))
  BY <1>1, Associating
<1> QED
  BY <1>1, <1>2, <1>3, <1>4, Zenon

\* The service's prefix covers the keys of its instances and no other.
LEMMA ServiceCovers ==
    ASSUME NEW i \in Instance, ValidInstance(i)
    PROVE  Covers(Prefix(Asked.namespace, Asked.service), KeyOf(i)) <=> Belongs(i)
<1> DEFINE an == Asked.namespace
           as == Asked.service
           n == i.namespace
           s == i.service
           id == i.instanceId
<1>1. /\ an \in Seq(STRING) /\ as \in Seq(STRING) /\ n \in Seq(STRING) /\ s \in Seq(STRING) /\ id \in Seq(STRING)
      /\ an \in NamespaceNames /\ n \in NamespaceNames /\ as \in ServiceNames /\ s \in ServiceNames
  BY ConsumerAssumption DEF Instance, ValidInstance, ValidNamespaceName, ValidServiceName
<1>2. id \in Seq(Pieces)
  BY <1>1, SeqMonotonic DEF Pieces
<1>3. Belongs(i) <=> an = n /\ as = s
  BY DEF Belongs
<1>4. Prefix(an, as) = InstanceServicePrefix(an, as) /\ KeyOf(i) = InstanceKey(n, s, id)
  BY <1>1, NameAssumption DEF Prefix, KeyOf
<1> HIDE DEF an, as, n, s, id
<1>5. /\ an \in Seq(Pieces) /\ as \in Seq(Pieces) /\ n \in Seq(Pieces) /\ s \in Seq(Pieces)
      /\ SlashFree(an) /\ SlashFree(as) /\ SlashFree(n) /\ SlashFree(s)
  BY <1>1, NamesSlashFree
<1>6. Slash \in Seq(Pieces) /\ Head2 \in Seq(Pieces) /\ <<>> \in Seq(Pieces)
  BY DEF Slash, Head2, Pieces
<1> DEFINE p0 == Cat(as, Cat(Slash, <<>>))
           k0 == Cat(s, Cat(Slash, id))
           p1 == Cat(an, Cat(Slash, p0))
           k1 == Cat(n, Cat(Slash, k0))
<1>7. p0 \in Seq(Pieces) /\ k0 \in Seq(Pieces) /\ p1 \in Seq(Pieces) /\ k1 \in Seq(Pieces)
  BY <1>2, <1>5, <1>6, Joined
<1>8. InstanceServicePrefix(an, as) = Cat(Head2, p1) /\ InstanceKey(n, s, id) = Cat(Head2, k1)
  BY <1>2, <1>5, JoinedRight
<1>9. Begins(p0, k0) <=> as = s /\ Begins(<<>>, id)
  BY <1>2, <1>5, <1>6, NameFirst
<1>10. Begins(<<>>, id)
  BY <1>2 DEF Begins
<1> HIDE DEF p0, k0
<1>11. Begins(p1, k1) <=> an = n /\ Begins(p0, k0)
  BY <1>5, <1>7, NameFirst
<1> HIDE DEF p1, k1
<1>12. Begins(Cat(Head2, p1), Cat(Head2, k1)) <=> Begins(p1, k1)
  BY <1>6, <1>7, SameHead
<1>13. Cat(Head2, p1) \in Seq(Pieces) /\ Cat(Head2, k1) \in Seq(Pieces)
  BY <1>6, <1>7, Joined
<1>14. Covers(Prefix(an, as), KeyOf(i)) <=> Begins(Cat(Head2, p1), Cat(Head2, k1))
  BY <1>4, <1>8, <1>13, CoversBegins
<1>15. Covers(Prefix(an, as), KeyOf(i)) <=> Belongs(i)
  BY <1>3, <1>9, <1>10, <1>11, <1>12, <1>14
<1> QED
  BY <1>15 DEF an, as

\* Within the service an id has one key.
LEMMA OneKey ==
    ASSUME NEW i \in Instance, NEW j \in Instance, Belongs(i), Belongs(j)
    PROVE  i.instanceId = j.instanceId <=> KeyOf(i) = KeyOf(j)
<1>1. ASSUME i.instanceId = j.instanceId PROVE KeyOf(i) = KeyOf(j)
  BY <1>1 DEF Belongs, KeyOf
<1>2. ASSUME KeyOf(i) = KeyOf(j) PROVE i.instanceId = j.instanceId
  <2> DEFINE n == Asked.namespace
             s == Asked.service
             a == i.instanceId
             b == j.instanceId
             h == <<"instances", "/">> \o n \o Slash \o s \o Slash
  <2>1. n \in Seq(STRING) /\ s \in Seq(STRING) /\ a \in Seq(STRING) /\ b \in Seq(STRING)
    BY ConsumerAssumption DEF Instance
  <2>2. n \in Seq(Pieces) /\ s \in Seq(Pieces) /\ a \in Seq(Pieces) /\ b \in Seq(Pieces)
    BY <2>1, SeqMonotonic DEF Pieces
  <2>3. KeyOf(i) = h \o a /\ KeyOf(j) = h \o b
    BY DEF Belongs, KeyOf, InstanceKey
  <2>4. h \in Seq(Pieces)
    <3>1. Slash \in Seq(Pieces) /\ Head2 \in Seq(Pieces)
      BY DEF Slash, Head2, Pieces
    <3>2. ASSUME NEW x \in Seq(Pieces), NEW y \in Seq(Pieces) PROVE x \o y \in Seq(Pieces)
      BY ConcatProperties
    <3> HIDE DEF n, s
    <3> QED
      BY <2>2, <3>1, <3>2 DEF Head2
  <2> HIDE DEF h, a, b
  <2>5. h \o a = h \o b
    BY <1>2, <2>3
  <2>6. a = b
    BY <2>2, <2>4, <2>5, ConcatSimplifications
  <2> QED
    BY <2>6 DEF a, b
<1> QED
  BY <1>1, <1>2

-----------------------------------------------------------------------------
(* What Sync reads.                                                        *)

LEMMA Cloned == \A m \in Metadata : Entries(CloneStringMap(m)) = Entries(m)
  BY DEF CloneStringMap, Entries

LEMMA Typed == \A i \in Instance : i.metadata \in Metadata /\ i.revision \in Nat
  BY DEF Instance

\* An instance comes over the wire with its content, its key and its endpoint.
LEMMA OverWireSame ==
    ASSUME NEW i, Good(i)
    PROVE  LET w == InstanceOverWire(i) IN
           /\ w \in Instance /\ ValidInstance(w) /\ KeyOf(w) = KeyOf(i) /\ Endpoint(w) = Endpoint(i)
           /\ w.namespace = i.namespace /\ w.service = i.service /\ w.instanceId = i.instanceId
           /\ w.revision = i.revision /\ Content(w) = Content(i)
<1> DEFINE w == InstanceOverWire(i)
           m == CloneStringMap(i.metadata)
<1>1. i \in Instance /\ ValidInstance(i)
  BY DEF Good
<1>2. w \in Instance /\ KeyOf(w) = KeyOf(i) /\ w.revision = i.revision
  BY <1>1, OverWireTyped
<1>3. w = [i EXCEPT !.metadata = m]
  BY <1>1, OverWireValid
<1>4. Entries(m) = Entries(i.metadata)
  BY <1>1, Cloned, Typed
<1> HIDE DEF w, m
<1>5. /\ w.namespace = i.namespace /\ w.service = i.service /\ w.instanceId = i.instanceId
      /\ w.address = i.address /\ w.port = i.port /\ w.weight = i.weight
      /\ w.metadata = m /\ w.mode = i.mode /\ w.status = i.status /\ w.probe = i.probe
  BY <1>1, <1>3 DEF Instance
<1>6. ValidInstance(w)
  BY <1>1, <1>4, <1>5 DEF ValidInstance, ValidFlatMetadata
<1>7. Content(w) = Content(i)
  <2>1. Content(w) = [w EXCEPT !.revision = 0, !.metadata = Entries(m)]
    BY <1>5 DEF Content
  <2>2. Content(i) = [i EXCEPT !.revision = 0, !.metadata = Entries(m)]
    BY <1>4 DEF Content
  <2> QED
    BY <1>1, <1>3, <2>1, <2>2 DEF Instance
<1> QED
  BY <1>2, <1>5, <1>6, <1>7 DEF w, Endpoint

Listed(k, f) == k \in Keys /\ Present(k) /\ Belongs(Decoded(k)) /\ Matches(Decoded(k), f)

LEMMA Listing ==
    ASSUME CatalogInv, NEW f
    PROVE  LET s == Snapshot(Asked.namespace, Asked.service, f) IN
           /\ s \in Seq(Instance)
           /\ \A j \in 1..Len(s) : \E k : Listed(k, f) /\ s[j] = Decoded(k)
           /\ \A k : Listed(k, f) => \E j \in 1..Len(s) : s[j] = Decoded(k)
<1> DEFINE listed == {k \in Keys : /\ Present(k)
                                   /\ Covers(Prefix(Asked.namespace, Asked.service), k)
                                   /\ Matches(Decoded(k), f)}
           found == Selected(SortedKeys, listed)
           s == Snapshot(Asked.namespace, Asked.service, f)
<1>1. SortedKeys \in Seq(Keys) /\ \A k \in Keys : \E j \in DOMAIN SortedKeys : SortedKeys[j] = k
  BY CatalogAssumption
<1>2. \A k : k \in listed <=> Listed(k, f)
  <2> SUFFICES ASSUME NEW k \in Keys, Present(k)
               PROVE  Covers(Prefix(Asked.namespace, Asked.service), k) <=> Belongs(Decoded(k))
    BY DEF Listed
  <2>1. Good(Decoded(k)) /\ KeyOf(Decoded(k)) = k
    BY DecodedGood
  <2> QED
    BY <2>1, ServiceCovers DEF Good
<1>3. s = [j \in DOMAIN found |-> Decoded(found[j])]
  BY DEF Snapshot
<1> HIDE DEF listed
<1>4. /\ found \in Seq(Keys)
      /\ \A x : (\E j \in DOMAIN found : found[j] = x) <=> x \in listed /\ \E j \in DOMAIN SortedKeys : SortedKeys[j] = x
  BY <1>1, Selecting
<1> HIDE DEF found, s
<1>5. DOMAIN found = 1..Len(found) /\ Len(found) \in Nat
  BY <1>4
<1>6. ASSUME NEW j \in 1..Len(found) PROVE Listed(found[j], f) /\ Decoded(found[j]) \in Instance
  <2>1. Listed(found[j], f)
    BY <1>2, <1>4, <1>5
  <2> QED
    BY <2>1, DecodedGood DEF Listed, Good
<1>7. s \in Seq(Instance) /\ Len(s) = Len(found) /\ \A j \in 1..Len(s) : s[j] = Decoded(found[j])
  BY <1>3, <1>5, <1>6
<1>8. ASSUME NEW k, Listed(k, f) PROVE \E j \in 1..Len(s) : s[j] = Decoded(k)
  <2>1. k \in listed /\ k \in Keys
    BY <1>2, <1>8 DEF Listed
  <2>2. PICK j \in DOMAIN found : found[j] = k
    BY <1>1, <1>4, <2>1
  <2> QED
    BY <1>5, <1>7, <2>2
<1> QED
  BY <1>6, <1>7, <1>8 DEF s

\* An instance as it may be in the cache.
Item(i) ==
    /\ i \in Instance /\ ValidInstance(i) /\ KeyOf(i) \in Keys /\ Endpoint(i) \in Endpoints
    /\ Belongs(i) /\ (over = "http" => i.metadata # Nil)

\* An instance with the revision of the stored one is the stored one.
Known(i) ==
    Fresh =>
        /\ i.revision <= rev
        /\ kv[KeyOf(i)].mod = i.revision /\ i.revision > 0 => Content(i) = Content(kv[KeyOf(i)].value)

\* The answer has what is stored of the service and matches, and no more.
LEMMA Receiving ==
    ASSUME CatalogInv, NEW f, over \in {"http", "grpc"}
    PROVE  LET s == ItemsOverWire(Snapshot(Asked.namespace, Asked.service, f)) IN
           /\ s \in Seq(Instance) /\ \A j \in 1..Len(s) : Item(s[j]) /\ Known(s[j])
           /\ \A j \in 1..Len(s) : \E k : /\ Listed(k, f) /\ KeyOf(s[j]) = k
                                          /\ Content(s[j]) = Content(Decoded(k))
           /\ \A k : Listed(k, f) => \E j \in 1..Len(s) : /\ KeyOf(s[j]) = k
                                                          /\ Content(s[j]) = Content(Decoded(k))
<1> DEFINE t == Snapshot(Asked.namespace, Asked.service, f)
           s == ItemsOverWire(t)
           Sent(i) == IF over = "http" THEN i ELSE InstanceOverWire(i)
<1>1. /\ t \in Seq(Instance)
      /\ \A j \in 1..Len(t) : \E k : Listed(k, f) /\ t[j] = Decoded(k)
      /\ \A k : Listed(k, f) => \E j \in 1..Len(t) : t[j] = Decoded(k)
  BY Listing
<1> HIDE DEF t
<1>2. Len(t) \in Nat /\ DOMAIN t = 1..Len(t) /\ \A j \in 1..Len(t) : t[j] \in Instance
  BY <1>1
<1>3. s \in Seq(Instance) /\ Len(s) = Len(t) /\ \A j \in 1..Len(t) : s[j] = Sent(t[j])
  <2>1. CASE over = "http"
    BY <1>1, <2>1 DEF ItemsOverWire
  <2>2. CASE over # "http"
    <3>1. s = [j \in 1..Len(t) |-> InstanceOverWire(t[j])]
      BY <1>2, <2>2 DEF ItemsOverWire
    <3>2. \A j \in 1..Len(t) : InstanceOverWire(t[j]) \in Instance
      BY <1>2, OverWireTyped
    <3> HIDE DEF s
    <3> QED
      BY <1>2, <2>2, <3>1, <3>2
  <2> QED
    BY <2>1, <2>2
<1> HIDE DEF s
<1>4. ASSUME NEW k, Listed(k, f)
      PROVE  LET i == Sent(Decoded(k)) IN
             Item(i) /\ Known(i) /\ KeyOf(i) = k /\ Content(i) = Content(Decoded(k))
  <2> DEFINE d == Decoded(k)
             i == Sent(d)
  <2>1. /\ Good(d) /\ KeyOf(d) = k /\ d.revision = kv[k].mod /\ Content(d) = Content(kv[k].value)
        /\ Belongs(d) /\ k \in Keys
    BY <1>4, DecodedGood DEF Listed
  <2>2. kv[k].mod <= rev
    BY <2>1 DEF CatalogInv, Stored
  <2> HIDE DEF d
  <2>3. /\ i \in Instance /\ ValidInstance(i) /\ KeyOf(i) = KeyOf(d) /\ Endpoint(i) = Endpoint(d)
        /\ i.namespace = d.namespace /\ i.service = d.service
        /\ i.revision = d.revision /\ Content(i) = Content(d)
    <3>1. CASE over = "http"
      BY <2>1, <3>1 DEF Good
    <3>2. CASE over # "http"
      BY <2>1, <3>2, OverWireSame
    <3> QED
      BY <3>1, <3>2
  <2>4. over = "http" => i.metadata # Nil
    BY <2>1 DEF Good
  <2> HIDE DEF i
  <2>5. Item(i) /\ Known(i)
    BY <2>1, <2>2, <2>3, <2>4 DEF Item, Known, Good, Belongs
  <2> QED
    BY <2>1, <2>3, <2>5 DEF i, d
<1> HIDE DEF Sent
<1>5. ASSUME NEW j \in 1..Len(s)
      PROVE  /\ Item(s[j]) /\ Known(s[j])
             /\ \E k : Listed(k, f) /\ KeyOf(s[j]) = k /\ Content(s[j]) = Content(Decoded(k))
  <2>1. PICK k : Listed(k, f) /\ t[j] = Decoded(k)
    BY <1>1, <1>3
  <2>2. s[j] = Sent(Decoded(k))
    BY <1>3, <2>1
  <2> QED
    BY <1>4, <2>1, <2>2
<1>6. ASSUME NEW k, Listed(k, f)
      PROVE  \E j \in 1..Len(s) : KeyOf(s[j]) = k /\ Content(s[j]) = Content(Decoded(k))
  <2>1. PICK j \in 1..Len(t) : t[j] = Decoded(k)
    BY <1>1, <1>6
  <2>2. j \in 1..Len(s) /\ s[j] = Sent(Decoded(k))
    BY <1>3, <2>1
  <2> QED
    BY <1>4, <1>6, <2>2
<1> QED
  BY <1>3, <1>5, <1>6 DEF s, t

-----------------------------------------------------------------------------
(* The cache: what Sync stored and events changed.                         *)

LEMMA Greatest ==
    ASSUME NEW b \in Nat, NEW S \in SUBSET (0..b), S # {}
    PROVE  \E n \in S : \A m \in S : m <= n
<1> DEFINE R == {b - m : m \in S}
<1>1. R \in SUBSET Nat /\ R # {}
  <2>1. \A m \in S : b - m \in Nat
    OBVIOUS
  <2>2. PICK m \in S : TRUE
    OBVIOUS
  <2>3. b - m \in R
    BY <2>2
  <2> QED
    BY <2>1, <2>3
<1>2. PICK d \in R : \A e \in R : d <= e
  BY <1>1, Least
<1>3. PICK n \in S : d = b - n
  BY <1>2
<1>4. ASSUME NEW m \in S PROVE m <= n
  <2>1. b - n <= b - m
    BY <1>2, <1>3
  <2> QED
    BY <2>1
<1> QED
  BY <1>4

LEMMA NewestIn ==
    ASSUME NEW items \in Seq(Instance), NEW b \in Nat, \A j \in 1..Len(items) : items[j].revision <= b
    PROVE  Newest(items) \in 0..b /\ \A j \in 1..Len(items) : items[j].revision <= Newest(items)
<1> DEFINE revisions == {items[j].revision : j \in DOMAIN items}
           R == revisions \cup {0}
<1>1. DOMAIN items = 1..Len(items) /\ \A j \in 1..Len(items) : items[j].revision \in Nat
  BY Typed
<1>2. R \in SUBSET (0..b) /\ R # {}
  BY <1>1
<1>3. \E n \in R : \A m \in R : m <= n
  BY <1>2, Greatest
<1>4. Newest(items) = CHOOSE r \in R : \A s \in revisions : s <= r
  BY DEF Newest
<1>5. Newest(items) \in R /\ \A s \in revisions : s <= Newest(items)
  BY <1>3, <1>4
<1> QED
  BY <1>1, <1>2, <1>5

Others(items, e) == {items[j] : j \in {k \in DOMAIN items : items[k].instanceId # e.value.instanceId}}

Has(items, x) == \E j \in 1..Len(items) : items[j] = x

\* What an event leaves in the cache.
Left(items, e, x) ==
    \/ x.instanceId # e.value.instanceId /\ Has(items, x)
    \/ e.type = "put" /\ x = e.value

LEMMA Applying ==
    ASSUME NEW items \in Seq(Instance), NEW e, e.value \in Instance
    PROVE  /\ Applied(items, e) \in Seq(Instance)
           /\ \A x : Has(Applied(items, e), x) <=> Left(items, e, x)
<1> DEFINE keep == Others(items, e)
           others == Selected(items, keep)
           after == Applied(items, e)
<1>1. /\ others \in Seq(Instance)
      /\ \A x : (\E j \in DOMAIN others : others[j] = x) <=> x \in keep /\ \E j \in DOMAIN items : items[j] = x
  <2>1. items \in Seq(Instance)
    OBVIOUS
  <2> QED
    BY ONLY <2>1, Selecting
<1>2. DOMAIN items = 1..Len(items)
  OBVIOUS
<1>3. \A x : x \in keep /\ (\E j \in DOMAIN items : items[j] = x)
             <=> x.instanceId # e.value.instanceId /\ \E j \in 1..Len(items) : items[j] = x
  BY <1>2 DEF Others
<1>4. after = IF e.type = "put" THEN Append(others, e.value) ELSE others
  BY DEF Applied, Others
<1> HIDE DEF others, after, keep
<1>5. DOMAIN others = 1..Len(others) /\ Len(others) \in Nat
  BY <1>1
<1>6. CASE e.type # "put"
  BY <1>1, <1>3, <1>4, <1>5, <1>6 DEF after, Has, Left
<1>7. CASE e.type = "put"
  <2>1. after = Append(others, e.value)
    BY <1>4, <1>7
  <2>2. /\ after \in Seq(Instance) /\ Len(after) = Len(others) + 1
        /\ \A j \in 1..Len(others) : after[j] = others[j]
        /\ after[Len(others) + 1] = e.value
    BY <1>1, <2>1, Appending
  <2>3. \A j : j \in 1..Len(after) <=> j \in 1..Len(others) \/ j = Len(others) + 1
    BY <1>5, <2>2
  <2>4. \A x : (\E j \in 1..Len(after) : after[j] = x) <=> (\E j \in 1..Len(others) : others[j] = x) \/ x = e.value
    BY <2>2, <2>3
  <2>5. \A x : (\E j \in 1..Len(others) : others[j] = x)
               <=> x.instanceId # e.value.instanceId /\ \E j \in 1..Len(items) : items[j] = x
    BY <1>1, <1>3, <1>5
  <2> QED
    BY <1>7, <2>2, <2>4, <2>5 DEF after, Has, Left
<1> QED
  BY <1>6, <1>7

\* The contents of a list are those of the service's stored instances that match.
Lists(items) ==
    {Content(items[j]) : j \in 1..Len(items)} =
    {Content(i) : i \in {j \in StoredInstances : Belongs(j) /\ Matches(j, filter)}}

SyncInv ==
    /\ CatalogInv
    /\ over \in Transports /\ filter \in Filters /\ watching \in BOOLEAN
    /\ cache \in Seq(Instance) /\ \A j \in 1..Len(cache) : Item(cache[j]) /\ Known(cache[j])
    /\ asOf \in 0..rev /\ (over = "grpc" /\ asOf = rev => Lists(cache))
    /\ Fresh => next \in 0..(rev + 1)
    /\ answer # Nil =>
          /\ answer.items \in Seq(Instance)
          /\ \A j \in 1..Len(answer.items) : Item(answer.items[j]) /\ Known(answer.items[j])
          /\ answer.asOf \in 0..rev
          /\ over = "grpc" /\ answer.asOf = rev => Lists(answer.items)

LEMMA SyncStarts == Init => SyncInv
<1> SUFFICES ASSUME Init PROVE SyncInv
  OBVIOUS
<1>1. CatalogInv
  BY CatalogStarts DEF Init
<1>2. rev = 1
  BY DEF Init, CatalogInit, StoreInit
<1>3. cache = <<>> /\ answer = Nil /\ asOf = 0 /\ next = 0 /\ watching = FALSE
  BY DEF Init
<1>4. over \in Transports /\ filter \in Filters
  BY DEF Init
<1>5. cache \in Seq(Instance) /\ Len(cache) = 0
  BY <1>3
<1>6. \A j \in 1..Len(cache) : Item(cache[j]) /\ Known(cache[j])
  BY <1>5
<1>7. asOf \in 0..rev /\ asOf # rev /\ next \in 0..(rev + 1)
  BY <1>2, <1>3
<1> QED
  BY <1>1, <1>3, <1>4, <1>5, <1>6, <1>7 DEF SyncInv

LEMMA KnownKept ==
    ASSUME CatalogInv, Write, NEW i, Item(i), Known(i)
    PROVE  Known(i)' /\ rev' = rev + 1
<1> DEFINE k == KeyOf(i)
<1>1. k \in Keys /\ i.revision \in Nat /\ (Fresh => i.revision <= rev) /\ rev \in Nat
  BY Typed DEF Item, Known, CatalogInv, Stored
<1>2. k = KeyOf(i)'
  BY DEF KeyOf
<1> HIDE DEF k
<1>3. PICK c \in Keys : Erased(c) \/ \E j : Wrote(c, j)
  BY Writing
<1>4. rev' = rev + 1
  BY <1>3 DEF Erased, Wrote
<1>5. CASE k = c
  <2>1. kv'[k].mod \in {0, rev + 1}
    <3>1. CASE Erased(c)
      BY <1>1, <1>5, <3>1 DEF Erased, Missing, Record
    <3>2. CASE \E j : Wrote(c, j)
      BY <1>1, <1>5, <3>2 DEF Wrote, Record, CatalogInv, Stored
    <3> QED
      BY <1>3, <3>1, <3>2
  <2>2. Fresh => ~(kv'[k].mod = i.revision /\ i.revision > 0)
    BY <1>1, <2>1
  <2> QED
    BY <1>1, <1>2, <1>4, <2>2 DEF Known, k
<1>6. CASE k # c
  <2>1. kv'[k] = kv[k]
    BY <1>1, <1>3, <1>6 DEF Erased, Wrote, CatalogInv, Stored
  <2> QED
    BY <1>1, <1>2, <1>4, <2>1 DEF Known, k
<1> QED
  BY <1>5, <1>6

LEMMA MatchesOverWire ==
    ASSUME NEW i, NEW f \in Filters
    PROVE  Matches(i, FilterOverWire(f)) <=> Matches(i, f)
<1> DEFINE g == FilterOverWire(f)
           m == CloneStringMap(f.metadata)
<1>1. f \in [group : STRING, version : STRING, metadata : {f.metadata}, healthyOnly : {Nil} \cup BOOLEAN]
  BY ConsumerAssumption
<1>2. Entries(m) = Entries(f.metadata)
  BY DEF CloneStringMap, Entries
<1>3. g = [f EXCEPT !.metadata = m]
  BY DEF FilterOverWire
<1> HIDE DEF g, m
<1>4. g.group = f.group /\ g.version = f.version /\ g.healthyOnly = f.healthyOnly /\ g.metadata = m
  BY <1>1, <1>3
<1> QED
  BY <1>2, <1>4 DEF g, Matches, MatchesMetadata, HealthyOnly

\* What does not depend on a step that leaves the store alone.
LEMMA Unserved ==
    ASSUME CatalogInv, UNCHANGED <<catalogVars, over, filter>>
    PROVE  /\ CatalogInv' /\ rev' = rev
           /\ \A i : (Item(i)' <=> Item(i)) /\ (Known(i)' <=> Known(i))
           /\ \A s : Lists(s)' <=> Lists(s)
<1>1. kv' = kv /\ rev' = rev /\ log' = log /\ over' = over /\ filter' = filter
  BY DEF catalogVars, storeVars
<1>2. CatalogInv'
  <2>1. \A k \in Keys : (Present(k)' <=> Present(k)) /\ (RecordedAt(k)' <=> RecordedAt(k))
    BY <1>1 DEF Present, RecordedAt
  <2>2. Stored'
    BY <1>1, <2>1 DEF CatalogInv, Stored, Good
  <2>3. Logging'
    BY <1>1 DEF CatalogInv, Logging, Good
  <2>4. Recorded'
    BY <1>1, <2>1 DEF CatalogInv, Recorded
  <2> QED
    BY <2>2, <2>3, <2>4 DEF CatalogInv
<1>3. \A i : (Item(i)' <=> Item(i)) /\ (Known(i)' <=> Known(i))
  BY <1>1 DEF Item, Known
<1>4. \A s : Lists(s)' <=> Lists(s)
  BY <1>1 DEF Lists, StoredInstances, Present, Decoded
<1> QED
  BY <1>1, <1>2, <1>3, <1>4

LEMMA ServeKeeps == ASSUME SyncInv, Serve PROVE SyncInv'
<1>1. Write /\ UNCHANGED <<over, filter, watching, answer, next, cache, asOf>>
  BY DEF Serve, view
<1>2. CatalogInv'
  BY <1>1, CatalogKept DEF SyncInv
<1>3. rev' = rev + 1 /\ rev \in Nat
  BY <1>1, Writing DEF SyncInv, CatalogInv, Stored, Wrote, Erased
<1>4. ASSUME NEW i, Item(i), Known(i) PROVE Item(i)' /\ Known(i)'
  <2>1. Known(i)'
    BY <1>1, <1>4, KnownKept DEF SyncInv
  <2> QED
    BY <1>1, <1>4, <2>1 DEF Item
<1>5. \A j \in 1..Len(cache') : (Item(cache[j]) /\ Known(cache[j]))'
  BY <1>1, <1>4 DEF SyncInv
<1>6. asOf' \in 0..rev' /\ asOf' # rev' /\ (Fresh => next' \in 0..(rev' + 1))
  BY <1>1, <1>3 DEF SyncInv
<1>7. ASSUME answer' # Nil
      PROVE  /\ answer'.items \in Seq(Instance)
             /\ \A j \in 1..Len(answer'.items) : (Item(answer.items[j]) /\ Known(answer.items[j]))'
             /\ answer'.asOf \in 0..rev' /\ answer'.asOf # rev'
  BY <1>1, <1>3, <1>4, <1>7 DEF SyncInv
<1> QED
  BY <1>1, <1>2, <1>5, <1>6, <1>7 DEF SyncInv

LEMMA FetchKeeps == ASSUME SyncInv, Fetch PROVE SyncInv'
<1> DEFINE f == Request(filter)
           items == ItemsOverWire(Snapshot(Asked.namespace, Asked.service, f))
<1>1. /\ UNCHANGED <<catalogVars, over, filter, watching, next, cache, asOf>>
      /\ answer'.items = items /\ answer'.asOf = rev
  BY DEF Fetch
<1>2. over \in {"http", "grpc"} /\ CatalogInv /\ filter \in Filters /\ rev \in Nat
  BY ConsumerAssumption DEF SyncInv, CatalogInv, Stored
<1> HIDE DEF f
<1>3. /\ items \in Seq(Instance) /\ \A j \in 1..Len(items) : Item(items[j]) /\ Known(items[j])
      /\ \A j \in 1..Len(items) : \E k : /\ Listed(k, f) /\ KeyOf(items[j]) = k
                                         /\ Content(items[j]) = Content(Decoded(k))
      /\ \A k : Listed(k, f) => \E j \in 1..Len(items) : /\ KeyOf(items[j]) = k
                                                         /\ Content(items[j]) = Content(Decoded(k))
  BY <1>2, Receiving
<1> HIDE DEF items
<1>4. over = "grpc" => Lists(items)
  <2> SUFFICES ASSUME over = "grpc" PROVE Lists(items)
    OBVIOUS
  <2>1. \A i : Matches(i, f) <=> Matches(i, filter)
    BY <1>2, MatchesOverWire DEF f, Request
  <2>2. \A k : Listed(k, f) <=> k \in Keys /\ Present(k) /\ Belongs(Decoded(k)) /\ Matches(Decoded(k), filter)
    BY <2>1 DEF Listed
  <2>3. ASSUME NEW c
        PROVE  (\E j \in 1..Len(items) : Content(items[j]) = c)
               <=> \E i \in StoredInstances : Belongs(i) /\ Matches(i, filter) /\ Content(i) = c
    <3>1. (\E j \in 1..Len(items) : Content(items[j]) = c) <=> \E k : Listed(k, f) /\ Content(Decoded(k)) = c
      BY <1>3
    <3>2. (\E k : Listed(k, f) /\ Content(Decoded(k)) = c)
          <=> \E i \in StoredInstances : Belongs(i) /\ Matches(i, filter) /\ Content(i) = c
      BY <2>2 DEF StoredInstances
    <3> QED
      BY <3>1, <3>2
  <2> QED
    BY <2>3 DEF Lists
<1>5. /\ CatalogInv' /\ rev' = rev
      /\ \A i : (Item(i)' <=> Item(i)) /\ (Known(i)' <=> Known(i))
      /\ \A s : Lists(s)' <=> Lists(s)
  BY <1>1, <1>2, Unserved
<1>6. \A j \in 1..Len(cache') : (Item(cache[j]) /\ Known(cache[j]))'
  BY <1>1, <1>5 DEF SyncInv
<1>7. \A j \in 1..Len(answer'.items) : (Item(answer.items[j]) /\ Known(answer.items[j]))'
  BY <1>1, <1>3, <1>5
<1>8. (over = "grpc" /\ asOf = rev => Lists(cache))'
  BY <1>1, <1>5 DEF SyncInv
<1>9. (over = "grpc" /\ answer.asOf = rev => Lists(answer.items))'
  BY <1>1, <1>4, <1>5
<1> QED
  BY <1>1, <1>2, <1>3, <1>5, <1>6, <1>7, <1>8, <1>9 DEF SyncInv

LEMMA FetchErrorKeeps == ASSUME SyncInv, FetchError PROVE SyncInv'
<1>1. /\ UNCHANGED <<catalogVars, over, filter, watching, next, cache, asOf>>
      /\ answer' = IF over = "http" THEN [items |-> <<>>, asOf |-> 0] ELSE Nil
  BY DEF FetchError
<1>2. CatalogInv /\ rev \in Nat \ {0}
  BY DEF SyncInv, CatalogInv, Stored
<1>3. /\ CatalogInv' /\ rev' = rev
      /\ \A i : (Item(i)' <=> Item(i)) /\ (Known(i)' <=> Known(i))
      /\ \A s : Lists(s)' <=> Lists(s)
  BY <1>1, <1>2, Unserved
<1>4. \A j \in 1..Len(cache') : (Item(cache[j]) /\ Known(cache[j]))'
  BY <1>1, <1>3 DEF SyncInv
<1>5. (over = "grpc" /\ asOf = rev => Lists(cache))'
  BY <1>1, <1>3 DEF SyncInv
<1>6. ASSUME answer' # Nil
      PROVE  /\ answer'.items \in Seq(Instance) /\ Len(answer'.items) = 0
             /\ answer'.asOf \in 0..rev' /\ answer'.asOf # rev'
  <2>1. answer'.items = <<>> /\ answer'.asOf = 0
    BY <1>1, <1>6
  <2> QED
    BY <1>2, <1>3, <2>1
<1>7. ASSUME answer' # Nil
      PROVE  \A j \in 1..Len(answer'.items) : (Item(answer.items[j]) /\ Known(answer.items[j]))'
  BY <1>6, <1>7
<1> QED
  BY <1>1, <1>3, <1>4, <1>5, <1>6, <1>7 DEF SyncInv

LEMMA SyncKeeps == ASSUME SyncInv, Sync PROVE SyncInv'
<1>1. /\ UNCHANGED <<catalogVars, over, filter, watching, next>>
      /\ answer # Nil /\ cache' = answer.items /\ asOf' = answer.asOf /\ answer' = Nil
  BY DEF Sync, Cached
<1>2. /\ CatalogInv' /\ rev' = rev
      /\ \A i : (Item(i)' <=> Item(i)) /\ (Known(i)' <=> Known(i))
      /\ \A s : Lists(s)' <=> Lists(s)
  BY <1>1, Unserved DEF SyncInv
<1>3. \A j \in 1..Len(cache') : (Item(cache[j]) /\ Known(cache[j]))'
  BY <1>1, <1>2 DEF SyncInv
<1>4. (over = "grpc" /\ asOf = rev => Lists(cache))'
  BY <1>1, <1>2 DEF SyncInv
<1> QED
  BY <1>1, <1>2, <1>3, <1>4 DEF SyncInv

\* A step that changes neither store nor cache nor answer.
LEMMA CacheKeeps ==
    ASSUME SyncInv, UNCHANGED <<catalogVars, over, filter, answer, cache, asOf>>,
           watching' \in BOOLEAN, Fresh => next' \in 0..(rev + 1)
    PROVE  SyncInv'
<1>1. /\ CatalogInv' /\ rev' = rev
      /\ \A i : (Item(i)' <=> Item(i)) /\ (Known(i)' <=> Known(i))
      /\ \A s : Lists(s)' <=> Lists(s)
  BY Unserved DEF SyncInv
<1>2. \A j \in 1..Len(cache') : (Item(cache[j]) /\ Known(cache[j]))'
  BY <1>1 DEF SyncInv
<1>3. (over = "grpc" /\ asOf = rev => Lists(cache))'
  BY <1>1 DEF SyncInv
<1>4. ASSUME answer' # Nil
      PROVE  /\ answer'.items \in Seq(Instance)
             /\ \A j \in 1..Len(answer'.items) : (Item(answer.items[j]) /\ Known(answer.items[j]))'
             /\ answer'.asOf \in 0..rev'
             /\ (over = "grpc" /\ answer.asOf = rev => Lists(answer.items))'
  BY <1>1, <1>4 DEF SyncInv
<1> QED
  BY <1>1, <1>2, <1>3, <1>4 DEF SyncInv

LEMMA OpenWatchKeeps == ASSUME SyncInv, OpenWatch PROVE SyncInv'
<1>1. ASSUME Fresh PROVE next' \in 0..(rev + 1)
  <2>1. rev \in Nat /\ cache \in Seq(Instance) /\ \A j \in 1..Len(cache) : cache[j].revision <= rev
    BY <1>1 DEF SyncInv, CatalogInv, Stored, Known
  <2>2. Newest(cache) \in 0..rev
    BY <2>1, NewestIn
  <2> QED
    BY <2>1, <2>2 DEF OpenWatch
<1> QED
  BY <1>1, CacheKeeps DEF OpenWatch

\* What of the history is to come concerns this service, and is what the
\* registry may store.
LEMMA Event ==
    ASSUME CatalogInv, NEW n \in Coming, over \in {"http", "grpc"}
    PROVE  /\ n \in 1..(rev - 1) /\ rev \in Nat /\ next <= n + 1
           /\ Good(log[n].value) /\ Belongs(log[n].value)
           /\ KeyOf(log[n].value) = log[n].key /\ log[n].key \in Keys
           /\ Item(log[n].value) /\ Known(log[n].value)
           /\ Fresh => log[n].value.revision <= n
<1> DEFINE i == log[n].value
           k == log[n].key
<1>1. rev \in Nat /\ DOMAIN log = 1..(rev - 1)
  BY DEF CatalogInv, Logging, Stored
<1>2. n \in 1..(rev - 1) /\ next <= n + 1 /\ Covers(Prefix(Asked.namespace, Asked.service), k)
  BY <1>1 DEF Coming, Revision
<1>3. Good(i) /\ KeyOf(i) = k /\ (Fresh => i.revision <= n) /\ k \in Keys
  BY <1>2 DEF CatalogInv, Logging, Good
<1>4. Belongs(i)
  BY <1>2, <1>3, ServiceCovers DEF Good
<1>5. i.revision \in Nat
  BY <1>3, Typed DEF Good
<1> HIDE DEF i, k
<1>6. Item(i)
  BY <1>3, <1>4 DEF Item, Good
<1>7. Fresh => ~(kv[k].mod = i.revision /\ i.revision > 0)
  <2> SUFFICES ASSUME Fresh, kv[k].mod = i.revision, i.revision > 0 PROVE FALSE
    OBVIOUS
  <2>1. RecordedAt(k)
    BY <1>3, <1>5 DEF Present, CatalogInv, Recorded
  <2>2. n \in ((kv[k].mod - 1) + 1)..(rev - 1)
    BY <1>1, <1>2, <1>3, <1>5
  <2> QED
    BY <2>1, <2>2 DEF RecordedAt, k
<1>8. Known(i)
  BY <1>1, <1>2, <1>3, <1>5, <1>7 DEF Known
<1> QED
  BY <1>1, <1>2, <1>3, <1>4, <1>6, <1>8 DEF i, k

LEMMA ApplyEventKeeps == ASSUME SyncInv, ApplyEvent PROVE SyncInv'
<1>1. PICK n \in Coming : /\ \A m \in Coming : n <= m
                          /\ cache' = Applied(cache, log[n]) /\ next' = Revision(n) + 1
  BY DEF ApplyEvent, Cached
<1>2. UNCHANGED <<catalogVars, over, filter, watching, answer>> /\ asOf' = 0
  BY DEF ApplyEvent
<1>3. CatalogInv /\ over \in {"http", "grpc"} /\ rev \in Nat \ {0} /\ cache \in Seq(Instance)
  BY ConsumerAssumption DEF SyncInv, CatalogInv, Stored
<1>4. /\ CatalogInv' /\ rev' = rev
      /\ \A i : (Item(i)' <=> Item(i)) /\ (Known(i)' <=> Known(i))
      /\ \A s : Lists(s)' <=> Lists(s)
  BY <1>2, <1>3, Unserved
<1> DEFINE event == log[n]
<1>5. n \in 1..(rev - 1) /\ Item(event.value) /\ Known(event.value) /\ event.value \in Instance
  BY <1>3, Event DEF Item
<1> HIDE DEF event
<1>6. cache' \in Seq(Instance) /\ \A x : Has(cache', x) <=> Left(cache, event, x)
  <2>1. cache' = Applied(cache, event)
    BY <1>1 DEF event
  <2>2. event.value \in Instance /\ cache \in Seq(Instance)
    BY <1>3, <1>5
  <2> QED
    BY <2>1, <2>2, Applying
<1>7. \A j \in 1..Len(cache') : Item(cache'[j]) /\ Known(cache'[j])
  <2> SUFFICES ASSUME NEW j \in 1..Len(cache') PROVE Item(cache'[j]) /\ Known(cache'[j])
    OBVIOUS
  <2>1. Left(cache, event, cache'[j])
    BY <1>6 DEF Has
  <2> QED
    BY <1>5, <2>1 DEF SyncInv, Left, Has
<1>8. \A j \in 1..Len(cache') : (Item(cache[j]) /\ Known(cache[j]))'
  BY <1>4, <1>7
<1>9. next' \in 0..(rev' + 1) /\ asOf' \in 0..rev' /\ asOf' # rev'
  BY <1>1, <1>2, <1>3, <1>4, <1>5 DEF Revision
<1>10. ASSUME answer' # Nil
      PROVE  /\ answer'.items \in Seq(Instance)
             /\ \A j \in 1..Len(answer'.items) : (Item(answer.items[j]) /\ Known(answer.items[j]))'
             /\ answer'.asOf \in 0..rev'
             /\ (over = "grpc" /\ answer.asOf = rev => Lists(answer.items))'
  BY <1>2, <1>4, <1>10 DEF SyncInv
<1> QED
  BY <1>2, <1>4, <1>6, <1>8, <1>9, <1>10 DEF SyncInv

LEMMA SyncInvKept == ASSUME SyncInv, [Next]_vars PROVE SyncInv'
<1>1. CASE Serve
  BY <1>1, ServeKeeps
<1>2. CASE Fetch
  BY <1>2, FetchKeeps
<1>3. CASE FetchError
  BY <1>3, FetchErrorKeeps
<1>4. CASE Sync
  BY <1>4, SyncKeeps
<1>5. CASE OpenWatch
  BY <1>5, OpenWatchKeeps
<1>6. CASE ApplyEvent
  BY <1>6, ApplyEventKeeps
<1>7. CASE WatchReturns
  <2>1. rev \in Nat
    BY DEF SyncInv, CatalogInv, Stored
  <2>2. watching' = FALSE /\ next' = 0
    BY <1>7 DEF WatchReturns
  <2>3. FALSE \in BOOLEAN /\ 0 \in 0..(rev + 1)
    BY <2>1
  <2>4. watching' \in BOOLEAN /\ next' \in 0..(rev + 1)
    BY <2>2, <2>3
  <2> QED
    BY <1>7, <2>4, CacheKeeps DEF WatchReturns
<1>8. CASE \E p \in Pickers : CopyCache(p) \/ TakeTurn(p)
  <2>1. UNCHANGED <<catalogVars, view, cache, asOf>>
    BY <1>8 DEF CopyCache, TakeTurn
  <2>2. watching' \in BOOLEAN /\ (Fresh => next' \in 0..(rev + 1))
    BY <2>1 DEF SyncInv, view
  <2> QED
    BY <2>1, <2>2, CacheKeeps DEF view
<1>9. CASE UNCHANGED vars
  <2>1. watching' \in BOOLEAN /\ (Fresh => next' \in 0..(rev + 1))
    BY <1>9 DEF SyncInv, vars, view
  <2> QED
    BY <1>9, <2>1, CacheKeeps DEF vars, view
<1> QED
  BY <1>1, <1>2, <1>3, <1>4, <1>5, <1>6, <1>7, <1>8, <1>9 DEF Next

LEMMA SyncInvariant == Spec => []SyncInv
<1>1. Init => SyncInv
  BY SyncStarts
<1>2. SyncInv /\ [Next]_vars => SyncInv'
  BY SyncInvKept
<1> QED
  BY <1>1, <1>2, PTL DEF Spec

\* Over gRPC a Sync leaves in the cache what the filter asks for of what is
\* stored of the service (ConsumerClient.Sync), and whatever events came in
\* between, a cached instance with the revision of the stored one is the
\* stored one: an update with that expectedRevision overwrites nothing unseen.
THEOREM SyncsAsAsked == ASSUME Fresh PROVE Spec => []SyncedAsAsked
<1>1. ASSUME Fresh, SyncInv PROVE SyncedAsAsked
  <2>1. Instances = {cache[j] : j \in 1..Len(cache)}
    BY <1>1 DEF SyncInv, Instances
  <2>2. over = "grpc" => FilterApplied
    <3>1. {Content(i) : i \in Instances} = {Content(cache[j]) : j \in 1..Len(cache)}
      BY <2>1
    <3> QED
      BY <1>1, <3>1 DEF SyncInv, FilterApplied, Lists
  <2>3. ASSUME NEW i \in Instances, kv[KeyOf(i)].mod = i.revision, i.revision > 0
        PROVE  Content(i) = Content(Decoded(KeyOf(i)))
    <3>1. Item(i) /\ Known(i)
      BY <1>1, <2>1 DEF SyncInv
    <3>2. KeyOf(i) \in Keys /\ Present(KeyOf(i))
      BY <2>3, <3>1 DEF Item, Present
    <3>3. Content(Decoded(KeyOf(i))) = Content(kv[KeyOf(i)].value)
      BY <1>1, <3>2, DecodedGood DEF SyncInv
    <3> QED
      BY <2>3, <3>1, <3>3 DEF Known
  <2> QED
    BY <2>2, <2>3 DEF SyncedAsAsked, RevisionIsTrue
<1> QED
  BY <1>1, SyncInvariant, PTL

-----------------------------------------------------------------------------
(* What a register request asks for.                                       *)

LEMMA NormalizedAsAsked ==
    ASSUME NEW i \in Instance
    PROVE  AsAsked(i, Normalize(i))
<1> DEFINE j == Normalize(i)
           mode == Or(i.mode, "heartbeat")
<1>1. j = [i EXCEPT !.group = Or(@, "default"), !.weight = IF @ = 0 THEN 100 ELSE @,
                    !.mode = mode, !.metadata = CopyStringMap(@), !.status = Or(@, "health"),
                    !.probe = NormalizedProbe(i, mode)]
  BY DEF Normalize
<1> HIDE DEF j, mode
<1>2. /\ j.port = i.port /\ j.weight = IF i.weight = 0 THEN 100 ELSE i.weight
      /\ j.metadata = CopyStringMap(i.metadata) /\ j.probe = NormalizedProbe(i, mode)
  BY <1>1 DEF Instance
<1>3. j.probe.port = IF i.probe.port = 0 THEN i.port ELSE i.probe.port
  BY <1>2 DEF NormalizedProbe
<1>4. Entries(CopyStringMap(i.metadata)) = Entries(i.metadata)
  <2>1. Entries(NoEntries) = {}
    BY DEF Entries, NoEntries
  <2> QED
    BY <2>1 DEF CopyStringMap, Entries
<1> QED
  BY <1>2, <1>3, <1>4 DEF AsAsked, j

LEMMA RegisteredAsAsked ==
    ASSUME CatalogInv, NEW raw \in Registrations, NEW via \in {"http", "grpc"}, Register(raw, via),
           via = "http" \/ (Fits(raw.weight) /\ Fits(raw.port) /\ Fits(raw.probe.port))
    PROVE  AsAsked(raw, kv'[KeyOf(raw)].value)
<1> DEFINE sent == IF via = "grpc" THEN InstanceOverWire(raw) ELSE raw
<1>1. PICK i : Wrote(KeyOf(raw), i) /\ i = Normalize(sent)
  BY Registering
<1>2. kv'[KeyOf(raw)].value = i
  BY <1>1 DEF Wrote, Record, CatalogInv, Stored
<1>3. raw \in Instance
  BY CatalogAssumption
<1>4. /\ sent \in Instance /\ sent.weight = raw.weight /\ sent.port = raw.port
      /\ sent.probe.port = raw.probe.port /\ Entries(sent.metadata) = Entries(raw.metadata)
  <2>1. CASE via # "grpc"
    BY <1>3, <2>1
  <2>2. CASE via = "grpc"
    <3>1. raw.weight \in Int /\ raw.port \in Int /\ raw.probe.port \in Int /\ raw.probe \in Probe
      BY <1>3 DEF Instance, Probe
    <3>2. /\ Int32(raw.weight) = raw.weight /\ Int32(raw.port) = raw.port
          /\ Int32(raw.probe.port) = raw.probe.port
      BY <2>2, <3>1, Int32Fits
    <3>3. Entries(CloneStringMap(raw.metadata)) = Entries(raw.metadata)
      BY <1>3, Cloned, Typed
    <3>4. InstanceOverWire(raw) \in Instance
      BY <1>3, OverWireTyped
    <3>5. /\ InstanceOverWire(raw).weight = raw.weight /\ InstanceOverWire(raw).port = raw.port
          /\ InstanceOverWire(raw).probe.port = raw.probe.port
          /\ InstanceOverWire(raw).metadata = CloneStringMap(raw.metadata)
      BY <1>3, <3>1, <3>2 DEF InstanceOverWire, ProbeConfigOverWire, Instance, Probe
    <3> QED
      BY <2>2, <3>3, <3>4, <3>5
  <2> QED
    BY <2>1, <2>2
<1> HIDE DEF sent
<1>5. AsAsked(sent, i)
  BY <1>1, <1>4, NormalizedAsAsked
<1> QED
  BY <1>2, <1>4, <1>5 DEF AsAsked

\* Whatever is stored passes Validate, however it came about, and it is what
\* the register request asked for but for the defaults, over HTTP and, for
\* numbers within the wire's width, over gRPC (registry.Register, registry.Update).
THEOREM StoresAsAsked == Spec => StoredAsAsked
<1>1. ASSUME SyncInv PROVE \A k \in Keys : Present(k) => ValidInstance(kv[k].value)
  BY <1>1 DEF SyncInv, CatalogInv, Stored, Good
<1>2. ASSUME SyncInv, Next
      PROVE  \A raw \in Registrations, via \in {"http", "grpc"} :
                /\ via = "http" \/ (Fits(raw.weight) /\ Fits(raw.port) /\ Fits(raw.probe.port))
                /\ Register(raw, via)
                => AsAsked(raw, kv'[KeyOf(raw)].value)
  BY <1>2, RegisteredAsAsked DEF SyncInv
<1>3. ASSUME SyncInv, [Next]_vars
      PROVE  [\A raw \in Registrations, via \in {"http", "grpc"} :
                /\ via = "http" \/ (Fits(raw.weight) /\ Fits(raw.port) /\ Fits(raw.probe.port))
                /\ Register(raw, via)
                => AsAsked(raw, kv'[KeyOf(raw)].value)]_kv
  BY <1>2, <1>3 DEF vars, catalogVars, storeVars
<1> QED
  BY <1>1, <1>3, SyncInvariant, PTL DEF Spec, StoredAsAsked, AcceptedAsAsked

-----------------------------------------------------------------------------
(* The turns of round robin.                                               *)

\* The places, from 0, that the turns have come to since place s and are at c.
Visited(s, c, j) == IF s <= c THEN s <= j /\ j < c ELSE s <= j \/ j < c

Level(b, s, c, j) == IF Visited(s, c, j) THEN b + 1 ELSE b

\* A turn at a place raises the level of that place alone.
Turned(m, from, at, base, to) ==
    \E up \in Nat : \A j \in 0..(m - 1) :
       Level(up, from, to, j) =
          IF j = at THEN Level(base, from, at, j) + 1 ELSE Level(base, from, at, j)

LEMMA Turning ==
    ASSUME NEW m \in Nat \ {0}, NEW from \in 0..(m - 1), NEW at \in 0..(m - 1), NEW base \in Nat,
           NEW to \in 0..(m - 1), to = IF at = m - 1 THEN 0 ELSE at + 1
    PROVE  Turned(m, from, at, base, to)
<1> DEFINE up == IF to = from THEN base + 1 ELSE base
<1>1. ASSUME NEW j \in 0..(m - 1)
      PROVE  Level(up, from, to, j) =
                IF j = at THEN Level(base, from, at, j) + 1 ELSE Level(base, from, at, j)
  <2>1. CASE to = from
    BY <2>1 DEF Level, Visited
  <2>2. CASE to # from
    BY <2>2 DEF Level, Visited
  <2> QED
    BY <2>1, <2>2
<1>2. up \in Nat
  OBVIOUS
<1> QED
  BY <1>1, <1>2 DEF Turned

\* Between the turns that each place is owed and those it got there are at
\* most as many as were taken with older copies.
Owed(b, s, i) ==
    LET owed == Level(b, s, turn % Len(cache), i - 1) IN
    picks[i] <= owed /\ owed <= picks[i] + late

Even ==
    Len(cache) > 0 =>
        \E b \in Nat, s \in 0..(Len(cache) - 1) : \A i \in 1..Len(cache) : Owed(b, s, i)

Holding == {p \in Pickers : held[p] # <<>>}

PickInv ==
    /\ turn \in Nat /\ late \in Nat
    /\ held = [p \in Pickers |-> held[p]]
    /\ turn + Cardinality(Holding) <= MaxTurns + Cardinality(Pickers)
    /\ picks \in Seq(Nat) /\ Len(picks) = Len(cache)
    /\ Even

\* The places are counted anew.
LEMMA Recounting ==
    ASSUME PickInv, cache \in Seq(Instance), NEW items \in Seq(Instance), Cached(items), UNCHANGED <<turn, held>>
    PROVE  PickInv'
<1>1. cache' = items /\ picks' = [j \in 1..Len(items) |-> 0] /\ late' = 0 /\ Len(items) \in Nat
  BY DEF Cached
<1>2. picks' \in Seq(Nat) /\ Len(picks') = Len(cache') /\ \A i \in 1..Len(cache') : picks'[i] = 0
  BY <1>1
<1>3. Even'
  <2> SUFFICES ASSUME Len(cache') > 0
               PROVE  \E b \in Nat, s \in 0..(Len(cache') - 1) : \A i \in 1..Len(cache') : Owed(b, s, i)'
    BY DEF Even
  <2>1. PICK s \in 0..(Len(cache') - 1) : s = turn' % Len(cache')
    <3>1. Len(cache') \in Nat \ {0} /\ turn' \in Nat
      BY <1>1 DEF PickInv
    <3> QED
      BY <3>1, Divided
  <2>2. ASSUME NEW i \in 1..Len(cache') PROVE Owed(0, s, i)'
    <3>1. Level(0, s, s, i - 1) = 0
      BY <1>1, <2>1 DEF Level, Visited
    <3>2. picks'[i] = 0 /\ late' = 0
      BY <1>1, <1>2
    <3>3. (turn % Len(cache))' = s
      BY <2>1
    <3>4. Level(0, s, (turn % Len(cache))', i - 1) = 0
      BY <3>1, <3>3
    <3> QED
      BY <3>2, <3>4 DEF Owed
  <2> QED
    BY <2>1, <2>2
<1>4. Holding' = Holding
  BY DEF Holding
<1> QED
  BY <1>1, <1>2, <1>3, <1>4 DEF PickInv

LEMMA CopyCacheKeeps ==
    ASSUME PickInv, NEW p \in Pickers, CopyCache(p)
    PROVE  PickInv'
<1>1. /\ held' = [held EXCEPT ![p] = cache] /\ cache # <<>> /\ turn < MaxTurns
      /\ UNCHANGED <<cache, turn, late, picks>>
  BY DEF CopyCache
<1>2. held' = [q \in Pickers |-> held'[q]]
  BY <1>1 DEF PickInv
<1>3. Cardinality(Holding') <= Cardinality(Pickers) /\ Cardinality(Holding') \in Nat /\ Cardinality(Pickers) \in Nat
  <2>1. Holding' \subseteq Pickers
    BY DEF Holding
  <2> QED
    BY <2>1, ConsumerAssumption, FS_Subset, FS_CardinalityType
<1>4. turn' + Cardinality(Holding') <= MaxTurns + Cardinality(Pickers)
  BY <1>1, <1>3, ConsumerAssumption DEF PickInv
<1>5. Even'
  BY <1>1 DEF PickInv, Even, Owed
<1> QED
  BY <1>1, <1>2, <1>4, <1>5 DEF PickInv

LEMMA TakeTurnKeeps ==
    ASSUME PickInv, cache \in Seq(Instance), NEW p \in Pickers, TakeTurn(p)
    PROVE  PickInv'
<1> DEFINE n == Len(cache)
           c == turn % n
<1>1. /\ turn' = turn + 1 /\ held' = [held EXCEPT ![p] = <<>>] /\ held[p] # <<>> /\ cache' = cache
      /\ turn \in Nat /\ late \in Nat /\ picks \in Seq(Nat) /\ Len(picks) = n /\ n \in Nat
  BY DEF TakeTurn, Advance, PickInv
<1>2. held' = [q \in Pickers |-> held'[q]] /\ held'[p] = <<>> /\ \A q \in Pickers \ {p} : held'[q] = held[q]
  BY <1>1 DEF PickInv
<1>3. turn' + Cardinality(Holding') <= MaxTurns + Cardinality(Pickers)
  <2>1. Holding' = Holding \ {p} /\ p \in Holding
    BY <1>1, <1>2 DEF Holding
  <2>2. IsFiniteSet(Holding)
    BY ConsumerAssumption, FS_Subset DEF Holding
  <2>3. Cardinality(Holding') = Cardinality(Holding) - 1 /\ Cardinality(Holding) \in Nat
    BY <2>1, <2>2, FS_RemoveElement, FS_CardinalityType
  <2>4. Cardinality(Pickers) \in Nat /\ MaxTurns \in Nat
    BY ConsumerAssumption, FS_CardinalityType
  <2> QED
    BY <1>1, <2>3, <2>4 DEF PickInv
<1>4. CASE held[p] = cache
  <2>1. n \in Nat \ {0} /\ cache # <<>>
    BY <1>1, <1>4
  <2>2. c \in 0..(n - 1)
    BY <1>1, <2>1, Divided
  <2>3. picks' = [picks EXCEPT ![c + 1] = @ + 1] /\ late' = late
    BY <1>4 DEF TakeTurn
  <2> DEFINE d == (turn + 1) % n
  <2>4. d = IF c = n - 1 THEN 0 ELSE c + 1
    BY <1>1, <2>1, NextPlace
  <2>5. PICK b \in Nat, s \in 0..(n - 1) : \A i \in 1..n : Owed(b, s, i)
    BY <1>1, <2>1 DEF PickInv, Even
  <2>6. \A i \in 1..n : picks[i] <= Level(b, s, c, i - 1) /\ Level(b, s, c, i - 1) <= picks[i] + late
    BY <2>5 DEF Owed
  <2> HIDE DEF n, c, d
  <2>12. d \in 0..(n - 1)
    BY <2>1, <2>2, <2>4
  <2>13. Turned(n, s, c, b, d)
    BY <2>1, <2>2, <2>4, <2>12, Turning
  <2>7. PICK a \in Nat : \A j \in 0..(n - 1) :
           Level(a, s, d, j) = IF j = c THEN Level(b, s, c, j) + 1 ELSE Level(b, s, c, j)
    BY <2>13 DEF Turned
  <2>8. picks' \in Seq(Nat) /\ Len(picks') = n /\ \A i \in 1..n : picks'[i] = IF i = c + 1 THEN picks[i] + 1 ELSE picks[i]
    BY <1>1, <2>2, <2>3
  <2>9. ASSUME NEW i \in 1..n PROVE picks'[i] <= Level(a, s, d, i - 1) /\ Level(a, s, d, i - 1) <= picks'[i] + late'
    <3>1. i - 1 \in 0..(n - 1) /\ (i - 1 = c <=> i = c + 1)
      BY <2>1, <2>2
    <3>2. Level(b, s, c, i - 1) \in Nat /\ picks[i] \in Nat
      BY <1>1 DEF Level
    <3>3. Level(a, s, d, i - 1) =
             IF i = c + 1 THEN Level(b, s, c, i - 1) + 1 ELSE Level(b, s, c, i - 1)
      BY <2>7, <3>1
    <3>4. picks[i] <= Level(b, s, c, i - 1) /\ Level(b, s, c, i - 1) <= picks[i] + late
      BY <2>6
    <3>5. picks'[i] = IF i = c + 1 THEN picks[i] + 1 ELSE picks[i]
      BY <2>8
    <3>6. late' = late /\ late \in Nat
      BY <1>1, <2>3
    <3> QED
      BY ONLY <3>2, <3>3, <3>4, <3>5, <3>6
  <2>10. (turn % Len(cache))' = d
    BY <1>1 DEF d, n
  <2>11. Even'
    <3>1. \A i \in 1..n : Owed(a, s, i)'
      BY <2>9, <2>10 DEF Owed, n, c
    <3> QED
      BY <1>1, <3>1 DEF Even, n
  <2> QED
    BY <1>1, <1>2, <1>3, <2>3, <2>8, <2>11 DEF PickInv, n
<1>5. CASE held[p] # cache
  <2>1. picks' = picks /\ late' = late + 1
    BY <1>5 DEF TakeTurn
  <2>2. Even'
    <3> SUFFICES ASSUME n > 0
                 PROVE  \E b \in Nat, s \in 0..(n - 1) : \A i \in 1..n : Owed(b, s, i)'
      BY <1>1 DEF Even
    <3>1. n \in Nat \ {0}
      BY <1>1
    <3>2. c \in 0..(n - 1)
      BY <1>1, <3>1, Divided
    <3> DEFINE d == (turn + 1) % n
    <3>3. d = IF c = n - 1 THEN 0 ELSE c + 1
      BY <1>1, <3>1, NextPlace
    <3>4. PICK b \in Nat, s \in 0..(n - 1) : \A i \in 1..n : Owed(b, s, i)
      BY <1>1 DEF PickInv, Even
    <3>5. \A i \in 1..n : picks[i] <= Level(b, s, c, i - 1) /\ Level(b, s, c, i - 1) <= picks[i] + late
      BY <3>4 DEF Owed
    <3> HIDE DEF n, c, d
    <3>10. d \in 0..(n - 1)
      BY <3>1, <3>2, <3>3
    <3>11. Turned(n, s, c, b, d)
      BY <3>1, <3>2, <3>3, <3>10, Turning
    <3>6. PICK a \in Nat : \A j \in 0..(n - 1) :
             Level(a, s, d, j) = IF j = c THEN Level(b, s, c, j) + 1 ELSE Level(b, s, c, j)
      BY <3>11 DEF Turned
    <3>7. ASSUME NEW i \in 1..n PROVE picks'[i] <= Level(a, s, d, i - 1) /\ Level(a, s, d, i - 1) <= picks'[i] + late'
      <4>1. i - 1 \in 0..(n - 1)
        BY <3>1
      <4>2. Level(b, s, c, i - 1) \in Nat /\ picks[i] \in Nat
        BY <1>1 DEF Level
      <4>3. Level(a, s, d, i - 1) \in {Level(b, s, c, i - 1), Level(b, s, c, i - 1) + 1}
        BY <3>6, <4>1
      <4>4. picks[i] <= Level(b, s, c, i - 1) /\ Level(b, s, c, i - 1) <= picks[i] + late
        BY <3>5
      <4> QED
        BY <1>1, <2>1, <4>2, <4>3, <4>4
    <3>8. (turn % Len(cache))' = d
      BY <1>1 DEF d, n
    <3>9. \A i \in 1..n : Owed(a, s, i)'
      BY <3>7, <3>8 DEF Owed, n, c
    <3> QED
      BY <3>9
  <2> QED
    BY <1>1, <1>2, <1>3, <2>1, <2>2 DEF PickInv
<1> QED
  BY <1>4, <1>5

LEMMA PickInvKept == ASSUME SyncInv, PickInv, [Next]_vars PROVE PickInv'
<1> DEFINE Rest == UNCHANGED <<cache, picks, turn, held, late>>
<1>1. ASSUME Rest PROVE PickInv'
  <2>1. Even' /\ Holding' = Holding
    BY <1>1 DEF PickInv, Even, Owed, Holding
  <2> QED
    BY <1>1, <2>1 DEF PickInv
<1>2. CASE Serve \/ Fetch \/ FetchError \/ OpenWatch \/ WatchReturns
  BY <1>1, <1>2 DEF Serve, Fetch, FetchError, OpenWatch, WatchReturns, picker
<1>3. CASE Sync
  <2>1. Cached(answer.items) /\ UNCHANGED <<turn, held>> /\ answer.items \in Seq(Instance)
    BY <1>3 DEF Sync, SyncInv
  <2> QED
    BY <2>1, Recounting DEF SyncInv
<1>4. CASE ApplyEvent
  <2>1. PICK n \in Coming : Cached(Applied(cache, log[n]))
    BY <1>4 DEF ApplyEvent
  <2>2. CatalogInv /\ over \in {"http", "grpc"} /\ cache \in Seq(Instance)
    BY ConsumerAssumption DEF SyncInv
  <2>3. log[n].value \in Instance
    BY <2>2, Event DEF Item
  <2>4. Applied(cache, log[n]) \in Seq(Instance)
    BY <2>2, <2>3, Applying
  <2>5. UNCHANGED <<turn, held>>
    BY <1>4 DEF ApplyEvent
  <2> QED
    BY <2>1, <2>2, <2>4, <2>5, Recounting
<1>5. CASE \E p \in Pickers : CopyCache(p) \/ TakeTurn(p)
  BY <1>5, CopyCacheKeeps, TakeTurnKeeps DEF SyncInv
<1>6. CASE UNCHANGED vars
  BY <1>1, <1>6 DEF vars, picker
<1> HIDE DEF Rest
<1> QED
  BY <1>2, <1>3, <1>4, <1>5, <1>6 DEF Next

LEMMA PickStarts == Init => PickInv
<1> SUFFICES ASSUME Init PROVE PickInv
  OBVIOUS
<1>1. turn = 0 /\ late = 0 /\ held = [p \in Pickers |-> <<>>] /\ cache = <<>> /\ picks = <<>>
  BY DEF Init
<1>2. Holding = {}
  BY <1>1 DEF Holding
<1>3. Cardinality(Holding) = 0 /\ Cardinality(Pickers) \in Nat /\ MaxTurns \in Nat
  BY <1>2, ConsumerAssumption, FS_EmptySet, FS_CardinalityType
<1>4. Even
  BY <1>1 DEF Even
<1>5. held = [p \in Pickers |-> held[p]]
  BY <1>1
<1>6. turn + Cardinality(Holding) <= MaxTurns + Cardinality(Pickers)
  BY <1>1, <1>3
<1>7. picks \in Seq(Nat) /\ Len(picks) = Len(cache)
  BY <1>1
<1> QED
  BY <1>1, <1>4, <1>5, <1>6, <1>7 DEF PickInv

ConsumerInv == SyncInv /\ PickInv

LEMMA ConsumerInvariant == Spec => []ConsumerInv
<1>1. Init => ConsumerInv
  BY SyncStarts, PickStarts DEF ConsumerInv
<1>2. ConsumerInv /\ [Next]_vars => ConsumerInv'
  BY SyncInvKept, PickInvKept DEF ConsumerInv
<1> QED
  BY <1>1, <1>2, PTL DEF Spec

\* The consumer's state is as declared; what is stored has its maps, what comes
\* over HTTP has them too, and a round of picks takes no turn too many
\* (model.Normalize, ConsumerClient.Pick).
THEOREM TypeCorrect == ASSUME Fresh PROVE Spec => []ConsumerTypeOK
<1>1. ASSUME Fresh, ConsumerInv PROVE ConsumerTypeOK
  <2>1. Instances = {cache[j] : j \in 1..Len(cache)}
    BY <1>1 DEF ConsumerInv, SyncInv, Instances
  <2>2. \A k \in Keys : Present(k) => kv[k].value.metadata # Nil
    BY <1>1 DEF ConsumerInv, SyncInv, CatalogInv, Stored, Good
  <2>3. over = "http" => \A i \in Instances : i.metadata # Nil
    BY <1>1, <2>1 DEF ConsumerInv, SyncInv, Item
  <2>4. turn \in 0..(MaxTurns + Cardinality(Pickers))
    <3>1. Cardinality(Holding) \in Nat
      <4>1. IsFiniteSet(Holding)
        BY ConsumerAssumption, FS_Subset DEF Holding
      <4> QED
        BY <4>1, FS_CardinalityType
    <3>2. Cardinality(Pickers) \in Nat /\ MaxTurns \in Nat
      BY ConsumerAssumption, FS_CardinalityType
    <3> QED
      BY <1>1, <3>1, <3>2 DEF ConsumerInv, PickInv
  <2>5. DOMAIN picks = DOMAIN cache
    BY <1>1 DEF ConsumerInv, SyncInv, PickInv
  <2>6. next \in 0..(rev + 1)
    BY <1>1 DEF ConsumerInv, SyncInv, CatalogInv, Stored
  <2> QED
    BY <1>1, <2>2, <2>3, <2>4, <2>5, <2>6 DEF ConsumerInv, SyncInv, PickInv, ConsumerTypeOK
<1> QED
  BY <1>1, ConsumerInvariant, PTL

LEMMA EvenTurns == ASSUME ConsumerInv PROVE TurnsAreEven
<1> SUFFICES ASSUME NEW i \in DOMAIN picks, NEW j \in DOMAIN picks PROVE picks[i] <= picks[j] + 1 + late
  BY DEF TurnsAreEven
<1>1. picks \in Seq(Nat) /\ Len(picks) = Len(cache) /\ late \in Nat /\ Len(cache) \in Nat
  BY DEF ConsumerInv, SyncInv, PickInv
<1>2. i \in 1..Len(cache) /\ j \in 1..Len(cache) /\ picks[i] \in Nat /\ picks[j] \in Nat /\ Len(cache) > 0
  BY <1>1
<1>3. PICK b \in Nat, s \in 0..(Len(cache) - 1) : \A k \in 1..Len(cache) : Owed(b, s, k)
  BY <1>2 DEF ConsumerInv, PickInv, Even
<1> DEFINE c == turn % Len(cache)
<1>4. picks[i] <= Level(b, s, c, i - 1) /\ Level(b, s, c, j - 1) <= picks[j] + late
  BY <1>2, <1>3 DEF Owed
<1>5. /\ Level(b, s, c, i - 1) \in Nat /\ Level(b, s, c, i - 1) <= b + 1
      /\ Level(b, s, c, j - 1) \in Nat /\ b <= Level(b, s, c, j - 1)
  BY DEF Level
<1> HIDE DEF c
<1>6. b \in Nat /\ picks[i] \in Nat /\ picks[j] \in Nat /\ late \in Nat
  BY <1>1, <1>2
<1> QED
  BY ONLY <1>4, <1>5, <1>6

LEMMA FairDraw == ASSUME SyncInv PROVE DrawIsFair
<1>1. cache \in Seq(Instance) /\ DOMAIN cache = 1..Len(cache)
  BY DEF SyncInv
<1>2. \A j \in 1..Len(cache) : cache[j].weight \in Nat \ {0}
  <2>1. MaxWeight \in Nat
    BY DEF MaxWeight
  <2> SUFFICES ASSUME NEW j \in 1..Len(cache) PROVE cache[j].weight \in Nat \ {0}
    OBVIOUS
  <2>2. ValidInstance(cache[j])
    BY DEF SyncInv, Item
  <2>3. cache[j].weight \in 1..MaxWeight
    BY <2>2 DEF ValidInstance
  <2> QED
    BY <2>1, <2>3
<1>3. PICK W : Weighed(cache, W) /\ \A m \in 0..Len(cache) : WeightOf(cache, m) = W[m]
  BY <1>1, <1>2, Summing
<1>4. ASSUME NEW j \in 1..Len(cache)
      PROVE  LET first == WeightOf(cache, j - 1) IN
             /\ cache[j].weight > 0
             /\ WeightedPick(cache, first) = j
             /\ WeightedPick(cache, first + cache[j].weight - 1) = j
  <2> DEFINE first == WeightOf(cache, j - 1)
             w == cache[j].weight
  <2>1. j - 1 \in 0..Len(cache)
    BY <1>1
  <2>2. first \in Nat /\ w \in Nat \ {0}
    BY <1>2, <1>3, <2>1 DEF Weighed
  <2>3. ASSUME NEW n \in Nat, first <= n, n < first + w PROVE WeightedPick(cache, n) = j
    BY <1>1, <1>2, <2>3, Drawing
  <2> HIDE DEF first, w
  <2>4. first <= first /\ first < first + w /\ first + w - 1 \in Nat
        /\ first <= first + w - 1 /\ first + w - 1 < first + w
    BY <2>2
  <2>5. WeightedPick(cache, first) = j /\ WeightedPick(cache, first + w - 1) = j
    BY <2>2, <2>3, <2>4
  <2> QED
    BY <2>2, <2>5 DEF first, w
<1> QED
  BY <1>1, <1>4 DEF DrawIsFair

\* weighted_random draws every cached instance with as many numbers as its
\* weight, round_robin gives every place of an unchanged cache its turn, and
\* consistent_hash moves a key only from an endpoint that went or to one that
\* came (ConsumerClient.Pick).
THEOREM FairPicks == Spec => PicksAreFair
<1>1. ASSUME ConsumerInv PROVE DrawIsFair /\ TurnsAreEven
  BY <1>1, EvenTurns, FairDraw DEF ConsumerInv
<1> DEFINE Moves ==
             \A h \in HashKeys : cache # <<>> /\ cache' # <<>> =>
                LET was == Endpoint(HashPick(cache, h))
                    is  == Endpoint(HashPick(cache', h))
                IN  \/ was = is
                    \/ \A j \in DOMAIN cache' : Endpoint(cache'[j]) # was
                    \/ \A j \in DOMAIN cache  : Endpoint(cache[j]) # is
<1>2. ASSUME ConsumerInv, ConsumerInv' PROVE Moves
  <2> SUFFICES ASSUME NEW h \in HashKeys, cache # <<>>, cache' # <<>>,
                      NEW i \in DOMAIN cache', Endpoint(cache'[i]) = Endpoint(HashPick(cache, h)),
                      NEW k \in DOMAIN cache, Endpoint(cache[k]) = Endpoint(HashPick(cache', h))
               PROVE  Endpoint(HashPick(cache, h)) = Endpoint(HashPick(cache', h))
    OBVIOUS
  <2>1. cache \in Seq(Instance) /\ \A j \in 1..Len(cache) : Endpoint(cache[j]) \in Endpoints
    BY <1>2 DEF ConsumerInv, SyncInv, Item
  <2>2. cache' \in Seq(Instance) /\ \A j \in 1..Len(cache') : Endpoint(cache'[j]) \in Endpoints
    BY <1>2 DEF ConsumerInv, SyncInv, Item
  <2>3. i \in 1..Len(cache') /\ k \in 1..Len(cache)
    BY <2>1, <2>2
  <2> QED
    BY <2>1, <2>2, <2>3, HashMoves
<1>3. ASSUME ConsumerInv, ConsumerInv' PROVE [Moves]_cache
  BY <1>2, <1>3
<1> QED
  BY <1>1, <1>3, ConsumerInvariant, PTL DEF PicksAreFair, HashMovesFew

-----------------------------------------------------------------------------
(* What a consumer that follows the whole service has heard.               *)

InService(k) == k \in Keys /\ Covers(Prefix(Asked.namespace, Asked.service), k)

\* The last change of k up to revision r is the n-th, and it put something there.
LastPut(n, k, r) ==
    /\ n \in 1..(r - 1) /\ log[n].type = "put" /\ log[n].key = k
    /\ \A m \in (n + 1)..(r - 1) : log[m].key # k

\* What was stored under k at revision r.
At(k, r) == {Content(log[n].value) : n \in {m \in 1..(r - 1) : LastPut(m, k, r)}}

\* What of a list has the key k.
Holds(items, k) == {Content(items[j]) : j \in {m \in 1..Len(items) : KeyOf(items[m]) = k}}

\* Changes of k that a stream from revision next has still to bring, up to r.
Pending(k, from, r) == \E m \in 1..(rev - 1) : from <= m + 1 /\ m + 1 <= r /\ log[m].key = k

Later(a, b) == IF a <= b THEN b ELSE a

\* Every key of the service either has such a change still to come up to r, or
\* is as it was stored at r or, after that, at the last revision heard.
Follows(items, from, r) ==
    \A k : InService(k) => Pending(k, from, r) \/ Holds(items, k) = At(k, Later(from - 1, r))

LEMMA AtNow ==
    ASSUME CatalogInv, NEW k \in Keys
    PROVE  At(k, rev) = IF Present(k) THEN {Content(kv[k].value)} ELSE {}
<1>1. ASSUME NEW n \in 1..(rev - 1), LastPut(n, k, rev)
      PROVE  Present(k) /\ kv[k].value = log[n].value
  <2>1. kv[k].mod = n + 1
    BY <1>1 DEF LastPut, CatalogInv, Recorded
  <2>2. Present(k)
    BY <2>1 DEF Present
  <2>3. RecordedAt(k)
    BY <2>2 DEF CatalogInv, Recorded
  <2>4. kv[k].mod - 1 = n
    BY <2>1
  <2> QED
    BY <2>2, <2>3, <2>4 DEF RecordedAt
<1>2. ASSUME Present(k)
      PROVE  \E n \in 1..(rev - 1) : LastPut(n, k, rev) /\ kv[k].value = log[n].value
  <2>1. RecordedAt(k)
    BY <1>2 DEF CatalogInv, Recorded
  <2> QED
    BY <2>1 DEF RecordedAt, LastPut
<1> QED
  BY <1>1, <1>2 DEF At

\* Nothing happens to a key between two revisions without a change of it.
LEMMA AtSame ==
    ASSUME NEW k, NEW a \in Nat, NEW b \in Nat, a <= b, \A m \in a..(b - 1) : m > 0 => log[m].key # k
    PROVE  At(k, a) = At(k, b)
<1>1. ASSUME NEW n PROVE LastPut(n, k, a) <=> LastPut(n, k, b)
  <2>1. ASSUME LastPut(n, k, a) PROVE LastPut(n, k, b)
    <3>1. n \in 1..(a - 1) /\ n \in 1..(b - 1)
      BY <2>1 DEF LastPut
    <3>2. ASSUME NEW m \in (n + 1)..(b - 1) PROVE log[m].key # k
      <4>1. m \in (n + 1)..(a - 1) \/ (m \in a..(b - 1) /\ m > 0)
        BY <3>1
      <4> QED
        BY <2>1, <4>1 DEF LastPut
    <3> QED
      BY <2>1, <3>1, <3>2 DEF LastPut
  <2>2. ASSUME LastPut(n, k, b) PROVE LastPut(n, k, a)
    <3>1. n \in 1..(b - 1) /\ log[n].key = k
      BY <2>2 DEF LastPut
    <3>2. n \in 1..(a - 1)
      BY <3>1
    <3>3. \A m \in (n + 1)..(a - 1) : m \in (n + 1)..(b - 1)
      BY <3>1
    <3> QED
      BY <2>2, <3>1, <3>2, <3>3 DEF LastPut
  <2> QED
    BY <2>1, <2>2
<1>2. \A n, r : LastPut(n, k, r) => n \in 1..(r - 1)
  BY DEF LastPut
<1>3. \A c, r : c \in At(k, r) <=> \E n : LastPut(n, k, r) /\ c = Content(log[n].value)
  BY <1>2 DEF At
<1> QED
  BY <1>1, <1>3 DEF At

\* The past does not change.
LEMMA AtKept ==
    ASSUME CatalogInv, Write, NEW k, NEW r \in 0..rev, NEW from
    PROVE  At(k, r)' = At(k, r) /\ (Pending(k, from, r)' <=> Pending(k, from, r))
<1>1. rev \in Nat /\ rev' = rev + 1 /\ \A n \in 1..(rev - 1) : log'[n] = log[n]
  <2>1. PICK c \in Keys : Erased(c) \/ \E i : Wrote(c, i)
    BY Writing
  <2>2. rev' = rev + 1 /\ \E e : log' = Append(log, e)
    BY <2>1 DEF Erased, Wrote
  <2>3. PICK e : log' = Append(log, e)
    BY <2>2
  <2>4. log \in Seq(Change) /\ Len(log) = rev - 1 /\ rev \in Nat
    BY DEF CatalogInv, Logging, Stored
  <2>5. \A n \in 1..(rev - 1) : log'[n] = log[n]
    BY <2>3, <2>4
  <2> QED
    BY <2>2, <2>4, <2>5
<1>2. \A n : LastPut(n, k, r)' <=> LastPut(n, k, r)
  <2> SUFFICES ASSUME NEW n \in 1..(r - 1) PROVE LastPut(n, k, r)' <=> LastPut(n, k, r)
    BY DEF LastPut
  <2>1. n \in 1..(rev - 1) /\ \A m \in (n + 1)..(r - 1) : m \in 1..(rev - 1)
    BY <1>1
  <2> QED
    BY <1>1, <2>1 DEF LastPut
<1>3. \A n \in 1..(r - 1) : n \in 1..(rev - 1)
  BY <1>1
<1>4. At(k, r)' = At(k, r)
  BY <1>1, <1>2, <1>3 DEF At
<1>5. Pending(k, from, r)' <=> Pending(k, from, r)
  <2>1. \A m : m \in 1..(rev' - 1) /\ m + 1 <= r <=> m \in 1..(rev - 1) /\ m + 1 <= r
    BY <1>1
  <2> QED
    BY <1>1, <2>1 DEF Pending
<1> QED
  BY <1>4, <1>5

\* The consumer asks for everything of its service.
Whole == over = "grpc" /\ filter = [NoFilter EXCEPT !.healthyOnly = FALSE]

From == IF watching THEN next ELSE Newest(cache) + 1

FollowInv ==
    /\ watching => answer = Nil /\ next > 0 /\ \A j \in 1..Len(cache) : cache[j].revision < next
    /\ \E r \in 1..rev : Follows(cache, From, r)
    /\ answer # Nil =>
          /\ answer.asOf \in 1..rev
          /\ \A j \in 1..Len(answer.items) : answer.items[j].revision <= answer.asOf
          /\ \A k : InService(k) => Holds(answer.items, k) = At(k, answer.asOf)

LEMMA FollowStarts == Init => FollowInv
<1> SUFFICES ASSUME Init PROVE FollowInv
  OBVIOUS
<1>1. watching = FALSE /\ answer = Nil /\ cache = <<>> /\ rev = 1
  BY DEF Init, CatalogInit, StoreInit
<1>2. cache \in Seq(Instance) /\ Len(cache) = 0 /\ 1..Len(cache) = {}
  BY <1>1
<1>3. Newest(cache) = 0
  <2>1. Newest(cache) \in 0..rev
    BY <1>1, <1>2, NewestIn
  <2>2. DOMAIN cache = {}
    BY <1>1
  <2>3. {cache[j].revision : j \in DOMAIN cache} = {}
    BY <2>2
  <2>4. Newest(cache) = CHOOSE n \in {0} : \A s \in {} : s <= n
    BY <2>3 DEF Newest
  <2> QED
    BY <2>4
<1>4. From = 1
  BY <1>1, <1>3 DEF From
<1>5. \A k : At(k, 1) = {} /\ Holds(cache, k) = {}
  BY <1>2 DEF At, Holds
<1>6. Follows(cache, From, 1)
  BY <1>4, <1>5 DEF Follows, Later
<1> QED
  BY <1>1, <1>6 DEF FollowInv

\* A step that leaves the history alone.
LEMMA Unmoved ==
    ASSUME UNCHANGED <<log, rev>>
    PROVE  /\ \A k, r : At(k, r)' = At(k, r)
           /\ \A k, from, r : Pending(k, from, r)' <=> Pending(k, from, r)
           /\ \A items, from, r : Follows(items, from, r)' <=> Follows(items, from, r)
           /\ \A items, k : Holds(items, k)' = Holds(items, k)
<1>1. \A n, k, r : LastPut(n, k, r)' <=> LastPut(n, k, r)
  BY DEF LastPut
<1>2. \A k, r : At(k, r)' = At(k, r)
  BY <1>1 DEF At
<1>3. \A k, from, r : Pending(k, from, r)' <=> Pending(k, from, r)
  BY DEF Pending
<1>4. \A items, k : Holds(items, k)' = Holds(items, k)
  BY DEF Holds
<1>5. \A items, from, r : Follows(items, from, r)' <=> Follows(items, from, r)
  BY <1>2, <1>3, <1>4 DEF Follows
<1> QED
  BY <1>2, <1>3, <1>4, <1>5

LEMMA FollowFrame ==
    ASSUME FollowInv, UNCHANGED <<log, rev, cache, watching, next, answer>>
    PROVE  FollowInv'
<1>1. From' = From
  BY DEF From, Newest
<1>2. PICK r \in 1..rev : Follows(cache, From, r)
  BY DEF FollowInv
<1>3. Follows(cache, From, r)'
  BY <1>1, <1>2, Unmoved
<1>4. \A k : Holds(answer.items, k)' = Holds(answer.items, k)
  BY Unmoved
<1>5. \A k : At(k, answer.asOf)' = At(k, answer.asOf)
  BY Unmoved
<1> QED
  BY <1>2, <1>3, <1>4, <1>5 DEF FollowInv, InService

LEMMA FromIn == ASSUME Fresh, SyncInv, FollowInv PROVE From \in 1..(rev + 1) /\ rev \in Nat \ {0}
<1>1. rev \in Nat \ {0} /\ cache \in Seq(Instance) /\ \A j \in 1..Len(cache) : cache[j].revision <= rev
  BY DEF SyncInv, CatalogInv, Stored, Known
<1>2. Newest(cache) \in 0..rev
  BY <1>1, NewestIn
<1>3. watching => next > 0 /\ next \in 0..(rev + 1)
  BY DEF SyncInv, FollowInv
<1> QED
  BY <1>1, <1>2, <1>3 DEF From

LEMMA ServeFollows == ASSUME Fresh, SyncInv, FollowInv, Serve PROVE FollowInv'
<1>1. /\ UNCHANGED <<cache, watching, next, answer>> /\ Write /\ CatalogInv
      /\ From \in 1..(rev + 1) /\ rev \in Nat \ {0}
  BY FromIn DEF Serve, view, SyncInv
<1>2. rev' = rev + 1
  <2>1. PICK k \in Keys : Erased(k) \/ \E i : Wrote(k, i)
    BY <1>1, Writing
  <2> QED
    BY <2>1 DEF Erased, Wrote
<1>3. PICK r \in 1..rev : Follows(cache, From, r)
  BY DEF FollowInv
<1>4. From' = From
  BY <1>1 DEF From, Newest
<1>5. \A k : \A q \in 0..rev : At(k, q)' = At(k, q)
  BY <1>1, AtKept
<1>6. \A k, from : Pending(k, from, r)' <=> Pending(k, from, r)
  <2>1. r \in 0..rev
    BY <1>1
  <2> QED
    BY <1>1, <2>1, AtKept
<1>7. \A items, k : Holds(items, k)' = Holds(items, k)
  BY DEF Holds
<1> PICK f : f = From
  OBVIOUS
<1> PICK q : q = Later(f - 1, r)
  OBVIOUS
<1>8. q \in 0..rev
  BY <1>1 DEF Later
<1>9. \A k : InService(k) => Pending(k, f, r) \/ Holds(cache, k) = At(k, q)
  BY <1>3 DEF Follows
<1>10. \A k : InService(k) => Pending(k, f, r)' \/ Holds(cache, k) = At(k, q)'
  BY <1>5, <1>6, <1>8, <1>9
<1>11. Follows(cache, From, r)'
  BY <1>1, <1>4, <1>7, <1>10 DEF Follows, InService, Later
<1>12. answer # Nil => answer.asOf \in 0..rev /\ \A k : At(k, answer.asOf)' = At(k, answer.asOf)
  BY <1>1, <1>5 DEF FollowInv
<1>13. r \in 1..rev'
  BY <1>1, <1>2
<1>14. watching' => /\ answer' = Nil /\ next' > 0
                    /\ \A j \in 1..Len(cache') : cache'[j].revision < next'
  BY <1>1 DEF FollowInv
<1>15. answer' # Nil =>
          /\ answer'.asOf \in 1..rev'
          /\ \A j \in 1..Len(answer'.items) : answer'.items[j].revision <= answer'.asOf
          /\ \A k : InService(k) => Holds(answer'.items, k) = At(k, answer.asOf)'
  BY <1>1, <1>2, <1>12 DEF FollowInv
<1> QED
  BY <1>7, <1>11, <1>13, <1>14, <1>15 DEF FollowInv, InService

LEMMA HoldsHas ==
    ASSUME NEW items, NEW k
    PROVE  \A c : c \in Holds(items, k) <=> \E x : Has(items, x) /\ KeyOf(x) = k /\ c = Content(x)
BY DEF Holds, Has

LEMMA AsksForAll ==
    ASSUME SyncInv, Whole
    PROVE  /\ HealthyOnly(Request(filter)) = FALSE
           /\ \A i : Matches(i, Request(filter))
<1>1. Request(filter) = FilterOverWire(filter) /\ filter \in Filters
  BY DEF Whole, Request, SyncInv
<1>2. /\ filter.group = "" /\ filter.version = "" /\ filter.healthyOnly = FALSE /\ filter.metadata = Nil
      /\ FilterOverWire(filter) = [filter EXCEPT !.metadata = CloneStringMap(@)]
      /\ FilterOverWire(filter).healthyOnly = FALSE
  BY DEF Whole, NoFilter, FilterOverWire
<1>3. FALSE # Nil
  BY CatalogAssumption
<1>4. HealthyOnly(filter) = FALSE /\ HealthyOnly(FilterOverWire(filter)) = FALSE
  BY <1>2, <1>3 DEF HealthyOnly, Unless
<1>5. \A i : Matches(i, filter)
  BY <1>2, <1>4 DEF Matches, MatchesMetadata, Entries
<1>6. \A i : Matches(i, FilterOverWire(filter))
  BY <1>1, <1>5, MatchesOverWire
<1> QED
  BY <1>1, <1>4, <1>6

\* A key of the service holds an instance of it.
LEMMA InServiceBelongs ==
    ASSUME CatalogInv, NEW k \in Keys, Present(k)
    PROVE  InService(k) <=> Belongs(Decoded(k))
<1>1. Good(Decoded(k)) /\ KeyOf(Decoded(k)) = k
  BY DecodedGood
<1> QED
  BY <1>1, ServiceCovers DEF Good, InService

LEMMA Fetched ==
    ASSUME SyncInv, Whole, NEW k, InService(k)
    PROVE  Holds(ItemsOverWire(Snapshot(Asked.namespace, Asked.service, Request(filter))), k) = At(k, rev)
<1> DEFINE s == ItemsOverWire(Snapshot(Asked.namespace, Asked.service, Request(filter)))
<1>1. CatalogInv /\ over \in {"http", "grpc"} /\ k \in Keys
  BY ConsumerAssumption DEF SyncInv, InService
<1> DEFINE f == Request(filter)
<1>2. \A j : Listed(j, f) <=> j \in Keys /\ Present(j) /\ Belongs(Decoded(j))
  BY AsksForAll DEF Listed
<1> HIDE DEF f
<1>3. /\ \A j \in 1..Len(s) : \E m : /\ Listed(m, f) /\ KeyOf(s[j]) = m
                                     /\ Content(s[j]) = Content(Decoded(m))
      /\ \A m : Listed(m, f) => \E j \in 1..Len(s) : /\ KeyOf(s[j]) = m
                                                     /\ Content(s[j]) = Content(Decoded(m))
  BY <1>1, Receiving DEF f
<1> HIDE DEF s
<1>4. ASSUME NEW c PROVE c \in Holds(s, k) <=> Listed(k, f) /\ c = Content(Decoded(k))
  <2>1. c \in Holds(s, k) <=> \E j \in 1..Len(s) : KeyOf(s[j]) = k /\ c = Content(s[j])
    BY DEF Holds
  <2> QED
    BY <1>3, <2>1
<1>5. Listed(k, f) <=> Present(k)
  BY <1>1, <1>2, InServiceBelongs
<1>6. Present(k) => Content(Decoded(k)) = Content(kv[k].value)
  BY <1>1, DecodedGood
<1>7. At(k, rev) = IF Present(k) THEN {Content(kv[k].value)} ELSE {}
  BY <1>1, AtNow
<1>8. \A c : c \in Holds(s, k) <=> c \in At(k, rev)
  BY <1>4, <1>5, <1>6, <1>7
<1>9. Holds(s, k) = At(k, rev)
  <2>1. Holds(s, k) \subseteq At(k, rev) /\ At(k, rev) \subseteq Holds(s, k)
    BY <1>8
  <2> QED
    BY <2>1
<1> QED
  BY <1>9 DEF s

LEMMA FetchFollows ==
    ASSUME Fresh, SyncInv, FollowInv, Whole, Concurrent = FALSE, Fetch
    PROVE  FollowInv'
<1> DEFINE s == ItemsOverWire(Snapshot(Asked.namespace, Asked.service, Request(filter)))
<1>1. /\ answer' = [items |-> s, asOf |-> rev] /\ watching = FALSE
      /\ UNCHANGED <<rev, log, watching, next, cache>>
  <2>1. UNCHANGED <<rev, log>>
    BY DEF Fetch, catalogVars, storeVars
  <2> QED
    BY <2>1 DEF Fetch, MaySync, SyncInv
<1>2. \A k : InService(k) => Holds(s, k) = At(k, rev)
  BY Fetched
<1>3. rev \in Nat \ {0} /\ \A j \in 1..Len(s) : s[j].revision <= rev
  <2>1. CatalogInv /\ over \in {"http", "grpc"}
    BY ConsumerAssumption DEF SyncInv
  <2>2. \A j \in 1..Len(s) : Known(s[j])
    BY <2>1, Receiving
  <2> QED
    BY <2>1, <2>2 DEF Known, CatalogInv, Stored
<1> HIDE DEF s
<1>4. From' = From
  BY <1>1 DEF From, Newest
<1>5. PICK r \in 1..rev : Follows(cache, From, r)
  BY DEF FollowInv
<1>6. Follows(cache, From, r)'
  BY <1>1, <1>4, <1>5, Unmoved
<1> PICK t : t = s
  OBVIOUS
<1> PICK q : q = rev
  OBVIOUS
<1>7. \A k : InService(k) => Holds(t, k)' = At(k, q)'
  BY <1>1, <1>2, Unmoved
<1>8. answer'.items = t /\ answer'.asOf = q /\ q \in 1..rev'
  BY <1>1, <1>3
<1>9. \A k : InService(k) => (Holds(answer.items, k) = At(k, answer.asOf))'
  BY <1>7, <1>8
<1>10. (\A k : InService(k) => Holds(answer.items, k) = At(k, answer.asOf))'
  BY <1>9 DEF InService
<1>11. \A j \in 1..Len(answer'.items) : answer'.items[j].revision <= answer'.asOf
  BY <1>3, <1>8
<1> QED
  BY <1>1, <1>6, <1>5, <1>8, <1>10, <1>11 DEF FollowInv

LEMMA FetchErrorFollows ==
    ASSUME SyncInv, FollowInv, Whole, FetchError
    PROVE  FollowInv'
<1>1. /\ answer' = Nil /\ UNCHANGED <<rev, log, watching, next, cache>>
      /\ answer = Nil
  BY DEF FetchError, catalogVars, storeVars, Whole, MaySync
<1> QED
  BY <1>1, FollowFrame

\* Once stored, the answer is as of its revision.
LEMMA SyncFollows ==
    ASSUME SyncInv, FollowInv, Sync
    PROVE  FollowInv'
<1>1. /\ answer # Nil /\ answer' = Nil /\ cache' = answer.items /\ watching = FALSE
      /\ UNCHANGED <<rev, log, watching, next>>
  BY DEF Sync, Cached, catalogVars, storeVars, SyncInv, FollowInv
<1> PICK r : r = answer.asOf
  OBVIOUS
<1> PICK items : items = answer.items
  OBVIOUS
<1>2. /\ r \in 1..rev /\ rev \in Nat /\ items \in Seq(Instance)
      /\ \A j \in 1..Len(items) : items[j].revision <= r
      /\ \A k : InService(k) => Holds(items, k) = At(k, r)
  BY <1>1 DEF FollowInv, SyncInv, CatalogInv, Stored
<1>3. Newest(items) \in 0..r
  <2>1. r \in Nat
    BY <1>2
  <2> QED
    BY <1>2, <2>1, NewestIn
<1> PICK f : f = Newest(items) + 1
  OBVIOUS
<1>4. Later(f - 1, r) = r
  BY <1>2, <1>3 DEF Later
<1>5. Follows(items, f, r)
  BY <1>2, <1>4 DEF Follows
<1>6. Newest(items)' = Newest(items)
  BY DEF Newest
<1>7. From' = f
  BY <1>1, <1>6 DEF From
<1>8. Follows(items, f, r)'
  BY <1>1, <1>5, Unmoved
<1>9. Follows(cache, From, r)'
  BY <1>1, <1>7, <1>8
<1> QED
  BY <1>1, <1>2, <1>9 DEF FollowInv

\* The stream begins with what is newer than any instance of the cache.
LEMMA OpenWatchFollows ==
    ASSUME Fresh, SyncInv, FollowInv, Whole, OpenWatch
    PROVE  FollowInv'
<1>1. /\ watching = FALSE /\ watching' = TRUE /\ answer = Nil
      /\ UNCHANGED <<rev, log, cache, answer>> /\ next' = Newest(cache) + 1
  BY DEF OpenWatch, catalogVars, storeVars, Whole, SyncInv
<1>2. rev \in Nat /\ cache \in Seq(Instance) /\ \A j \in 1..Len(cache) : cache[j].revision <= rev
  BY DEF SyncInv, CatalogInv, Stored, Known
<1>3. Newest(cache) \in 0..rev /\ \A j \in 1..Len(cache) : cache[j].revision <= Newest(cache)
  BY <1>2, NewestIn
<1>4. \A j \in 1..Len(cache) : cache[j].revision \in Nat
  BY <1>2, Typed
<1>5. \A j \in 1..Len(cache) : cache[j].revision < Newest(cache) + 1
  BY <1>3, <1>4
<1>6. From' = From
  BY <1>1 DEF From
<1>7. PICK r \in 1..rev : Follows(cache, From, r)
  BY DEF FollowInv
<1>8. Follows(cache, From, r)'
  BY <1>1, <1>6, <1>7, Unmoved
<1> QED
  BY <1>1, <1>3, <1>5, <1>7, <1>8 DEF FollowInv

\* A caller that starts over does so from its newest instance: what it had
\* heard by then it may hear again.
LEMMA WatchReturnsFollows ==
    ASSUME Fresh, SyncInv, FollowInv, WatchReturns
    PROVE  FollowInv'
<1>1. /\ watching = TRUE /\ watching' = FALSE /\ answer = Nil
      /\ UNCHANGED <<rev, log, cache, answer>>
  BY DEF WatchReturns, catalogVars, storeVars, SyncInv, FollowInv
<1>2. rev \in Nat \ {0} /\ cache \in Seq(Instance) /\ \A j \in 1..Len(cache) : cache[j].revision <= rev
  BY DEF SyncInv, CatalogInv, Stored, Known
<1>3. /\ next \in 1..(rev + 1) /\ \A j \in 1..Len(cache) : cache[j].revision <= next - 1
  <2>1. next \in 1..(rev + 1) /\ \A j \in 1..Len(cache) : cache[j].revision < next
    BY <1>1, <1>2 DEF SyncInv, FollowInv
  <2>2. \A j \in 1..Len(cache) : cache[j].revision \in Nat
    BY <1>2, Typed
  <2> QED
    BY <2>1, <2>2
<1>4. Newest(cache) \in 0..(next - 1)
  <2>1. next - 1 \in Nat
    BY <1>3
  <2> QED
    BY <1>2, <1>3, <2>1, NewestIn
<1>5. PICK r \in 1..rev : Follows(cache, next, r)
  BY <1>1 DEF FollowInv, From
<1> PICK q : q = Later(next - 1, r)
  OBVIOUS
<1> PICK f : f = Newest(cache) + 1
  OBVIOUS
<1>6. /\ q \in 1..rev /\ r <= q /\ f <= next /\ f - 1 <= q /\ f \in Nat /\ next \in Nat
      /\ Later(f - 1, q) = q
  BY <1>2, <1>3, <1>4 DEF Later
<1>7. \A k : Pending(k, next, r) => Pending(k, f, q)
  BY <1>2, <1>6 DEF Pending
<1>8. Follows(cache, f, q)
  BY <1>5, <1>6, <1>7 DEF Follows
<1>9. From' = f
  BY <1>1 DEF From, Newest
<1>10. Follows(cache, f, q)'
  BY <1>1, <1>8, Unmoved
<1>11. Follows(cache, From, q)'
  BY <1>9, <1>10
<1> QED
  BY <1>1, <1>6, <1>11 DEF FollowInv

\* An event touches the instance it names and no other.
LEMMA AppliedHolds ==
    ASSUME NEW items \in Seq(Instance), \A j \in 1..Len(items) : Belongs(items[j]),
           NEW e, e.value \in Instance, Belongs(e.value), NEW k
    PROVE  Holds(Applied(items, e), k) =
              IF KeyOf(e.value) # k THEN Holds(items, k)
              ELSE IF e.type = "put" THEN {Content(e.value)} ELSE {}
<1> DEFINE after == Applied(items, e)
<1>1. \A x : Has(after, x) <=> Left(items, e, x)
  BY Applying
<1> HIDE DEF after
<1>2. \A x : Has(items, x) => x \in Instance /\ Belongs(x)
  BY DEF Has
<1>3. \A x : Has(items, x) => (x.instanceId = e.value.instanceId <=> KeyOf(x) = KeyOf(e.value))
  BY <1>2, OneKey
<1>4. \A x : Has(after, x) <=> \/ KeyOf(x) # KeyOf(e.value) /\ Has(items, x)
                               \/ e.type = "put" /\ x = e.value
  BY <1>1, <1>3 DEF Left
<1>5. ASSUME NEW c
      PROVE  c \in Holds(after, k) <=> \E x : Has(after, x) /\ KeyOf(x) = k /\ c = Content(x)
  BY HoldsHas
<1>6. ASSUME NEW c
      PROVE  c \in Holds(items, k) <=> \E x : Has(items, x) /\ KeyOf(x) = k /\ c = Content(x)
  BY HoldsHas
<1>7. CASE KeyOf(e.value) # k
  <2>1. \A c : c \in Holds(after, k) <=> c \in Holds(items, k)
    BY <1>4, <1>5, <1>6, <1>7
  <2>2. Holds(after, k) \subseteq Holds(items, k) /\ Holds(items, k) \subseteq Holds(after, k)
    BY <2>1
  <2> QED
    BY <1>7, <2>2 DEF after
<1>8. CASE KeyOf(e.value) = k
  <2>1. \A c : c \in Holds(after, k) <=> e.type = "put" /\ c = Content(e.value)
    BY <1>4, <1>5, <1>8
  <2>2. Holds(after, k) = IF e.type = "put" THEN {Content(e.value)} ELSE {}
    BY <2>1
  <2> QED
    BY <1>8, <2>2 DEF after
<1> QED
  BY <1>7, <1>8

\* Nothing of the service is left out of the stream.
LEMMA AllComing ==
    ASSUME Fresh, SyncInv, Whole, NEW k, InService(k)
    PROVE  \A m \in 1..(rev - 1) : log[m].key = k /\ next <= m + 1 => m \in Coming
<1>1. DOMAIN log = 1..(rev - 1) /\ next \in Nat /\ rev \in Nat
  BY DEF SyncInv, CatalogInv, Logging, Stored
<1>2. \A m : ~Skipped(log[m])
  BY AsksForAll DEF Skipped, WatchedHealthyOnly
<1> QED
  BY <1>1, <1>2 DEF Coming, Revision, InService

\* What the n-th change made of its key is stored at revision n + 1.
LEMMA AtChange ==
    ASSUME NEW n \in Nat \ {0}, NEW k, log[n].key = k
    PROVE  At(k, n + 1) = IF log[n].type = "put" THEN {Content(log[n].value)} ELSE {}
<1>1. \A m : LastPut(m, k, n + 1) <=> m = n /\ log[n].type = "put"
  <2>1. ASSUME NEW m, LastPut(m, k, n + 1) PROVE m = n
    <3>1. m \in 1..n
      BY <2>1 DEF LastPut
    <3>2. m < n => n \in (m + 1)..((n + 1) - 1)
      BY <3>1
    <3>3. ~(m < n)
      BY <2>1, <3>2 DEF LastPut
    <3> QED
      BY <3>1, <3>3
  <2>2. n \in 1..((n + 1) - 1) /\ (n + 1)..((n + 1) - 1) = {}
    OBVIOUS
  <2> QED
    BY <2>1, <2>2 DEF LastPut
<1>2. n \in 1..((n + 1) - 1)
  OBVIOUS
<1> QED
  BY <1>1, <1>2 DEF At

LEMMA ApplyEventFollows ==
    ASSUME Fresh, SyncInv, FollowInv, Whole, ApplyEvent
    PROVE  FollowInv'
<1>1. PICK n \in Coming : /\ \A m \in Coming : n <= m
                          /\ cache' = Applied(cache, log[n]) /\ next' = Revision(n) + 1
  BY DEF ApplyEvent, Cached
<1>2. /\ UNCHANGED <<rev, log, watching, answer>> /\ watching = TRUE /\ answer = Nil
  BY DEF ApplyEvent, catalogVars, storeVars, SyncInv, FollowInv
<1>3. CatalogInv /\ over \in {"http", "grpc"} /\ cache \in Seq(Instance)
  BY ConsumerAssumption DEF SyncInv
<1> PICK e : e = log[n]
  OBVIOUS
<1>4. /\ n \in 1..(rev - 1) /\ rev \in Nat /\ next <= n + 1 /\ e.value \in Instance
      /\ Belongs(e.value) /\ KeyOf(e.value) = e.key /\ e.value.revision <= n
      /\ e.value.revision \in Nat
  BY <1>3, Event, Typed DEF Item
<1>5. next \in Nat \ {0} /\ \A j \in 1..Len(cache) : cache[j].revision < next
  BY <1>2 DEF SyncInv, FollowInv
<1>6. PICK r \in 1..rev : Follows(cache, next, r)
  BY <1>2 DEF FollowInv, From
<1> PICK items : items = cache'
  OBVIOUS
<1>7. items = Applied(cache, e) /\ next' = n + 2
  BY <1>1, <1>4 DEF Revision
<1>8. \A j \in 1..Len(cache) : Belongs(cache[j])
  BY DEF SyncInv, Item
<1>9. \A k : Holds(items, k) = IF e.key # k THEN Holds(cache, k)
                               ELSE IF e.type = "put" THEN {Content(e.value)} ELSE {}
  <2>1. \A k : Holds(Applied(cache, e), k) =
                 IF KeyOf(e.value) # k THEN Holds(cache, k)
                 ELSE IF e.type = "put" THEN {Content(e.value)} ELSE {}
    BY <1>3, <1>4, <1>8, AppliedHolds
  <2> QED
    BY <1>4, <1>7, <2>1
<1>10. ASSUME NEW k, InService(k), ~Pending(k, n + 2, r)
       PROVE  Holds(items, k) = At(k, Later(n + 1, r))
  <2> PICK q : q = Later(n + 1, r)
    OBVIOUS
  <2>1. q \in 1..rev /\ n + 1 <= q /\ r <= q /\ (q = n + 1 \/ q = r)
    BY <1>4 DEF Later
  <2>2. \A m \in 1..(rev - 1) : log[m].key = k /\ n + 1 <= m => r < m + 1
    BY <1>4, <1>10 DEF Pending
  <2>3. CASE e.key = k
    <3>1. At(k, n + 1) = IF e.type = "put" THEN {Content(e.value)} ELSE {}
      <4>1. n \in Nat \ {0} /\ log[n].key = k
        BY <1>4, <2>3
      <4> QED
        BY <4>1, AtChange
    <3>2. ASSUME NEW m \in (n + 1)..(q - 1), m > 0 PROVE log[m].key # k
      <4>1. m \in 1..(rev - 1) /\ n + 1 <= m /\ m + 1 <= q /\ q = r
        BY <1>4, <2>1, <3>2
      <4> QED
        BY <2>2, <4>1
    <3>3. At(k, n + 1) = At(k, q)
      <4>1. n + 1 \in Nat /\ q \in Nat
        BY <1>4, <2>1
      <4> QED
        BY <2>1, <3>2, <4>1, AtSame
    <3> QED
      BY <1>9, <2>3, <3>1, <3>3
  <2>4. CASE e.key # k
    <3>1. \A m \in 1..(rev - 1) : log[m].key = k /\ next <= m + 1 => n + 1 <= m
      <4> SUFFICES ASSUME NEW m \in 1..(rev - 1), log[m].key = k, next <= m + 1 PROVE n + 1 <= m
        OBVIOUS
      <4>1. m \in Coming
        BY <1>10, AllComing
      <4>2. n <= m /\ m # n
        BY <1>1, <2>4, <4>1
      <4> QED
        BY <1>4, <4>2
    <3>2. ~Pending(k, next, r)
      <4> SUFFICES ASSUME NEW m \in 1..(rev - 1), next <= m + 1, m + 1 <= r, log[m].key = k PROVE FALSE
        BY DEF Pending
      <4>1. r < m + 1
        BY <2>2, <3>1
      <4> QED
        BY <1>4, <4>1
    <3> PICK p : p = Later(next - 1, r)
      OBVIOUS
    <3>3. Holds(cache, k) = At(k, p)
      BY <1>6, <1>10, <3>2 DEF Follows
    <3>4. p \in Nat /\ q \in Nat /\ p <= q /\ next - 1 <= p /\ r <= p
      BY <1>4, <1>5, <2>1 DEF Later
    <3>5. ASSUME NEW m \in p..(q - 1), m > 0 PROVE log[m].key # k
      <4>1. m \in 1..(rev - 1) /\ next <= m + 1 /\ (q = n + 1 => m <= n) /\ (q = r => FALSE)
        BY <1>4, <1>5, <2>1, <3>4, <3>5
      <4>2. ~(n + 1 <= m)
        BY <1>4, <2>1, <4>1
      <4> QED
        BY <3>1, <4>1, <4>2
    <3>6. At(k, p) = At(k, q)
      BY <3>4, <3>5, AtSame
    <3> QED
      BY <1>9, <2>4, <3>3, <3>6
  <2> QED
    BY <2>3, <2>4
<1> PICK f : f = n + 2
  OBVIOUS
<1>11. f - 1 = n + 1
  BY <1>4
<1>12. Follows(items, f, r)
  BY <1>10, <1>11 DEF Follows
<1>13. From' = f
  BY <1>2, <1>7 DEF From
<1>14. Follows(items, f, r)'
  BY <1>2, <1>12, Unmoved
<1>15. Follows(cache, From, r)'
  BY <1>13, <1>14
<1>16. \A j \in 1..Len(items) : items[j].revision < f
  <2> SUFFICES ASSUME NEW j \in 1..Len(items) PROVE items[j].revision < f
    OBVIOUS
  <2>1. Left(cache, e, items[j])
    <3>1. \A x : Has(items, x) <=> Left(cache, e, x)
      BY <1>3, <1>4, <1>7, Applying
    <3> QED
      BY <3>1 DEF Has
  <2>2. CASE items[j] = e.value
    BY <1>4, <2>2
  <2>3. CASE Has(cache, items[j])
    <3>1. PICK i \in 1..Len(cache) : cache[i] = items[j]
      BY <2>3 DEF Has
    <3>2. items[j].revision < next /\ items[j].revision \in Nat
      BY <1>3, <1>5, <3>1, Typed
    <3> QED
      BY <1>4, <1>5, <3>2
  <2> QED
    BY <2>1, <2>2, <2>3 DEF Left
<1>17. next' = f /\ f > 0 /\ r \in 1..rev'
  BY <1>2, <1>4, <1>7
<1> QED
  BY <1>2, <1>15, <1>16, <1>17 DEF FollowInv

LEMMA FollowKept ==
    ASSUME Fresh, SyncInv, FollowInv, Whole, Concurrent = FALSE, [Next]_vars
    PROVE  FollowInv'
<1>1. CASE Serve
  BY <1>1, ServeFollows
<1>2. CASE Fetch
  BY <1>2, FetchFollows
<1>3. CASE FetchError
  BY <1>3, FetchErrorFollows
<1>4. CASE Sync
  BY <1>4, SyncFollows
<1>5. CASE OpenWatch
  BY <1>5, OpenWatchFollows
<1>6. CASE ApplyEvent
  BY <1>6, ApplyEventFollows
<1>7. CASE WatchReturns
  BY <1>7, WatchReturnsFollows
<1>8. CASE \E p \in Pickers : CopyCache(p) \/ TakeTurn(p)
  <2>1. UNCHANGED <<log, rev, cache, watching, next, answer>>
    BY <1>8 DEF CopyCache, TakeTurn, catalogVars, storeVars, view
  <2> QED
    BY <2>1, FollowFrame
<1>9. CASE UNCHANGED vars
  <2>1. UNCHANGED <<log, rev, cache, watching, next, answer>>
    BY <1>9 DEF vars, catalogVars, storeVars, view
  <2> QED
    BY <2>1, FollowFrame
<1> QED
  BY <1>1, <1>2, <1>3, <1>4, <1>5, <1>6, <1>7, <1>8, <1>9 DEF Next

LEMMA WholeKept == ASSUME [Next]_vars PROVE Whole' = Whole
<1>1. UNCHANGED <<over, filter>>
  BY DEF Next, vars, view, Serve, Fetch, FetchError, Sync, OpenWatch, ApplyEvent, WatchReturns,
         CopyCache, TakeTurn
<1> QED
  BY <1>1 DEF Whole

\* With nothing more to come, every key is as it is stored.
LEMMA SettledNow ==
    ASSUME Fresh, SyncInv, FollowInv, Whole
    PROVE  Settled
<1> SUFFICES ASSUME watching, Coming = {}
             PROVE  {Content(i) : i \in Instances} =
                    {Content(i) : i \in {j \in StoredInstances : Belongs(j)}}
  BY DEF Settled
<1>1. CatalogInv /\ rev \in Nat \ {0} /\ next \in 1..(rev + 1) /\ cache \in Seq(Instance)
  BY DEF SyncInv, FollowInv, CatalogInv, Stored
<1>2. PICK r \in 1..rev : Follows(cache, next, r)
  BY DEF FollowInv, From
<1> PICK p : p = Later(next - 1, r)
  OBVIOUS
<1>3. p \in Nat /\ p <= rev /\ next - 1 <= p
  BY <1>1 DEF Later
<1>4. ASSUME NEW k, InService(k)
      PROVE  Holds(cache, k) = IF Present(k) THEN {Content(Decoded(k))} ELSE {}
  <2>1. \A m \in 1..(rev - 1) : log[m].key = k => ~(next <= m + 1)
    BY <1>4, AllComing
  <2>2. ~Pending(k, next, r)
    BY <2>1 DEF Pending
  <2>3. Holds(cache, k) = At(k, p)
    BY <1>2, <1>4, <2>2 DEF Follows
  <2>4. ASSUME NEW m \in p..(rev - 1), m > 0 PROVE log[m].key # k
    <3>1. m \in 1..(rev - 1) /\ next <= m + 1
      BY <1>1, <1>3, <2>4
    <3> QED
      BY <2>1, <3>1
  <2>5. At(k, p) = At(k, rev)
    BY <1>1, <1>3, <2>4, AtSame
  <2>6. k \in Keys
    BY <1>4 DEF InService
  <2>7. At(k, rev) = IF Present(k) THEN {Content(kv[k].value)} ELSE {}
    BY <1>1, <2>6, AtNow
  <2>8. Present(k) => Content(Decoded(k)) = Content(kv[k].value)
    BY <1>1, <2>6, DecodedGood
  <2> QED
    BY <2>3, <2>5, <2>7, <2>8
<1>5. ASSUME NEW c
      PROVE  c \in {Content(i) : i \in Instances} <=> \E x : Has(cache, x) /\ c = Content(x)
  BY <1>1 DEF Instances, Has
<1>6. \A x : Has(cache, x) => InService(KeyOf(x))
  <2> SUFFICES ASSUME NEW j \in 1..Len(cache) PROVE InService(KeyOf(cache[j]))
    BY DEF Has
  <2>1. Item(cache[j])
    BY DEF SyncInv
  <2> QED
    BY <2>1, ServiceCovers DEF Item, InService
<1>7. ASSUME NEW c, NEW x, Has(cache, x), c = Content(x)
      PROVE  c \in {Content(i) : i \in {j \in StoredInstances : Belongs(j)}}
  <2> PICK k : k = KeyOf(x)
    OBVIOUS
  <2>1. InService(k) /\ c \in Holds(cache, k)
    BY <1>6, <1>7, HoldsHas
  <2>2. Present(k) /\ c = Content(Decoded(k)) /\ k \in Keys
    BY <1>4, <2>1 DEF InService
  <2>3. Decoded(k) \in StoredInstances /\ Belongs(Decoded(k))
    BY <1>1, <2>1, <2>2, InServiceBelongs DEF StoredInstances
  <2> QED
    BY <2>2, <2>3
<1>8. ASSUME NEW k \in Keys, Present(k), Belongs(Decoded(k))
      PROVE  \E x : Has(cache, x) /\ Content(Decoded(k)) = Content(x)
  <2>1. InService(k)
    BY <1>1, <1>8, InServiceBelongs
  <2>2. Content(Decoded(k)) \in Holds(cache, k)
    BY <1>4, <1>8, <2>1
  <2> QED
    BY <2>2, HoldsHas
<1>9. \A c : c \in {Content(i) : i \in Instances}
             <=> c \in {Content(i) : i \in {j \in StoredInstances : Belongs(j)}}
  <2>1. ASSUME NEW c, c \in {Content(i) : i \in {j \in StoredInstances : Belongs(j)}}
        PROVE  c \in {Content(i) : i \in Instances}
    <3>1. PICK k \in Keys : Present(k) /\ Belongs(Decoded(k)) /\ c = Content(Decoded(k))
      BY <2>1 DEF StoredInstances
    <3> QED
      BY <1>5, <1>8, <3>1
  <2> QED
    BY <1>5, <1>7, <2>1
<1> QED
  BY <1>9

\* A consumer of a whole service over gRPC that never syncs beside its watch has
\* the service as it is stored whenever it has heard every change of it, however
\* often Watch returned in between (Sync, Watch and the two applies in
\* pkg/consumer/client.go).
THEOREM FollowsTheService ==
    ASSUME Fresh, Concurrent = FALSE
    PROVE  Spec => []SettledIsStored
<1> DEFINE Inv == SyncInv /\ (Whole => FollowInv)
<1>1. Init => Inv
  BY SyncStarts, FollowStarts
<1>2. ASSUME Inv, [Next]_vars PROVE Inv'
  <2>1. SyncInv' /\ Whole' = Whole
    BY <1>2, SyncInvKept, WholeKept
  <2>2. Whole => FollowInv'
    BY <1>2, FollowKept
  <2> QED
    BY <2>1, <2>2
<1>3. ASSUME Inv PROVE SettledIsStored
  BY <1>3, SettledNow DEF SettledIsStored, Whole
<1> QED
  BY <1>1, <1>2, <1>3, PTL DEF Spec
============================================================================

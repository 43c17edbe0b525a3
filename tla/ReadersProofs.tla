----------------------------- MODULE ReadersProofs -----------------------------
(***************************************************************************)
(* Proofs about Readers: what is read of a text or list is right for an    *)
(* input of any length.  A loop of the code is a recursive function of its *)
(* turns; that it is one, and what holds after each turn, are shown by     *)
(* induction, which rests on every set of numbers having a least one.      *)
(***************************************************************************)
EXTENDS Readers, FiniteSetTheorems, FunctionTheorems, SequenceTheorems, TLAPS

-----------------------------------------------------------------------------
(* Numbers, and the places of a text in their order.                       *)

\* A set of numbers has a least one.
LEMMA LeastNumber ==
  ASSUME NEW S \in SUBSET Nat, S # {}
  PROVE  \E m \in S : \A k \in S : m <= k
<1> DEFINE Less == {p \in Nat \X Nat : p[1] < p[2]}
<1>1. IsWellFoundedOn(Less, Nat)
  <2>1. OpToRel(<, Nat) = Less
    BY DEF OpToRel
  <2> QED
    BY <2>1, NatLessThanWellFounded
<1>2. \A x, y \in Nat : y < x => <<y, x>> \in Less
  OBVIOUS
<1> HIDE DEF Less
<1>3. PICK m \in S : \A k \in S : <<k, m>> \notin Less
  BY <1>1, WFMin
<1>4. \A k \in S : ~(k < m)
  BY <1>2, <1>3
<1> QED
  BY <1>4

\* A set that has 0, and with each number the next, has all numbers.
LEMMA NumberInduction ==
  ASSUME NEW S, 0 \in S, \A n \in Nat : n \in S => n + 1 \in S
  PROVE  \A n \in Nat : n \in S
<1> DEFINE Rest == {n \in Nat : n \notin S}
<1> SUFFICES ASSUME Rest # {} PROVE FALSE
  OBVIOUS
<1>1. PICK m \in Rest : \A k \in Rest : m <= k
  BY LeastNumber
<1>2. m - 1 \in Nat /\ m - 1 \notin Rest
  BY <1>1
<1> QED
  BY <1>2

\* A set of numbers up to n has a greatest one.
LEMMA GreatestNumber ==
  ASSUME NEW n \in Nat, NEW S \in SUBSET (0..n), S # {}
  PROVE  \E m \in S : \A k \in S : k <= m
<1> DEFINE Above == {n - k : k \in S}
<1>0. Above \in SUBSET Nat /\ Above # {}
  <2>1. \A k \in S : n - k \in Nat
    OBVIOUS
  <2>2. PICK k \in S : TRUE
    OBVIOUS
  <2>3. n - k \in Above
    BY <2>2
  <2> QED
    BY <2>1, <2>3
<1>1. PICK a \in Above : \A b \in Above : a <= b
  BY <1>0, LeastNumber
<1>2. PICK m \in S : a = n - m
  OBVIOUS
<1>3. \A k \in S : n - k >= n - m
  BY <1>1, <1>2
<1> QED
  BY <1>3

\* A rank is a number up to that of the places.
LEMMA RankIsNumber ==
  ASSUME NEW S, IsFiniteSet(S), S \subseteq Nat, NEW i \in Nat
  PROVE  Rank(S, i) \in 0..Cardinality(S)
<1>1. {j \in S : j <= i} \subseteq S
  OBVIOUS
<1> QED
  BY <1>1, FS_Subset, FS_CardinalityType DEF Rank

\* A later place has a greater rank.
LEMMA RankGrows ==
  ASSUME NEW S, IsFiniteSet(S), S \subseteq Nat, NEW i \in S, NEW j \in S, i < j
  PROVE  Rank(S, i) < Rank(S, j)
<1> DEFINE A == {k \in S : k <= i}
           B == {k \in S : k <= j}
<1>1. A \subseteq B /\ A # B /\ B \subseteq S
  <2>1. i \in Nat /\ j \in Nat
    OBVIOUS
  <2>2. j \in B /\ j \notin A
    BY <2>1
  <2>3. \A k \in S : k \in Nat
    OBVIOUS
  <2>4. \A k \in S : k <= i => k <= j
    BY <2>1, <2>3
  <2>5. A \subseteq B /\ B \subseteq S
    BY <2>4
  <2> QED
    BY <2>2, <2>5
<1>2. IsFiniteSet(B)
  BY <1>1, FS_Subset
<1>3. Cardinality(A) <= Cardinality(B) /\ Cardinality(A) # Cardinality(B)
  BY <1>1, <1>2, FS_Subset
<1>4. Cardinality(A) \in Nat /\ Cardinality(B) \in Nat
  BY <1>1, <1>2, FS_Subset, FS_CardinalityType
<1> QED
  BY <1>3, <1>4 DEF Rank

\* The rank numbers the places.
LEMMA RankOfPlace ==
  ASSUME NEW S, IsFiniteSet(S), S \subseteq Nat
  PROVE  [i \in S |-> Rank(S, i)] \in Bijection(S, 1..Cardinality(S))
<1> DEFINE N == Cardinality(S)
           f == [i \in S |-> Rank(S, i)]
<1>1. N \in Nat
  BY FS_CardinalityType
<1>2. \A i \in S : Rank(S, i) \in 1..N
  <2> TAKE i \in S
  <2>1. {j \in S : j <= i} \subseteq S /\ i \in {j \in S : j <= i}
    OBVIOUS
  <2>2. IsFiniteSet({j \in S : j <= i})
    BY <2>1, FS_Subset
  <2>3. Rank(S, i) # 0
    BY <2>1, <2>2, FS_EmptySet DEF Rank
  <2>4. i \in Nat
    OBVIOUS
  <2>5. Rank(S, i) \in 0..N
    BY <2>4, RankIsNumber
  <2> HIDE DEF N
  <2> QED
    BY <2>3, <2>5, <1>1
<1>3. f \in [S -> 1..N]
  BY <1>2
<1>4. \A i, j \in S : f[i] = f[j] => i = j
  <2> SUFFICES ASSUME NEW i \in S, NEW j \in S, i # j PROVE Rank(S, i) # Rank(S, j)
    OBVIOUS
  <2>1. Rank(S, i) \in Nat /\ Rank(S, j) \in Nat
    BY <1>2
  <2>2. i \in Nat /\ j \in Nat
    OBVIOUS
  <2>3. i < j \/ j < i
    BY <2>2
  <2>4. Rank(S, i) < Rank(S, j) \/ Rank(S, j) < Rank(S, i)
    BY <2>3, RankGrows
  <2> QED
    BY <2>1, <2>4
<1> HIDE DEF f
<1>5. f \in Injection(S, 1..N)
  BY <1>3, <1>4, Fun_IsInj
<1>6. IsFiniteSet(1..N) /\ Cardinality(1..N) = N
  BY <1>1, FS_Interval
<1>7. f \in Surjection(S, 1..N)
  BY <1>5, <1>6, FS_Injection
<1>8. f \in Bijection(S, 1..N)
  BY <1>5, <1>7, Fun_IsBij
<1> QED
  BY <1>8 DEF f

\* InOrder(S) has each place of S at its rank, and grows.
LEMMA InOrderProperties ==
  ASSUME NEW S, IsFiniteSet(S), S \subseteq Nat
  PROVE  /\ Cardinality(S) \in Nat
         /\ InOrder(S) \in [1..Cardinality(S) -> S]
         /\ \A i \in S : Rank(S, i) \in 1..Cardinality(S) /\ InOrder(S)[Rank(S, i)] = i
         /\ \A k \in 1..Cardinality(S) : Rank(S, InOrder(S)[k]) = k
         /\ \A k, l \in 1..Cardinality(S) : k < l => InOrder(S)[k] < InOrder(S)[l]
<1> DEFINE N == Cardinality(S)
           f == [i \in S |-> Rank(S, i)]
           at(k) == CHOOSE i \in S : Rank(S, i) = k
<1>1. N \in Nat
  BY FS_CardinalityType
<1>2. /\ f \in [S -> 1..N]
      /\ \A i, j \in S : f[i] = f[j] => i = j
      /\ \A k \in 1..N : \E i \in S : f[i] = k
  <2>1. f \in Bijection(S, 1..N)
    BY RankOfPlace
  <2> HIDE DEF f, N
  <2> QED
    BY <2>1, Fun_BijectionProperties
<1>3. \A k \in 1..N : at(k) \in S /\ Rank(S, at(k)) = k
  BY <1>2
<1>4. \A i \in S : Rank(S, i) \in 1..N
  BY <1>2
<1>5. \A i, j \in S : Rank(S, i) = Rank(S, j) => i = j
  BY <1>2
<1> HIDE DEF at, f
<1>6. InOrder(S) = [k \in 1..N |-> at(k)]
  BY DEF InOrder, at
<1>7. \A i \in S : InOrder(S)[Rank(S, i)] = i
  BY <1>3, <1>4, <1>5, <1>6
<1>8. \A k, l \in 1..N : k < l => InOrder(S)[k] < InOrder(S)[l]
  <2> SUFFICES ASSUME NEW k \in 1..N, NEW l \in 1..N, k < l PROVE at(k) < at(l)
    BY <1>6
  <2>1. at(k) = at(l) => k = l
    BY <1>3
  <2>2. at(l) < at(k) => l < k
    BY <1>3, RankGrows
  <2>3. at(k) \in Nat /\ at(l) \in Nat
    BY <1>3
  <2> QED
    BY <2>1, <2>2, <2>3
<1> QED
  BY <1>1, <1>3, <1>4, <1>6, <1>7, <1>8

\* What has each place once and grows is InOrder(S).
LEMMA OrderIsUnique ==
  ASSUME NEW S, IsFiniteSet(S), S \subseteq Nat, NEW n \in Nat, NEW s \in [1..n -> S],
         \A k, l \in 1..n : k < l => s[k] < s[l],
         \A i \in S : \E k \in 1..n : s[k] = i
  PROVE  n = Cardinality(S) /\ s = InOrder(S)
<1> DEFINE Upto(k) == {i \in S : i <= s[k]}
<1>0. \A k \in 1..n : s[k] \in Nat /\ s[k] \in S
  OBVIOUS
<1>1. \A k, l \in 1..n : s[k] <= s[l] <=> k <= l
  <2> TAKE k, l \in 1..n
  <2>1. k < l => s[k] < s[l]
    OBVIOUS
  <2>2. l < k => s[l] < s[k]
    OBVIOUS
  <2>3. s[k] \in Nat /\ s[l] \in Nat /\ k \in Nat /\ l \in Nat
    BY <1>0
  <2> QED
    BY <2>1, <2>2, <2>3
<1>2. \A k \in 1..n : Rank(S, s[k]) = k
  <2> TAKE k \in 1..n
  <2> DEFINE g == [l \in 1..k |-> s[l]]
  <2>1. g \in [1..k -> Upto(k)]
    BY <1>1
  <2>2. \A l, m \in 1..k : g[l] = g[m] => l = m
    <3> TAKE l, m \in 1..k
    <3>1. s[l] <= s[m] <=> l <= m
      BY <1>1
    <3>2. s[m] <= s[l] <=> m <= l
      BY <1>1
    <3>3. s[l] \in Nat /\ s[m] \in Nat
      BY <1>0
    <3> QED
      BY <3>1, <3>2, <3>3
  <2>3. \A i \in Upto(k) : \E l \in 1..k : g[l] = i
    BY <1>1
  <2> HIDE DEF g
  <2>4. g \in Bijection(1..k, Upto(k))
    BY <2>1, <2>2, <2>3, Fun_IsBij
  <2>5. ExistsBijection(1..k, Upto(k))
    BY <2>4 DEF ExistsBijection
  <2> QED
    BY <2>5, FS_CountingElements DEF Rank
<1>3. s \in Bijection(1..n, S)
  <2>1. \A l, m \in 1..n : s[l] = s[m] => l = m
    BY <1>1
  <2> QED
    BY <2>1, Fun_IsBij
<1>4. n = Cardinality(S)
  BY <1>3, FS_CountingElements DEF ExistsBijection
<1>5. \A k \in 1..n : InOrder(S)[k] = s[k]
  <2>1. \A i \in S : InOrder(S)[Rank(S, i)] = i
    BY InOrderProperties
  <2> QED
    BY <1>0, <1>2, <2>1
<1>6. InOrder(S) \in [1..n -> S]
  BY <1>4, InOrderProperties
<1> QED
  BY <1>4, <1>5, <1>6

\* The places of a text are a finite set.
LEMMA PlacesAreFinite ==
  ASSUME NEW n \in Nat, NEW S \in SUBSET (1..n)
  PROVE  IsFiniteSet(S) /\ S \subseteq Nat /\ Cardinality(S) \in Nat
<1>1. IsFiniteSet(1..n)
  BY FS_Interval
<1>2. S \subseteq 1..n
  OBVIOUS
<1>3. IsFiniteSet(S)
  BY <1>1, <1>2, FS_Subset
<1>4. Cardinality(S) \in Nat
  BY <1>3, FS_CardinalityType
<1>5. S \subseteq Nat
  BY <1>2
<1> QED
  BY <1>3, <1>4, <1>5

\* LastPlace(S) is the last of the places.
LEMMA LastPlaceOf ==
  ASSUME NEW n \in Nat, NEW S \in SUBSET (1..n), S # {}
  PROVE  LastPlace(S) \in S /\ \A j \in S : j <= LastPlace(S)
<1>1. S \in SUBSET (0..n)
  OBVIOUS
<1>2. \E i \in S : \A j \in S : j <= i
  BY <1>1, GreatestNumber
<1> QED
  BY <1>2 DEF LastPlace

\* FirstPlace(S) is the first of the places.
LEMMA FirstPlaceOf ==
  ASSUME NEW S \in SUBSET Nat, S # {}
  PROVE  FirstPlace(S) \in S /\ \A j \in S : FirstPlace(S) <= j
<1>1. \E i \in S : \A j \in S : i <= j
  BY LeastNumber
<1> QED
  BY <1>1 DEF FirstPlace

-----------------------------------------------------------------------------
(* Loops, and the parts of a text under some of its places.                *)

\* f has the states after each of n turns, from state a on.
IsLoop(f, n, R, a, step) ==
  /\ f \in [0..n -> R] /\ f[0] = a
  /\ \A k \in 1..n : f[k] = step[<<f[k - 1], k>>]

\* A loop of n turns, each of which makes a state of R of the last one.
LEMMA LoopExists ==
  ASSUME NEW n \in Nat, NEW R, NEW a \in R, NEW step \in [R \X (1..n) -> R]
  PROVE  \E f : IsLoop(f, n, R, a, step)
<1> DEFINE Loop(f, m) == IsLoop(f, m, R, a, step)
           Defined == {m \in Nat : m <= n => \E f : Loop(f, m)}
<1>1. 0 \in Defined
  <2>1. Loop([k \in 0..0 |-> a], 0)
    BY DEF IsLoop
  <2> QED
    BY <2>1
<1>2. ASSUME NEW m \in Nat, m + 1 <= n, NEW f, Loop(f, m) PROVE \E g : Loop(g, m + 1)
  <2> DEFINE next == step[<<f[m], m + 1>>]
             g == [k \in 0..(m + 1) |-> IF k <= m THEN f[k] ELSE next]
  <2>1. f[m] \in R /\ m + 1 \in 1..n
    BY <1>2 DEF IsLoop
  <2>2. next \in R
    BY <2>1
  <2> HIDE DEF next
  <2>3. g \in [0..(m + 1) -> R]
    BY <1>2, <2>2 DEF IsLoop
  <2>4. g[0] = a
    BY <1>2 DEF IsLoop
  <2>5. \A k \in 1..(m + 1) : g[k] = step[<<g[k - 1], k>>]
    <3> TAKE k \in 1..(m + 1)
    <3>1. CASE k \in 1..m
      <4>1. k \in 0..(m + 1) /\ k <= m /\ k - 1 \in 0..(m + 1) /\ k - 1 <= m
        BY <3>1
      <4>2. g[k] = f[k] /\ g[k - 1] = f[k - 1]
        BY <4>1
      <4>3. f[k] = step[<<f[k - 1], k>>]
        BY <1>2, <3>1 DEF IsLoop
      <4> HIDE DEF g
      <4> QED
        BY <4>2, <4>3
    <3>2. CASE k = m + 1
      <4>1. k \in 0..(m + 1) /\ ~(k <= m) /\ k - 1 = m /\ m \in 0..(m + 1) /\ m <= m
        BY <3>2
      <4>2. g[k] = next /\ g[k - 1] = f[m]
        BY <4>1
      <4> HIDE DEF g
      <4> QED
        BY <3>2, <4>2 DEF next
    <3> QED
      BY <3>1, <3>2
  <2> HIDE DEF g
  <2>6. Loop(g, m + 1)
    BY <2>3, <2>4, <2>5 DEF IsLoop
  <2> QED
    BY <2>6
<1> HIDE DEF Loop
<1>3. \A m \in Nat : m \in Defined => m + 1 \in Defined
  BY <1>2
<1>4. n \in Defined
  <2> HIDE DEF Defined
  <2> QED
    BY <1>1, <1>3, NumberInduction
<1> QED
  BY <1>4 DEF Loop

\* Where a loop along s stops.
LEMMA StopOf ==
  ASSUME NEW m \in Nat, NEW s \in [1..m -> Nat], Len(s) = m, NEW k \in 1..(m + 1), NEW end \in Nat
  PROVE  /\ Stop(s, k, end) \in k..(m + 1) /\ Stop(s, k, end) \in 1..(m + 1)
         /\ \A l \in k..(Stop(s, k, end) - 1) : l \in 1..m /\ s[l] < end
         /\ Stop(s, k, end) <= m => s[Stop(s, k, end)] >= end
<1> DEFINE stops == {l \in k..(m + 1) : l <= m => s[l] >= end}
           stop == Stop(s, k, end)
<1>1. stops \in SUBSET Nat /\ m + 1 \in stops
  OBVIOUS
<1>2. stop = FirstPlace(stops)
  BY DEF Stop
<1>3. stop \in stops /\ \A l \in stops : stop <= l
  <2> HIDE DEF stops, stop
  <2>1. stops # {}
    BY <1>1
  <2> QED
    BY <1>1, <1>2, <2>1, FirstPlaceOf
<1> HIDE DEF stop
<1>4. stop \in k..(m + 1) /\ (stop <= m => s[stop] >= end)
  BY <1>3
<1>5. ASSUME NEW l \in k..(stop - 1) PROVE l \in 1..m /\ s[l] < end
  <2>1. l \in 1..m /\ l \in k..(m + 1) /\ l < stop
    BY <1>4
  <2>2. l \notin stops
    BY <1>3, <1>4, <2>1
  <2>3. ~(s[l] >= end) /\ s[l] \in Nat
    BY <2>1, <2>2
  <2> QED
    BY <2>1, <2>3
<1>6. stop \in 1..(m + 1)
  BY <1>4
<1> QED
  BY <1>4, <1>5, <1>6 DEF stop

\* f has where each of n turns stops.
AreStops(f, s, m, ends, n) ==
  /\ f \in [0..n -> 1..(m + 1)] /\ f[0] = 1
  /\ \A c \in 1..n : f[c] = Stop(s, f[c - 1], ends[c])

\* Where a loop along s stops in each turn of a loop around it.
LEMMA StopsOf ==
  ASSUME NEW m \in Nat, NEW s \in [1..m -> Nat], Len(s) = m,
         NEW n \in Nat, NEW ends \in [1..n -> Nat], Len(ends) = n
  PROVE  AreStops(Stops(s, ends), s, m, ends, n)
<1> DEFINE R == 1..(m + 1)
           step == [x \in R \X (1..n) |-> Stop(s, x[1], ends[x[2]])]
           f == CHOOSE f : f = [c \in 0..Len(ends) |-> IF c = 0 THEN 1 ELSE Stop(s, f[c - 1], ends[c])]
<1>1. \A k \in R, c \in 1..n : Stop(s, k, ends[c]) \in R
  <2> TAKE k \in R, c \in 1..n
  <2>1. ends[c] \in Nat
    OBVIOUS
  <2> QED
    BY <2>1, StopOf
<1>2. step \in [R \X (1..n) -> R]
  BY <1>1
<1>3. 1 \in R
  OBVIOUS
<1>4. \A k \in R, c \in 1..n : step[<<k, c>>] = Stop(s, k, ends[c])
  OBVIOUS
<1> HIDE DEF step
<1>5. PICK g \in [0..n -> R] : g[0] = 1 /\ \A c \in 1..n : g[c] = step[<<g[c - 1], c>>]
  <2> HIDE DEF R
  <2>1. \E g : IsLoop(g, n, R, 1, step)
    BY <1>2, <1>3, LoopExists
  <2> QED
    BY <2>1 DEF IsLoop
<1>6. \A c \in 1..n : g[c] = Stop(s, g[c - 1], ends[c])
  <2> TAKE c \in 1..n
  <2>1. c - 1 \in 0..n
    OBVIOUS
  <2>2. g[c - 1] \in R
    BY <2>1
  <2> HIDE DEF R
  <2> QED
    BY <1>4, <1>5, <2>2
<1>7. g = [c \in 0..Len(ends) |-> IF c = 0 THEN 1 ELSE Stop(s, g[c - 1], ends[c])]
  <2> HIDE DEF R
  <2>1. \A c \in 0..n : g[c] = IF c = 0 THEN 1 ELSE Stop(s, g[c - 1], ends[c])
    <3> TAKE c \in 0..n
    <3>1. c = 0 \/ c \in 1..n
      OBVIOUS
    <3>2. c \in 1..n => c # 0
      OBVIOUS
    <3> QED
      BY <1>5, <1>6, <3>1, <3>2
  <2>2. g = [c \in 0..n |-> g[c]]
    OBVIOUS
  <2> QED
    BY <2>1, <2>2
<1>8. f = [c \in 0..Len(ends) |-> IF c = 0 THEN 1 ELSE Stop(s, f[c - 1], ends[c])]
  BY <1>7, Zenon
<1>9. Stops(s, ends) = f
  BY DEF Stops
<1> HIDE DEF f
<1>10. /\ f[0] = 1 /\ DOMAIN f = 0..n /\ f = [c \in 0..n |-> f[c]]
       /\ \A c \in 1..n : f[c] = Stop(s, f[c - 1], ends[c])
  <2>1. 0 \in 0..n /\ \A c \in 1..n : c \in 0..n /\ c # 0
    OBVIOUS
  <2> QED
    BY <1>8, <2>1
<1>11. \A c \in Nat : c <= n => f[c] \in R
  <2> DEFINE Good == {c \in Nat : c <= n => f[c] \in R}
  <2>1. 0 \in Good
    BY <1>3, <1>10
  <2>2. \A c \in Nat : c \in Good => c + 1 \in Good
    <3> SUFFICES ASSUME NEW c \in Nat, c \in Good, c + 1 <= n PROVE f[c + 1] \in R
      OBVIOUS
    <3>1. f[c] \in R
      OBVIOUS
    <3>2. c + 1 \in 1..n /\ (c + 1) - 1 = c
      OBVIOUS
    <3>3. f[c + 1] = Stop(s, f[c], ends[c + 1])
      BY <1>10, <3>2
    <3> HIDE DEF R
    <3> QED
      BY <1>1, <3>1, <3>2, <3>3
  <2> HIDE DEF Good
  <2>3. \A c \in Nat : c \in Good
    BY <2>1, <2>2, NumberInduction
  <2> QED
    BY <2>3 DEF Good
<1>12. f \in [0..n -> R]
  <2>1. \A c \in 0..n : f[c] \in R
    BY <1>11
  <2> HIDE DEF R
  <2> QED
    BY <1>10, <2>1
<1> HIDE DEF R
<1> QED
  BY <1>9, <1>10, <1>12 DEF R, AreStops

\* The ends of the parts under the places.
LEMMA PartEndsOf ==
  ASSUME NEW n \in Nat, NEW S \in SUBSET (1..n)
  PROVE  LET ends == PartEnds(S, n)
             count == Cardinality(S)
             at == InOrder(S) IN
         /\ count \in Nat /\ ends \in [1..count -> Nat] /\ Len(ends) = count
         /\ at \in [1..count -> S] /\ at \in [1..count -> Nat] /\ Len(at) = count
         /\ \A c \in 1..count : at[c] < ends[c] /\ ends[c] <= n + 1
         /\ \A c \in 1..count : c > 1 => c - 1 \in 1..count /\ ends[c - 1] = at[c]
         /\ \A c \in 1..count, i \in S : i < ends[c] <=> i <= at[c]
<1> DEFINE ends == PartEnds(S, n)
           count == Cardinality(S)
           at == InOrder(S)
<1>1. /\ count \in Nat /\ at \in [1..count -> S]
      /\ \A i \in S : \E k \in 1..count : at[k] = i
      /\ \A k, l \in 1..count : k < l => at[k] < at[l]
  <2>1. IsFiniteSet(S) /\ S \subseteq Nat
    BY PlacesAreFinite
  <2> QED
    BY <2>1, InOrderProperties
<1>2. ends = [c \in 1..count |-> IF c < count THEN at[c + 1] ELSE n + 1]
  BY DEF PartEnds
<1> HIDE DEF ends, count, at
<1>3. \A k \in 1..count : at[k] \in 1..n /\ at[k] \in S /\ at[k] \in Nat
  <2>1. \A i \in S : i \in 1..n /\ i \in Nat
    OBVIOUS
  <2>2. \A k \in 1..count : at[k] \in S
    BY <1>1
  <2> QED
    BY <2>1, <2>2
<1>4. \A c \in 1..count : c < count => c + 1 \in 1..count
  BY <1>1
<1>5. \A c \in 1..count : ends[c] \in Nat /\ at[c] < ends[c] /\ ends[c] <= n + 1
  <2> TAKE c \in 1..count
  <2>1. CASE c < count
    <3>1. ends[c] = at[c + 1] /\ c < c + 1 /\ c + 1 \in 1..count
      BY <1>2, <1>4, <2>1
    <3>2. at[c] < at[c + 1]
      BY <1>1, <3>1
    <3>3. at[c + 1] \in 1..n
      BY <1>3, <3>1
    <3> QED
      BY <3>1, <3>2, <3>3
  <2>2. CASE ~(c < count)
    <3>1. ends[c] = n + 1 /\ at[c] \in 1..n
      BY <1>2, <1>3, <2>2
    <3> QED
      BY <3>1
  <2> QED
    BY <2>1, <2>2
<1>6. \A c \in 1..count : c > 1 => c - 1 \in 1..count /\ ends[c - 1] = at[c]
  <2> SUFFICES ASSUME NEW c \in 1..count, c > 1 PROVE c - 1 \in 1..count /\ ends[c - 1] = at[c]
    OBVIOUS
  <2>1. c - 1 \in 1..count /\ c - 1 < count /\ (c - 1) + 1 = c
    BY <1>1
  <2> QED
    BY <1>2, <2>1
<1>7. \A c \in 1..count, i \in S : i < ends[c] <=> i <= at[c]
  <2> TAKE c \in 1..count, i \in S
  <2>1. PICK k \in 1..count : at[k] = i
    BY <1>1
  <2>2. i \in Nat /\ i <= n /\ at[c] \in Nat /\ ends[c] \in Nat /\ at[c] < ends[c]
    BY <1>3, <1>5, <2>1
  <2>3. ASSUME i < ends[c], ~(i <= at[c]) PROVE FALSE
    <3>1. k > c
      <4>1. k < c => at[k] < at[c]
        BY <1>1
      <4>2. k = c => at[k] = at[c]
        OBVIOUS
      <4> QED
        BY <1>1, <2>1, <2>2, <2>3, <4>1, <4>2
    <3>2. c < count /\ c + 1 \in 1..count /\ c + 1 <= k
      BY <1>1, <3>1
    <3>3. ends[c] = at[c + 1]
      BY <1>2, <3>2
    <3>4. c + 1 < k => at[c + 1] < at[k]
      BY <1>1, <3>2
    <3>5. c + 1 = k \/ c + 1 < k
      BY <1>1, <3>2
    <3> QED
      BY <2>1, <2>2, <2>3, <3>3, <3>4, <3>5
  <2> QED
    BY <2>2, <2>3
<1>8. ends \in [1..count -> Nat] /\ at \in [1..count -> Nat]
  <2>1. ends = [c \in 1..count |-> ends[c]] /\ at = [c \in 1..count |-> at[c]]
    <3>1. DOMAIN ends = 1..count
      BY <1>2
    <3>2. ends = [c \in 1..count |-> ends[c]]
      BY <1>2, <3>1
    <3> QED
      BY <1>1, <3>2
  <2> QED
    BY <1>3, <1>5, <2>1
<1>9. Len(ends) = count /\ Len(at) = count
  <2>1. ends \in Seq(Nat) /\ at \in Seq(Nat)
    BY <1>1, <1>8, SeqDef
  <2>2. DOMAIN ends = 1..count /\ DOMAIN at = 1..count
    BY <1>8
  <2> QED
    BY <1>1, <2>1, <2>2, LenProperties
<1> QED
  BY <1>1, <1>5, <1>6, <1>7, <1>8, <1>9 DEF ends, count, at

\* A loop along the places R, with the parts under the places S around it, comes
\* in each turn to those of its part, and in the first to those before it as well.
LEMMA PlacesOfParts ==
  ASSUME NEW n \in Nat, NEW S \in SUBSET (1..n), NEW R \in SUBSET (1..n)
  PROVE  LET ends == PartEnds(S, n)
             count == Cardinality(S)
             at == InOrder(S)
             s == InOrder(R)
             stop == Stops(s, ends) IN
         \A c \in 1..count :
           /\ \A k \in stop[c - 1]..(stop[c] - 1) :
                k \in 1..Cardinality(R) /\ s[k] \in R /\ (c = 1 \/ at[c] <= s[k]) /\ s[k] < ends[c]
           /\ \A r \in R : (c = 1 \/ at[c] <= r) /\ r < ends[c] =>
                \E k \in stop[c - 1]..(stop[c] - 1) : s[k] = r
<1> DEFINE ends == PartEnds(S, n)
           count == Cardinality(S)
           at == InOrder(S)
           s == InOrder(R)
           m == Cardinality(R)
           stop == Stops(s, ends)
<1>1. /\ count \in Nat /\ ends \in [1..count -> Nat] /\ Len(ends) = count
      /\ at \in [1..count -> Nat]
      /\ \A c \in 1..count : at[c] < ends[c]
      /\ \A c \in 1..count : c > 1 => c - 1 \in 1..count /\ ends[c - 1] = at[c]
  BY PartEndsOf
<1>2. m \in Nat /\ s \in [1..m -> R] /\ s \in [1..m -> Nat] /\ Len(s) = m
  BY PartEndsOf
<1>3. /\ \A i \in R : \E k \in 1..m : s[k] = i
      /\ \A k, l \in 1..m : k < l => s[k] < s[l]
  <2>1. IsFiniteSet(R) /\ R \subseteq Nat
    BY PlacesAreFinite
  <2> QED
    BY <2>1, InOrderProperties
<1> HIDE DEF ends, count, at, s, m
<1>4. /\ stop \in [0..count -> 1..(m + 1)] /\ stop[0] = 1
      /\ \A c \in 1..count : stop[c] = Stop(s, stop[c - 1], ends[c])
  <2>1. /\ count \in Nat /\ ends \in [1..count -> Nat] /\ Len(ends) = count
        /\ m \in Nat /\ s \in [1..m -> Nat] /\ Len(s) = m
    BY <1>1, <1>2
  <2>2. AreStops(stop, s, m, ends, count)
    BY <2>1, StopsOf
  <2> QED
    BY <2>2 DEF AreStops
<1> HIDE DEF stop
<1> DEFINE Turned(c) == \A k \in 1..m : k < stop[c] <=> s[k] < ends[c]
<1>5. ASSUME NEW c \in 1..count, c = 1 \/ Turned(c - 1)
      PROVE  /\ stop[c - 1] \in 1..(m + 1) /\ stop[c] \in 1..(m + 1)
             /\ \A k \in 1..m : k < stop[c - 1] => c > 1 /\ s[k] < at[c]
             /\ \A k \in 1..m : ~(k < stop[c - 1]) => c = 1 \/ at[c] <= s[k]
             /\ Turned(c)
  <2>1. c - 1 \in 0..count /\ c \in 0..count
    BY <1>1
  <2>2. stop[c - 1] \in 1..(m + 1) /\ stop[c] \in 1..(m + 1)
    BY <1>4, <2>1
  <2>3. ends[c] \in Nat /\ at[c] \in Nat /\ at[c] < ends[c]
    BY <1>1
  <2>4. /\ stop[c - 1] <= stop[c]
        /\ \A k \in stop[c - 1]..(stop[c] - 1) : k \in 1..m /\ s[k] < ends[c]
        /\ stop[c] <= m => s[stop[c]] >= ends[c]
    <3>1. stop[c] = Stop(s, stop[c - 1], ends[c])
      BY <1>4
    <3>2. m \in Nat /\ s \in [1..m -> Nat] /\ Len(s) = m
      BY <1>2
    <3> DEFINE k0 == stop[c - 1]
               end == ends[c]
    <3>3. k0 \in 1..(m + 1) /\ end \in Nat
      BY <2>2, <2>3
    <3> HIDE DEF k0, end
    <3>4. /\ Stop(s, k0, end) \in k0..(m + 1)
          /\ \A l \in k0..(Stop(s, k0, end) - 1) : l \in 1..m /\ s[l] < end
          /\ Stop(s, k0, end) <= m => s[Stop(s, k0, end)] >= end
      BY ONLY <3>2, <3>3, StopOf
    <3>5. k0 <= Stop(s, k0, end)
      BY <3>3, <3>4
    <3> QED
      BY <3>1, <3>4, <3>5 DEF k0, end
  <2>5. ASSUME NEW k \in 1..m, k < stop[c - 1] PROVE c > 1 /\ s[k] < at[c]
    <3>1. c # 1
      BY <1>2, <1>4, <2>5
    <3>2. c > 1 /\ ends[c - 1] = at[c]
      BY <1>1, <3>1
    <3> QED
      BY <1>5, <2>5, <3>1, <3>2
  <2>6. ASSUME NEW k \in 1..m, ~(k < stop[c - 1]), c # 1 PROVE at[c] <= s[k]
    <3>1. ends[c - 1] = at[c]
      BY <1>1, <2>6
    <3>2. ~(s[k] < at[c]) /\ s[k] \in Nat
      BY <1>2, <1>5, <2>6, <3>1
    <3> QED
      BY <2>3, <3>2
  <2>7. Turned(c)
    <3> TAKE k \in 1..m
    <3>1. s[k] \in Nat
      BY <1>2
    <3>2. CASE k < stop[c - 1]
      BY <2>2, <2>3, <2>4, <2>5, <3>1, <3>2, <1>2
    <3>3. CASE ~(k < stop[c - 1]) /\ k < stop[c]
      <4>1. k \in stop[c - 1]..(stop[c] - 1)
        BY <1>2, <2>2, <3>3
      <4> QED
        BY <2>4, <3>3, <4>1
    <3>4. CASE ~(k < stop[c])
      <4>1. stop[c] \in 1..m
        BY <1>2, <2>2, <3>4
      <4>2. s[stop[c]] >= ends[c] /\ s[stop[c]] \in Nat
        BY <1>2, <2>4, <4>1
      <4>3. k = stop[c] \/ stop[c] < k
        BY <1>2, <2>2, <3>4
      <4>4. stop[c] < k => s[stop[c]] < s[k]
        BY <1>3, <4>1
      <4>5. ~(s[k] < ends[c])
        BY <2>3, <3>1, <4>2, <4>3, <4>4
      <4> QED
        BY <3>4, <4>5
    <3> QED
      BY <3>2, <3>3, <3>4
  <2> HIDE DEF Turned
  <2> QED
    BY <2>2, <2>5, <2>6, <2>7
<1> HIDE DEF Turned
<1>6. \A c \in 1..count : Turned(c)
  <2> DEFINE Good == {c \in Nat : c = 0 \/ (c <= count => Turned(c))}
  <2>1. 0 \in Good
    OBVIOUS
  <2>2. \A c \in Nat : c \in Good => c + 1 \in Good
    <3> SUFFICES ASSUME NEW c \in Nat, c \in Good, c + 1 <= count PROVE Turned(c + 1)
      OBVIOUS
    <3>1. c + 1 \in 1..count /\ (c + 1) - 1 = c /\ (c + 1 = 1 \/ (c # 0 /\ c <= count))
      BY <1>1
    <3> QED
      BY <1>5, <3>1
  <2> HIDE DEF Good
  <2>3. \A c \in Nat : c \in Good
    BY <2>1, <2>2, NumberInduction
  <2> QED
    BY <1>1, <2>3 DEF Good
<1>7. ASSUME NEW c \in 1..count
      PROVE  /\ \A k \in stop[c - 1]..(stop[c] - 1) :
                  k \in 1..m /\ s[k] \in R /\ (c = 1 \/ at[c] <= s[k]) /\ s[k] < ends[c]
             /\ \A r \in R : (c = 1 \/ at[c] <= r) /\ r < ends[c] =>
                  \E k \in stop[c - 1]..(stop[c] - 1) : s[k] = r
  <2>1. c = 1 \/ c - 1 \in 1..count
    BY <1>1
  <2>2. /\ stop[c - 1] \in 1..(m + 1) /\ stop[c] \in 1..(m + 1)
        /\ \A k \in 1..m : k < stop[c - 1] => c > 1 /\ s[k] < at[c]
        /\ \A k \in 1..m : ~(k < stop[c - 1]) => c = 1 \/ at[c] <= s[k]
        /\ Turned(c)
    BY <1>5, <1>6, <2>1
  <2>3. ASSUME NEW k \in stop[c - 1]..(stop[c] - 1)
        PROVE  k \in 1..m /\ s[k] \in R /\ (c = 1 \/ at[c] <= s[k]) /\ s[k] < ends[c]
    <3>1. k \in 1..m /\ ~(k < stop[c - 1]) /\ k < stop[c]
      BY <1>2, <2>2
    <3> QED
      BY <1>2, <2>2, <3>1 DEF Turned
  <2>4. ASSUME NEW r \in R, c = 1 \/ at[c] <= r, r < ends[c]
        PROVE  \E k \in stop[c - 1]..(stop[c] - 1) : s[k] = r
    <3>1. PICK k \in 1..m : s[k] = r
      BY <1>3
    <3>2. k < stop[c]
      BY <2>2, <2>4, <3>1 DEF Turned
    <3>3. r \in Nat /\ at[c] \in Nat
      BY <1>1
    <3>4. ~(k < stop[c - 1])
      BY <2>2, <2>4, <3>1, <3>3
    <3>5. k \in stop[c - 1]..(stop[c] - 1)
      BY <1>2, <2>2, <3>2, <3>4
    <3> QED
      BY <3>1, <3>5
  <2> QED
    BY <2>3, <2>4
<1> QED
  BY <1>7 DEF ends, count, at, s, m, stop

-----------------------------------------------------------------------------
(* Schedules: the class numbers and what rooms are theirs.                 *)

\* Each of what s has is in Unique(s) once, in the order of where it is first.
\* u has what s has, once each, in the order of its first places in s.
HasEachOnce(u, s, n, X) ==
  /\ u \in Seq(X) /\ Range(u) = Range(s)
  /\ \A p, q \in 1..Len(u) : p < q =>
       \E a \in 1..n : s[a] = u[p] /\ \A b \in 1..n : s[b] = u[q] => a < b

\* Unique leaves out what was seen before, and nothing else.
LEMMA UniqueOf ==
  ASSUME NEW X, NEW n \in Nat, NEW s \in [1..n -> X]
  PROVE  HasEachOnce(Unique(s), s, n, X)
<1> DEFINE Turn(u, k) == IF s[k] \in Range(u) THEN u ELSE Append(u, s[k])
           R == Seq(X)
           step == [x \in R \X (1..n) |-> Turn(x[1], x[2])]
           f == CHOOSE f : f = [k \in 0..Len(s) |->
                  IF k = 0 THEN <<>> ELSE IF s[k] \in Range(f[k - 1]) THEN f[k - 1] ELSE Append(f[k - 1], s[k])]
<1>0. Len(s) = n
  <2>1. s \in Seq(X) /\ DOMAIN s = 1..n
    BY SeqDef
  <2> QED
    BY <2>1, LenProperties
<1>1. \A u \in R, k \in 1..n : Turn(u, k) \in R
  <2> TAKE u \in R, k \in 1..n
  <2>1. s[k] \in X
    OBVIOUS
  <2> QED
    BY <2>1
<1>2. step \in [R \X (1..n) -> R] /\ <<>> \in R
  <2> HIDE DEF Turn
  <2>1. <<>> \in R
    OBVIOUS
  <2> HIDE DEF R
  <2> QED
    BY <1>1, <2>1
<1>3. \A u \in R, k \in 1..n : step[<<u, k>>] = Turn(u, k)
  <2> HIDE DEF R, Turn
  <2> QED
    OBVIOUS
<1> HIDE DEF step, Turn, R
<1>4. PICK g : IsLoop(g, n, R, <<>>, step)
  BY <1>2, LoopExists
<1>5. \A k \in 0..n : g[k] = IF k = 0 THEN <<>> ELSE Turn(g[k - 1], k)
  <2> TAKE k \in 0..n
  <2>1. CASE k = 0
    BY <1>4, <2>1 DEF IsLoop
  <2>2. CASE k \in 1..n
    <3>1. k - 1 \in 0..n /\ k # 0
      BY <2>2
    <3>2. g[k - 1] \in R /\ g[k] = step[<<g[k - 1], k>>]
      BY <1>4, <2>2, <3>1 DEF IsLoop
    <3> QED
      BY <1>3, <2>2, <3>1, <3>2
  <2> QED
    BY <2>1, <2>2
<1>6. g = [k \in 0..Len(s) |->
             IF k = 0 THEN <<>> ELSE IF s[k] \in Range(g[k - 1]) THEN g[k - 1] ELSE Append(g[k - 1], s[k])]
  <2>1. g = [k \in 0..n |-> g[k]]
    BY <1>4 DEF IsLoop
  <2>2. g = [k \in 0..n |-> IF k = 0 THEN <<>> ELSE Turn(g[k - 1], k)]
    BY <1>5, <2>1
  <2> QED
    BY <1>0, <2>2 DEF Turn
<1>7. f = [k \in 0..Len(s) |->
             IF k = 0 THEN <<>> ELSE IF s[k] \in Range(f[k - 1]) THEN f[k - 1] ELSE Append(f[k - 1], s[k])]
  BY <1>6, Zenon
<1>8. Unique(s) = f[n]
  BY <1>0 DEF Unique
<1> HIDE DEF f
<1>9. f[0] = <<>> /\ \A k \in 1..n : f[k] = Turn(f[k - 1], k)
  <2>1. 0 \in 0..n /\ \A k \in 1..n : k \in 0..n /\ k # 0
    OBVIOUS
  <2>2. f = [k \in 0..n |-> IF k = 0 THEN <<>> ELSE Turn(f[k - 1], k)]
    BY <1>0, <1>7 DEF Turn
  <2> QED
    BY <2>1, <2>2
<1> DEFINE Seen(u, k) ==
             /\ u \in Seq(X) /\ Range(u) = {s[a] : a \in 1..k}
             /\ \A p, q \in 1..Len(u) : p < q =>
                  \E a \in 1..k : s[a] = u[p] /\ \A b \in 1..n : s[b] = u[q] => a < b
<1>10. Seen(<<>>, 0)
  <2>1. <<>> \in Seq(X) /\ Len(<<>>) = 0 /\ DOMAIN <<>> = {} /\ 1..0 = {}
    OBVIOUS
  <2> QED
    BY <2>1 DEF Range
<1>11. ASSUME NEW k \in 1..n, NEW u, Seen(u, k - 1) PROVE Seen(Turn(u, k), k)
  <2>1. /\ k \in 1..k /\ (\A a \in 1..(k - 1) : a \in 1..k /\ a \in 1..n)
        /\ \A a \in 1..n : a < k => a \in 1..(k - 1)
        /\ \A a \in 1..k : a = k \/ a \in 1..(k - 1)
    OBVIOUS
  <2>2. CASE s[k] \in Range(u)
    <3>1. Turn(u, k) = u
      BY <2>2 DEF Turn
    <3>2. Range(u) = {s[a] : a \in 1..k}
      <4>1. \A x \in {s[a] : a \in 1..k} : x \in Range(u)
        BY <1>11, <2>1, <2>2
      <4>2. \A x \in Range(u) : x \in {s[a] : a \in 1..k}
        BY <1>11, <2>1
      <4> QED
        BY <4>1, <4>2
    <3>3. \A p, q \in 1..Len(u) : p < q =>
            \E a \in 1..k : s[a] = u[p] /\ \A b \in 1..n : s[b] = u[q] => a < b
      BY <1>11, <2>1
    <3> QED
      BY <1>11, <3>1, <3>2, <3>3
  <2>3. CASE s[k] \notin Range(u)
    <3> DEFINE t == Append(u, s[k])
               m == Len(u)
    <3>1. Turn(u, k) = t
      BY <2>3 DEF Turn
    <3>2. u \in Seq(X) /\ s[k] \in X
      BY <1>11
    <3>3. /\ t \in Seq(X) /\ Len(t) = m + 1 /\ DOMAIN t = 1..(m + 1) /\ m \in Nat /\ DOMAIN u = 1..m
          /\ \A p \in 1..m : t[p] = u[p]
          /\ t[m + 1] = s[k]
      BY <3>2
    <3> HIDE DEF t, m
    <3>4. /\ m + 1 \in 1..(m + 1) /\ (\A p \in 1..m : p \in 1..(m + 1))
          /\ \A p \in 1..(m + 1) : p \in 1..m \/ p = m + 1
      BY <3>3
    <3>5. Range(t) = Range(u) \cup {s[k]}
      BY <3>3, <3>4 DEF Range
    <3>6. Range(t) = {s[a] : a \in 1..k}
      <4>1. Range(u) = {s[a] : a \in 1..(k - 1)}
        BY <1>11
      <4> QED
        BY <2>1, <3>5, <4>1
    <3>7. ASSUME NEW p \in 1..(m + 1), NEW q \in 1..(m + 1), p < q
          PROVE  \E a \in 1..k : s[a] = t[p] /\ \A b \in 1..n : s[b] = t[q] => a < b
      <4>1. p \in 1..m /\ t[p] = u[p]
        BY <3>3, <3>7
      <4>2. CASE q \in 1..m
        <5>1. t[q] = u[q]
          BY <3>3, <4>2
        <5>2. \E a \in 1..(k - 1) : s[a] = u[p] /\ \A b \in 1..n : s[b] = u[q] => a < b
          BY <1>11, <3>7, <4>1, <4>2 DEF m
        <5> QED
          BY <2>1, <4>1, <5>1, <5>2
      <4>3. CASE q = m + 1
        <5>1. u[p] \in Range(u)
          BY <3>3, <4>1 DEF Range
        <5>2. PICK a \in 1..(k - 1) : s[a] = u[p]
          BY <1>11, <5>1
        <5>3. ASSUME NEW b \in 1..n, s[b] = s[k], ~(a < b) PROVE FALSE
          <6>1. b < k
            BY <5>3
          <6>2. b \in 1..(k - 1)
            BY <2>1, <6>1
          <6>3. s[b] \in Range(u)
            BY <1>11, <6>2
          <6> QED
            BY <2>3, <5>3, <6>3
        <5>4. t[q] = s[k] /\ s[a] = t[p] /\ a \in 1..k
          BY <2>1, <3>3, <4>1, <4>3, <5>2
        <5> QED
          BY <5>3, <5>4
      <4> QED
        BY <3>4, <4>2, <4>3
    <3> QED
      BY <3>1, <3>3, <3>6, <3>7
  <2> QED
    BY <2>2, <2>3
<1> HIDE DEF Seen
<1>12. Seen(f[n], n)
  <2> DEFINE Good == {k \in Nat : k <= n => Seen(f[k], k)}
  <2>1. 0 \in Good
    BY <1>9, <1>10
  <2>2. \A k \in Nat : k \in Good => k + 1 \in Good
    <3> SUFFICES ASSUME NEW k \in Nat, k \in Good, k + 1 <= n PROVE Seen(f[k + 1], k + 1)
      OBVIOUS
    <3>1. k + 1 \in 1..n /\ (k + 1) - 1 = k /\ Seen(f[k], k)
      OBVIOUS
    <3>2. f[k + 1] = Turn(f[k], k + 1)
      BY <1>9, <3>1
    <3> QED
      BY <1>11, <3>1, <3>2
  <2> HIDE DEF Good
  <2>3. \A k \in Nat : k \in Good
    BY <2>1, <2>2, NumberInduction
  <2> QED
    BY <2>3 DEF Good
<1>13. Range(s) = {s[a] : a \in 1..n}
  BY DEF Range
<1> QED
  BY <1>8, <1>12, <1>13 DEF Seen, HasEachOnce

\* A number is found unless the line before it was.
LEMMA ClassNumbersOf ==
  ASSUME NEW text \in Seq(ScheduleLine)
  PROVE  /\ ClassNumbers(text) \in SUBSET (1..Len(text))
         /\ \A i \in 1..Len(text) : i \in ClassNumbers(text) <=>
              i > 1 /\ i < Len(text) /\ IsNumber(text[i]) /\ i - 1 \notin ClassNumbers(text)
<1> DEFINE n == Len(text)
           Inside(i) == i > 1 /\ i < Len(text) /\ IsNumber(text[i])
           step == [x \in BOOLEAN \X (1..n) |-> Inside(x[2]) /\ ~x[1]]
           f == CHOOSE f : f = [i \in 0..Len(text) |-> i > 1 /\ i < Len(text) /\ IsNumber(text[i]) /\ ~f[i - 1]]
<1>0. n \in Nat
  OBVIOUS
<1>1. ClassNumbers(text) = {i \in 1..Len(text) : f[i]}
  BY DEF ClassNumbers
<1> HIDE DEF f
<1>2. Inside(0) = FALSE
  OBVIOUS
<1> HIDE DEF Inside
<1>3. step \in [BOOLEAN \X (1..n) -> BOOLEAN] /\ \A b \in BOOLEAN, k \in 1..n : step[<<b, k>>] = (Inside(k) /\ ~b)
  <2>1. \A x \in BOOLEAN \X (1..n) : (Inside(x[2]) /\ ~x[1]) \in BOOLEAN
    OBVIOUS
  <2> QED
    BY <2>1
<1> HIDE DEF step, n
<1>4. PICK g : IsLoop(g, n, BOOLEAN, FALSE, step)
  BY <1>0, <1>3, LoopExists
<1>5. \A k \in 0..n : g[k] = (Inside(k) /\ ~g[k - 1])
  <2> TAKE k \in 0..n
  <2>1. CASE k = 0
    BY <1>2, <1>4, <2>1 DEF IsLoop
  <2>2. CASE k \in 1..n
    <3>1. k - 1 \in 0..n
      BY <1>0, <2>2
    <3>2. g[k - 1] \in BOOLEAN /\ g[k] = step[<<g[k - 1], k>>]
      BY <1>4, <2>2, <3>1 DEF IsLoop
    <3> QED
      BY <1>3, <2>2, <3>2
  <2> QED
    BY <1>0, <2>1, <2>2
<1>6. g = [i \in 0..n |-> Inside(i) /\ ~g[i - 1]]
  <2>1. g = [k \in 0..n |-> g[k]]
    BY <1>4 DEF IsLoop
  <2> QED
    BY <1>5, <2>1
<1>7. g = [i \in 0..Len(text) |-> i > 1 /\ i < Len(text) /\ IsNumber(text[i]) /\ ~g[i - 1]]
  BY <1>6 DEF n, Inside
<1>8. f = [i \in 0..Len(text) |-> i > 1 /\ i < Len(text) /\ IsNumber(text[i]) /\ ~f[i - 1]]
  BY <1>7, Zenon DEF f
<1>9. \A i \in 1..n : f[i] <=> i > 1 /\ i < n /\ IsNumber(text[i]) /\ ~f[i - 1]
  <2>1. \A i \in 1..n : i \in 0..n
    BY <1>0
  <2> QED
    BY <1>8, <2>1 DEF n
<1> QED
  <2> SUFFICES ASSUME NEW i \in 1..n
               PROVE  f[i] <=> i > 1 /\ i < n /\ IsNumber(text[i]) /\ ~(i - 1 \in 1..n /\ f[i - 1])
    BY <1>1 DEF n
  <2>1. i > 1 => i - 1 \in 1..n
    BY <1>0
  <2> QED
    BY <1>9, <2>1

\* The classes of a schedule have their rooms, of every text.
LEMMA ClassesOfText ==
  ASSUME NEW text \in Seq(ScheduleLine)
  PROVE  ClassesHaveTheirRooms(text)
<1> DEFINE n == Len(text)
           S == ClassNumbers(text)
           R == Classrooms(text)
           count == Cardinality(S)
           at == InOrder(S)
           s == InOrder(R)
           ends == PartEnds(S, n)
           stop == Stops(s, ends)
           got == Classes(text)
           Lines(c) == LinesOfRooms(s, stop[c - 1], stop[c] - 1, at[c])
           RoomsUnder(c) == {i \in R : UnderNumber(text, at[c], i)}
<1>1. n \in Nat /\ S \in SUBSET (1..n) /\ R \in SUBSET (1..n)
  BY ClassNumbersOf DEF Classrooms
<1>2. \A i \in 1..n : i \in S <=> i > 1 /\ i < n /\ IsNumber(text[i]) /\ i - 1 \notin S
  BY ClassNumbersOf
<1>3. \A i \in 1..n : StandsApart(text, i) => i \in S
  <2> SUFFICES ASSUME NEW i \in 1..n, StandsApart(text, i) PROVE i \in S
    OBVIOUS
  <2>1. i > 1 /\ i < n /\ IsNumber(text[i]) /\ ~IsNumber(text[i - 1])
    BY DEF StandsApart
  <2>2. i - 1 \in 1..n
    BY <1>1, <2>1
  <2>3. i - 1 \notin S
    BY <1>2, <2>1, <2>2
  <2> QED
    BY <1>2, <2>1, <2>3
<1>4. \A i \in 2..(n - 1) : IsNumber(text[i]) => {i - 1, i} \cap S # {}
  <2> SUFFICES ASSUME NEW i \in 2..(n - 1), IsNumber(text[i]), i - 1 \notin S PROVE i \in S
    OBVIOUS
  <2>1. i \in 1..n /\ i > 1 /\ i < n
    BY <1>1
  <2> QED
    BY <1>2, <2>1
<1>5. \A i \in S : i + 1 \notin S
  <2> SUFFICES ASSUME NEW i \in S, i + 1 \in S PROVE FALSE
    OBVIOUS
  <2>1. i + 1 \in 1..n /\ (i + 1) - 1 = i
    BY <1>1
  <2> QED
    BY <1>2, <2>1
<1>6. /\ count \in Nat /\ at \in [1..count -> S] /\ at \in [1..count -> Nat] /\ Len(at) = count
      /\ ends \in [1..count -> Nat]
      /\ \A c \in 1..count : at[c] < ends[c] /\ ends[c] <= n + 1
      /\ \A c \in 1..count, i \in S : i < ends[c] <=> i <= at[c]
  <2> HIDE DEF n, S
  <2> QED
    BY <1>1, PartEndsOf
<1>7. \A c \in 1..count :
        /\ \A k \in stop[c - 1]..(stop[c] - 1) :
             k \in 1..Cardinality(R) /\ s[k] \in R /\ (c = 1 \/ at[c] <= s[k]) /\ s[k] < ends[c]
        /\ \A r \in R : (c = 1 \/ at[c] <= r) /\ r < ends[c] => \E k \in stop[c - 1]..(stop[c] - 1) : s[k] = r
  <2> HIDE DEF n, S, R
  <2> QED
    BY <1>1, PlacesOfParts
<1>8. got = [c \in 1..Len(at) |-> [number |-> text[at[c]].number, location |-> Locations(text, Lines(c))]]
  BY DEF Classes
<1> HIDE DEF got, stop, ends, s, at, count, R, S, n
<1>9. Len(got) = count /\ \A c \in 1..count :
        got[c].number = text[at[c]].number /\ got[c].location = Locations(text, Lines(c))
  <2> DEFINE class(c) == [number |-> text[at[c]].number, location |-> Locations(text, Lines(c))]
  <2>1. got = [c \in 1..count |-> class(c)]
    BY <1>6, <1>8
  <2>2. \A c \in 1..count : class(c).number = text[at[c]].number /\ class(c).location = Locations(text, Lines(c))
    OBVIOUS
  <2> HIDE DEF class
  <2> DEFINE C == {class(c) : c \in 1..count}
  <2>3. got \in [1..count -> C]
    BY <2>1
  <2> HIDE DEF C
  <2>4. got \in Seq(C) /\ DOMAIN got = 1..count
    BY <1>6, <2>3, SeqDef
  <2>5. Len(got) = count
    BY <1>6, <2>4, LenProperties
  <2>6. \A c \in 1..count : got[c] = class(c)
    BY <2>1
  <2> QED
    BY <2>2, <2>5, <2>6
<1>10. \A c \in 1..count : Lines(c) = RoomsUnder(c)
  <2> TAKE c \in 1..count
  <2>1. at[c] \in Nat /\ ends[c] \in Nat /\ at[c] < ends[c] /\ (c = 1 \/ c > 1) /\ at[c] \in S
    BY <1>6
  <2>2. \A i \in R : i \in Nat /\ i <= n
    BY <1>1
  <2>3. \A i \in R : UnderNumber(text, at[c], i) <=> at[c] <= i /\ i < ends[c]
    <3> TAKE i \in R
    <3>1. UnderNumber(text, at[c], i) <=> at[c] <= i /\ ~\E j \in S : at[c] < j /\ j <= i
      BY DEF UnderNumber, S
    <3>2. ASSUME i < ends[c], NEW j \in S, at[c] < j, j <= i PROVE FALSE
      <4>1. j \in Nat /\ i \in Nat
        BY <1>1, <2>2
      <4>2. j < ends[c]
        BY <2>1, <3>2, <4>1
      <4>3. j <= at[c]
        BY <1>6, <4>2
      <4> QED
        BY <2>1, <3>2, <4>1, <4>3
    <3>3. ASSUME ~(i < ends[c]) PROVE \E j \in S : at[c] < j /\ j <= i
      <4>1. ends[c] # n + 1
        BY <1>1, <2>1, <2>2, <3>3
      <4>2. c < count
        BY <1>6, <4>1 DEF ends, PartEnds, count
      <4>3. ends[c] = at[c + 1] /\ c + 1 \in 1..count
        BY <1>6, <4>2 DEF ends, PartEnds, count, at
      <4>4. at[c + 1] \in S /\ at[c] < at[c + 1] /\ at[c + 1] <= i
        <5>1. at[c + 1] \in S
          BY <1>6, <4>3
        <5>2. at[c] < at[c + 1]
          BY <2>1, <4>3
        <5>3. i \in Nat
          BY <2>2
        <5> QED
          BY <2>1, <3>3, <4>3, <5>1, <5>2, <5>3
      <4> QED
        BY <4>4
    <3> QED
      BY <3>1, <3>2, <3>3
  <2>4. ASSUME NEW r \in Lines(c) PROVE r \in RoomsUnder(c)
    <3>1. PICK k \in stop[c - 1]..(stop[c] - 1) : s[k] >= at[c] /\ r = s[k]
      BY DEF LinesOfRooms
    <3>2. r \in R /\ r < ends[c]
      BY <1>7, <3>1
    <3>3. at[c] <= r
      BY <2>1, <2>2, <3>1, <3>2
    <3> QED
      BY <2>3, <3>2, <3>3
  <2>5. ASSUME NEW r \in RoomsUnder(c) PROVE r \in Lines(c)
    <3>1. r \in R /\ at[c] <= r /\ r < ends[c]
      BY <2>3
    <3>2. PICK k \in stop[c - 1]..(stop[c] - 1) : s[k] = r
      BY <1>7, <3>1
    <3>3. s[k] >= at[c]
      BY <2>1, <2>2, <3>1, <3>2
    <3> QED
      BY <3>2, <3>3 DEF LinesOfRooms
  <2> HIDE DEF Lines, RoomsUnder
  <2> QED
    BY <2>4, <2>5
<1> HIDE DEF Lines
<1>11. ASSUME NEW c \in 1..count
       PROVE  /\ Range(got[c].location) = {RoomOn(text, i) : i \in RoomsUnder(c)}
              /\ \A k, l \in 1..Len(got[c].location) :
                   k < l => \E i \in RoomsUnder(c) :
                              /\ RoomOn(text, i) = got[c].location[k]
                              /\ \A j \in RoomsUnder(c) : RoomOn(text, j) = got[c].location[l] => i < j
  <2> DEFINE lines == RoomsUnder(c)
             m == Cardinality(lines)
             place == InOrder(lines)
             X == {RoomOn(text, i) : i \in lines}
             t == [k \in 1..m |-> RoomOn(text, place[k])]
             u == Unique(t)
  <2>1. lines \in SUBSET (1..n)
    BY <1>1
  <2> HIDE DEF lines
  <2>2. /\ m \in Nat /\ place \in [1..m -> lines]
        /\ \A i \in lines : Rank(lines, i) \in 1..m /\ place[Rank(lines, i)] = i
        /\ \A k, l \in 1..m : k < l => place[k] < place[l]
    <3>1. IsFiniteSet(lines) /\ lines \subseteq Nat
      BY <1>1, <2>1, PlacesAreFinite
    <3> QED
      BY <3>1, InOrderProperties
  <2> HIDE DEF m, place
  <2>3. t \in [1..m -> X]
    BY <2>2
  <2>4. \A k \in 1..m : t[k] = RoomOn(text, place[k]) /\ place[k] \in lines
    BY <2>2
  <2>5. got[c].location = u
    BY <1>9, <1>10 DEF lines, m, place, Locations
  <2> HIDE DEF t, X, u
  <2>6. /\ u \in Seq(X) /\ Range(u) = Range(t)
        /\ \A p, q \in 1..Len(u) : p < q =>
             \E a \in 1..m : t[a] = u[p] /\ \A b \in 1..m : t[b] = u[q] => a < b
    <3>1. HasEachOnce(u, t, m, X)
      BY <2>2, <2>3, UniqueOf DEF u
    <3> QED
      BY <3>1 DEF HasEachOnce
  <2>7. Range(t) = X
    <3>1. DOMAIN t = 1..m
      BY <2>3
    <3>2. \A x \in X : x \in Range(t)
      <4> SUFFICES ASSUME NEW i \in lines PROVE RoomOn(text, i) \in Range(t)
        BY DEF X
      <4>1. Rank(lines, i) \in 1..m /\ t[Rank(lines, i)] = RoomOn(text, i)
        BY <2>2, <2>4
      <4> QED
        BY <3>1, <4>1 DEF Range
    <3>3. \A x \in Range(t) : x \in X
      BY <2>3, <3>1 DEF Range
    <3> QED
      BY <3>2, <3>3
  <2>8. ASSUME NEW k \in 1..Len(u), NEW l \in 1..Len(u), k < l
        PROVE  \E i \in lines : RoomOn(text, i) = u[k] /\ \A j \in lines : RoomOn(text, j) = u[l] => i < j
    <3>1. PICK a \in 1..m : t[a] = u[k] /\ \A b \in 1..m : t[b] = u[l] => a < b
      BY <2>6, <2>8
    <3>2. ASSUME NEW j \in lines, RoomOn(text, j) = u[l] PROVE place[a] < j
      <4>1. Rank(lines, j) \in 1..m /\ place[Rank(lines, j)] = j
        BY <2>2
      <4>2. a < Rank(lines, j)
        BY <2>4, <3>1, <3>2, <4>1
      <4> QED
        BY <2>2, <4>1, <4>2
    <3> QED
      BY <2>4, <3>1, <3>2
  <2> QED
    BY <2>5, <2>6, <2>7, <2>8 DEF lines, X
<1> QED
  BY <1>3, <1>4, <1>5, <1>6, <1>9, <1>11 DEF ClassesHaveTheirRooms, got, at, S, R, n, count

-----------------------------------------------------------------------------
(* Transcripts: the courses and levels of each term.                       *)

\* A line is of the part of the place that as many places are not after as there
\* are up to that one.
LEMMA RankOfALine ==
  ASSUME NEW n \in Nat, NEW S \in SUBSET (1..n), NEW i \in 1..n
  PROVE  /\ Rank(S, i) \in 0..Cardinality(S)
         /\ Rank(S, i) = 0 <=> \A j \in S : i < j
         /\ \A c \in 1..Cardinality(S) : Rank(S, i) = c <=> InOrder(S)[c] <= i /\ i < PartEnds(S, n)[c]
<1> DEFINE ends == PartEnds(S, n)
           count == Cardinality(S)
           at == InOrder(S)
           above == {j \in S : j <= i}
<1>1. /\ count \in Nat /\ ends \in [1..count -> Nat] /\ at \in [1..count -> S]
      /\ \A c \in 1..count : at[c] < ends[c] /\ ends[c] <= n + 1
      /\ \A c \in 1..count, j \in S : j < ends[c] <=> j <= at[c]
  BY PartEndsOf
<1>2. /\ \A j \in S : Rank(S, j) \in 1..count /\ at[Rank(S, j)] = j
      /\ \A c \in 1..count : Rank(S, at[c]) = c
      /\ IsFiniteSet(S) /\ S \subseteq Nat
  <2>1. IsFiniteSet(S) /\ S \subseteq Nat
    BY PlacesAreFinite
  <2> QED
    BY <2>1, InOrderProperties
<1>3. Rank(S, i) \in 0..count /\ Rank(S, i) = Cardinality(above)
  <2>1. i \in Nat
    OBVIOUS
  <2>2. Rank(S, i) \in 0..Cardinality(S)
    BY <1>2, <2>1, RankIsNumber
  <2> QED
    BY <2>2 DEF Rank
<1> HIDE DEF ends, count, at
<1>4. \A c \in 1..count : at[c] \in Nat /\ ends[c] \in Nat /\ at[c] \in S
  <2>1. \A j \in S : j \in Nat
    OBVIOUS
  <2> QED
    BY <1>1, <2>1
<1>5. ASSUME NEW c \in 1..count, at[c] <= i, i < ends[c] PROVE Rank(S, i) = c
  <2>1. \A j \in S : j <= i <=> j <= at[c]
    <3> TAKE j \in S
    <3>1. j \in Nat /\ at[c] \in Nat /\ ends[c] \in Nat
      BY <1>4
    <3>2. j < ends[c] <=> j <= at[c]
      BY <1>1
    <3> QED
      BY <1>5, <3>1, <3>2
  <2>2. Rank(S, i) = Rank(S, at[c])
    BY <2>1 DEF Rank
  <2> QED
    BY <1>2, <2>2
<1>6. CASE above = {}
  <2>1. \A j \in S : i < j
    <3> TAKE j \in S
    <3>1. j \in Nat /\ ~(j <= i)
      BY <1>6
    <3> QED
      BY <3>1
  <2>2. Rank(S, i) = 0
    BY <1>3, <1>6, FS_EmptySet
  <2>3. \A c \in 1..count : ~(at[c] <= i) /\ c # 0
    <3> TAKE c \in 1..count
    <3>1. at[c] \in S /\ i < at[c]
      BY <1>4, <2>1
    <3> QED
      BY <1>4, <3>1
  <2> QED
    BY <1>3, <2>1, <2>2, <2>3 DEF ends, count, at
<1>7. CASE above # {}
  <2> DEFINE last == LastPlace(above)
             c == Rank(S, last)
  <2>1. above \in SUBSET (1..n)
    OBVIOUS
  <2>2. last \in above /\ \A j \in above : j <= last
    <3> HIDE DEF above
    <3> QED
      BY <1>7, <2>1, LastPlaceOf
  <2> HIDE DEF last
  <2>3. last \in S /\ last <= i /\ \A j \in S : j <= i => j <= last
    BY <2>2
  <2>4. c \in 1..count /\ at[c] = last
    BY <1>2, <2>3
  <2> HIDE DEF c
  <2>5. i < ends[c]
    <3> SUFFICES ASSUME ~(i < ends[c]) PROVE FALSE
      OBVIOUS
    <3>1. ends[c] # n + 1 /\ ends[c] <= i
      BY <1>4, <2>4
    <3>2. c < count /\ c + 1 \in 1..count
      BY <1>1, <2>4, <3>1 DEF ends, PartEnds, count
    <3>3. ends[c] = at[c + 1]
      BY <2>4, <3>2 DEF ends, PartEnds, count, at
    <3>4. at[c + 1] \in S /\ at[c + 1] <= last
      BY <1>1, <2>3, <3>1, <3>2, <3>3
    <3>5. at[c] < ends[c] /\ at[c] \in Nat /\ ends[c] \in Nat
      BY <1>1, <1>4, <2>4
    <3> QED
      BY <2>4, <3>3, <3>4, <3>5
  <2>6. Rank(S, i) = c
    BY <1>5, <2>3, <2>4, <2>5
  <2>7. \A d \in 1..count : at[d] <= i /\ i < ends[d] => d = c
    BY <1>5, <2>6
  <2>8. ~(i < last)
    BY <2>3
  <2>9. c # 0
    BY <2>4
  <2> QED
    BY <1>3, <2>3, <2>4, <2>5, <2>6, <2>7, <2>8, <2>9 DEF ends, count, at
<1> QED
  BY <1>6, <1>7

\* The terms of a transcript have their courses and levels, of every text.
LEMMA CoursesOfText ==
  ASSUME NEW text \in Seq(TranscriptLine)
  PROVE  CoursesOfTheirTerm(text)
<1> DEFINE n == Len(text)
           S == LinesOf(text, "semester")
           L == LinesOf(text, "level")
           C == LinesOf(text, "course")
           count == Cardinality(S)
           terms == InOrder(S)
           levels == InOrder(L)
           courses == InOrder(C)
           ends == PartEnds(S, n)
           j == Stops(courses, ends)
           Taken(i) == {courses[k] : k \in {l \in j[i - 1]..(j[i] - 1) : ~IsTransferCredit(text[courses[l]])}}
           got == TermSummaries(text)
           Result(t) == [term |-> text[terms[t]].semester, level |-> text[levels[t]].level,
                         courses |-> [k \in 1..Cardinality(Taken(t)) |-> text[InOrder(Taken(t))[k]].code]]
<1>1. n \in Nat /\ S \in SUBSET (1..n) /\ L \in SUBSET (1..n) /\ C \in SUBSET (1..n)
  BY DEF LinesOf
<1>2. /\ \A i \in C : text[i].credits \in 0..2 /\ text[i].year \in BOOLEAN
  <2> SUFFICES ASSUME NEW i \in C PROVE text[i].credits \in 0..2 /\ text[i].year \in BOOLEAN
    OBVIOUS
  <2>1. i \in 1..n /\ text[i].is = "course"
    BY DEF LinesOf
  <2>2. text[i] \in TranscriptLine
    BY <2>1
  <2>3. text[i] \in [is: {"course"}, code: Codes, credits: 0..2, year: BOOLEAN]
    BY <2>1, <2>2 DEF TranscriptLine
  <2> QED
    BY <2>3
<1>3. /\ count \in Nat /\ terms \in [1..count -> S] /\ terms \in [1..count -> Nat] /\ Len(terms) = count
      /\ ends \in [1..count -> Nat]
      /\ \A c \in 1..count : terms[c] < ends[c] /\ ends[c] <= n + 1
      /\ \A c \in 1..count : c > 1 => c - 1 \in 1..count /\ ends[c - 1] = terms[c]
  <2> HIDE DEF n, S
  <2> QED
    BY <1>1, PartEndsOf
<1>4. Cardinality(L) \in Nat /\ levels \in [1..Cardinality(L) -> L] /\ Len(levels) = Cardinality(L)
  <2> HIDE DEF n, L
  <2> QED
    BY <1>1, PartEndsOf
<1>5. \A c \in 1..count :
        /\ \A k \in j[c - 1]..(j[c] - 1) :
             k \in 1..Cardinality(C) /\ courses[k] \in C /\ (c = 1 \/ terms[c] <= courses[k]) /\ courses[k] < ends[c]
        /\ \A r \in C : (c = 1 \/ terms[c] <= r) /\ r < ends[c] => \E k \in j[c - 1]..(j[c] - 1) : courses[k] = r
  <2> HIDE DEF n, S, C
  <2> QED
    BY <1>1, PlacesOfParts
<1>6. \A i \in 1..n :
        /\ Rank(S, i) \in 0..count
        /\ Rank(S, i) = 0 <=> \A k \in S : i < k
        /\ \A c \in 1..count : Rank(S, i) = c <=> terms[c] <= i /\ i < ends[c]
  <2> HIDE DEF n, S
  <2> QED
    BY <1>1, RankOfALine
<1>7. got = IF Len(terms) # Len(levels) THEN [ok |-> FALSE]
            ELSE [ok |-> TRUE, history |-> [t \in 1..Len(terms) |-> Result(t)]]
  BY DEF TermSummaries
<1>8. \A i : TermAt(text, i) = IF Rank(S, i) = 0 THEN 1 ELSE Rank(S, i)
  BY DEF TermAt
<1>9. \A t : LevelsUnder(text, t) = {i \in L : terms[t] <= i /\ TermAt(text, i) = t}
  BY DEF LevelsUnder
<1> HIDE DEF got, j, ends, courses, levels, terms, count, C, L, S, n
<1>10. \A t \in 1..count, i \in 1..n : TermAt(text, i) = t <=> (t = 1 \/ terms[t] <= i) /\ i < ends[t]
  <2> TAKE t \in 1..count, i \in 1..n
  <2>1. Rank(S, i) \in 0..count /\ (Rank(S, i) = t <=> terms[t] <= i /\ i < ends[t])
    BY <1>6
  <2>2. terms[t] \in S /\ terms[t] < ends[t] /\ terms[t] \in Nat /\ ends[t] \in Nat
    BY <1>3
  <2>3. CASE Rank(S, i) = 0
    <3>1. i < terms[t]
      BY <1>6, <2>2, <2>3
    <3> QED
      BY <1>1, <1>8, <2>2, <2>3, <3>1
  <2>4. CASE Rank(S, i) # 0
    <3>1. TermAt(text, i) = Rank(S, i)
      BY <1>8, <2>4
    <3>2. t = 1 /\ i < ends[t] => terms[t] <= i
      <4> SUFFICES ASSUME t = 1, i < ends[t], ~(terms[t] <= i) PROVE FALSE
        OBVIOUS
      <4>1. PICK k \in S : ~(i < k)
        BY <1>6, <2>4
      <4>2. Rank(S, i) \in 1..count /\ Rank(S, i) # 1
        BY <1>3, <2>1, <2>4
      <4> DEFINE c == Rank(S, i)
      <4>3. terms[c] <= i /\ c > 1
        BY <1>6, <4>2
      <4>4. terms[1] < terms[c]
        <5>1. \A d, e \in 1..count : d < e => terms[d] < terms[e]
          <6>1. IsFiniteSet(S) /\ S \subseteq Nat
            BY <1>1, PlacesAreFinite
          <6> QED
            BY <6>1, InOrderProperties DEF terms, count
        <5> QED
          BY <4>2, <4>3, <5>1
      <4>5. terms[c] \in Nat
        BY <1>3, <4>2
      <4> HIDE DEF c
      <4> QED
        BY <2>2, <4>3, <4>4, <4>5
    <3> QED
      BY <2>1, <3>1, <3>2
  <2> QED
    BY <2>3, <2>4
<1> DEFINE Lines(t) == {i \in C : TermAt(text, i) = t}
           Kept(t) == {i \in Lines(t) : text[i].credits # 1}
<1>11. \A t \in 1..count : Taken(t) = {i \in Lines(t) : ~IsTransferCredit(text[i])}
  <2> TAKE t \in 1..count
  <2>1. \A i \in C : i \in Lines(t) <=> (t = 1 \/ terms[t] <= i) /\ i < ends[t]
    <3>1. \A i \in C : i \in 1..n
      BY <1>1
    <3> QED
      BY <1>10, <3>1
  <2>2. ASSUME NEW i \in Taken(t) PROVE i \in Lines(t) /\ ~IsTransferCredit(text[i])
    <3>1. PICK k \in j[t - 1]..(j[t] - 1) : ~IsTransferCredit(text[courses[k]]) /\ i = courses[k]
      OBVIOUS
    <3>2. i \in C /\ (t = 1 \/ terms[t] <= i) /\ i < ends[t]
      BY <1>5, <3>1
    <3> QED
      BY <2>1, <3>1, <3>2
  <2>3. ASSUME NEW i \in Lines(t), ~IsTransferCredit(text[i]) PROVE i \in Taken(t)
    <3>1. i \in C /\ (t = 1 \/ terms[t] <= i) /\ i < ends[t]
      BY <2>1
    <3>2. PICK k \in j[t - 1]..(j[t] - 1) : courses[k] = i
      BY <1>5, <3>1
    <3> QED
      BY <2>3, <3>2
  <2> HIDE DEF Lines, Taken
  <2> QED
    BY <2>2, <2>3
<1> HIDE DEF Taken
<1>12. \A i \in C : ~text[i].year => (IsTransferCredit(text[i]) <=> text[i].credits = 1)
  <2> SUFFICES ASSUME NEW i \in C, ~text[i].year PROVE IsTransferCredit(text[i]) <=> text[i].credits = 1
    OBVIOUS
  <2>1. text[i].credits \in 0..2
    BY <1>2
  <2>2. text[i].credits + 0 = text[i].credits
    BY <2>1
  <2> QED
    BY <2>2 DEF IsTransferCredit
<1>13. got.ok <=> count = Cardinality(L)
  BY <1>3, <1>4, <1>7
\* One level under each term.
<1> DEFINE own == [t \in 1..count |-> CHOOSE i \in L : i \in LevelsUnder(text, t)]
<1>14. ASSUME WellLaidOut(text)
       PROVE  /\ own \in [1..count -> L]
              /\ \A t \in 1..count : own[t] \in LevelsUnder(text, t) /\ \A i \in LevelsUnder(text, t) : i = own[t]
              /\ \A t, u \in 1..count : t < u => own[t] < own[u]
  <2>1. \A t \in 1..count : \E i : LevelsUnder(text, t) = {i}
    <3> TAKE t \in 1..count
    <3>1. Cardinality(LevelsUnder(text, t)) = 1
      BY <1>14 DEF WellLaidOut, count, S
    <3>2. LevelsUnder(text, t) \in SUBSET (1..n)
      BY <1>1, <1>9
    <3>3. IsFiniteSet(LevelsUnder(text, t))
      BY <1>1, <3>2, PlacesAreFinite
    <3> QED
      BY <3>1, <3>3, FS_Singleton
  <2>2. \A t \in 1..count : own[t] \in L /\ LevelsUnder(text, t) = {own[t]}
    <3> TAKE t \in 1..count
    <3>1. PICK i : LevelsUnder(text, t) = {i}
      BY <2>1
    <3>2. i \in L
      BY <1>9, <3>1
    <3>3. own[t] = i
      BY <3>1, <3>2
    <3> QED
      BY <3>1, <3>2, <3>3
  <2> HIDE DEF own
  <2>3. \A t, u \in 1..count : t < u => own[t] < own[u]
    <3> SUFFICES ASSUME NEW t \in 1..count, NEW u \in 1..count, t < u PROVE own[t] < own[u]
      OBVIOUS
    <3>1. own[t] \in 1..n /\ own[u] \in 1..n
      <4>1. \A i \in L : i \in 1..n
        BY <1>1
      <4> QED
        BY <2>2, <4>1
    <3>2. own[t] \in LevelsUnder(text, t) /\ own[u] \in LevelsUnder(text, u)
      BY <2>2
    <3>3. TermAt(text, own[t]) = t /\ TermAt(text, own[u]) = u /\ terms[u] <= own[u]
      BY <1>9, <3>2
    <3>4. own[t] < ends[t]
      BY <1>10, <3>1, <3>3
    <3>5. ends[t] <= terms[u]
      <4>1. t + 1 \in 1..count /\ (t + 1) - 1 = t /\ t + 1 > 1
        BY <1>3
      <4>2. ends[t] = terms[t + 1]
        BY <1>3, <4>1
      <4>3. \A d, e \in 1..count : d < e => terms[d] < terms[e]
        <5>1. IsFiniteSet(S) /\ S \subseteq Nat
          BY <1>1, PlacesAreFinite
        <5> QED
          BY <5>1, InOrderProperties DEF terms, count
      <4>4. t + 1 = u \/ t + 1 < u
        BY <1>3
      <4>5. terms[t + 1] \in Nat /\ terms[u] \in Nat
        BY <1>3, <4>1
      <4> QED
        BY <4>1, <4>2, <4>3, <4>4, <4>5
    <3>6. terms[u] \in Nat /\ ends[t] \in Nat
      BY <1>3
    <3> QED
      BY <3>1, <3>3, <3>4, <3>5, <3>6
  <2>4. own \in [1..count -> L]
    BY <2>2 DEF own
  <2> QED
    BY <2>2, <2>3, <2>4
<1> HIDE DEF own
<1>15. IsFiniteSet(L) /\ L \subseteq Nat
  BY <1>1, PlacesAreFinite
<1>16. ASSUME WellLaidOut(text), \A i \in L : \E t \in 1..count : own[t] = i
       PROVE  count = Cardinality(L) /\ own = levels
  <2>1. /\ own \in [1..count -> L]
        /\ \A t, u \in 1..count : t < u => own[t] < own[u]
    BY <1>14, <1>16
  <2> QED
    BY <1>3, <1>15, <1>16, <2>1, OrderIsUnique DEF levels
<1>17. ASSUME WellLaidOut(text), ~got.ok PROVE \E i \in L : \A k \in S : i < k
  <2> SUFFICES ASSUME \A i \in L : \E k \in S : ~(i < k) PROVE FALSE
    OBVIOUS
  <2>1. ASSUME NEW i \in L PROVE \E t \in 1..count : own[t] = i
    <3>1. i \in 1..n /\ Rank(S, i) # 0
      BY <1>1, <1>6
    <3> DEFINE t == Rank(S, i)
    <3>2. t \in 1..count /\ TermAt(text, i) = t /\ terms[t] <= i
      BY <1>3, <1>6, <1>8, <3>1
    <3> HIDE DEF t
    <3>3. i \in LevelsUnder(text, t)
      BY <1>9, <3>2
    <3> QED
      BY <1>14, <1>17, <3>2, <3>3
  <2> QED
    BY <1>13, <1>16, <1>17, <2>1
<1>18. ASSUME WellLaidOut(text), got.ok PROVE own = levels
  <2>1. count = Cardinality(L)
    BY <1>13, <1>18
  <2>2. own \in [1..count -> L] /\ \A t, u \in 1..count : own[t] = own[u] => t = u
    <3>1. /\ own \in [1..count -> L]
          /\ \A t, u \in 1..count : t < u => own[t] < own[u]
      BY <1>14, <1>18
    <3>2. \A t \in 1..count : own[t] \in Nat
      BY <1>15, <3>1
    <3>3. \A t, u \in 1..count : t = u \/ t < u \/ u < t
      BY <1>3
    <3> QED
      BY <3>1, <3>2, <3>3
  <2>3. own \in Injection(1..count, L)
    BY <2>2, Fun_IsInj
  <2>4. IsFiniteSet(1..count) /\ Cardinality(1..count) = count
    BY <1>3, FS_Interval
  <2>5. own \in Surjection(1..count, L)
    BY <1>15, <2>1, <2>3, <2>4, FS_Injection
  <2>6. \A i \in L : \E t \in 1..count : own[t] = i
    BY <2>5 DEF Surjection
  <2> QED
    BY <1>16, <1>18, <2>6
<1>19. ASSUME got.ok
       PROVE  /\ Len(got.history) = count
              /\ \A t \in 1..count : got.history[t] = Result(t)
  <2> DEFINE X == {Result(t) : t \in 1..count}
             h == [t \in 1..count |-> Result(t)]
  <2>1. got.history = h
    BY <1>3, <1>7, <1>19
  <2> HIDE DEF Result
  <2>2. h \in [1..count -> X] /\ \A t \in 1..count : h[t] = Result(t)
    OBVIOUS
  <2> HIDE DEF X, h
  <2>3. h \in Seq(X) /\ DOMAIN h = 1..count
    BY <1>3, <2>2, SeqDef
  <2>4. Len(h) = count
    BY <1>3, <2>3, LenProperties
  <2> QED
    BY <2>1, <2>2, <2>4
<1> DEFINE names(A) == [k \in 1..Cardinality(A) |-> text[InOrder(A)[k]].code]
<1>20. \A t \in 1..count : Result(t).term = text[terms[t]].semester /\ Result(t).level = text[levels[t]].level
                           /\ Result(t).courses = names(Taken(t))
  OBVIOUS
<1> HIDE DEF Result
<1>21. ASSUME NEW t \in 1..count, \A i \in Lines(t) : ~text[i].year PROVE Taken(t) = Kept(t)
  <2>1. Taken(t) = {i \in Lines(t) : ~IsTransferCredit(text[i])}
    BY <1>11
  <2>2. \A i \in Lines(t) : i \in C
    OBVIOUS
  <2> HIDE DEF Lines
  <2> QED
    BY <1>12, <1>21, <2>1, <2>2
<1>22. ASSUME NEW t \in 1..count PROVE Range(names(Taken(t))) \subseteq {text[i].code : i \in Lines(t)}
  <2> DEFINE A == Taken(t)
  <2>1. A \in SUBSET (1..n) /\ A \subseteq Lines(t)
    <3>1. A \subseteq Lines(t)
      BY <1>11
    <3>2. Lines(t) \subseteq C
      OBVIOUS
    <3> HIDE DEF A, Lines
    <3> QED
      BY <1>1, <3>1, <3>2
  <2> HIDE DEF A
  <2>2. InOrder(A) \in [1..Cardinality(A) -> A]
    <3>1. IsFiniteSet(A) /\ A \subseteq Nat
      BY <1>1, <2>1, PlacesAreFinite
    <3> QED
      BY <3>1, InOrderProperties
  <2> HIDE DEF Lines
  <2>3. \A x \in Range(names(A)) : x \in {text[i].code : i \in Lines(t)}
    BY <2>1, <2>2 DEF Range
  <2> QED
    BY <2>3 DEF A
<1> HIDE DEF names
<1>23. ASSUME got.ok, NEW t \in 1..count
       PROVE  /\ got.history[t].term = text[terms[t]].semester
              /\ (\A i \in Lines(t) : ~text[i].year) => got.history[t].courses = names(Kept(t))
              /\ Range(got.history[t].courses) \subseteq {text[i].code : i \in Lines(t)}
              /\ WellLaidOut(text) => \E i \in LevelsUnder(text, t) : got.history[t].level = text[i].level
  <2>1. got.history[t] = Result(t)
    BY <1>19, <1>23
  <2>2. WellLaidOut(text) => \E i \in LevelsUnder(text, t) : got.history[t].level = text[i].level
    <3> SUFFICES ASSUME WellLaidOut(text) PROVE \E i \in LevelsUnder(text, t) : got.history[t].level = text[i].level
      OBVIOUS
    <3>1. own = levels /\ own[t] \in LevelsUnder(text, t)
      BY <1>14, <1>18, <1>23
    <3>2. got.history[t].level = text[own[t]].level
      BY <1>20, <2>1, <3>1
    <3> QED
      BY <3>1, <3>2
  <2> HIDE DEF Lines, Kept
  <2> QED
    BY <1>20, <1>21, <1>22, <2>1, <2>2
<1>24. /\ WellLaidOut(text) => got.ok \/ \E i \in L : \A k \in S : i < k
       /\ got.ok => /\ Len(got.history) = Len(terms)
                    /\ \A t \in 1..Len(terms) :
                         /\ got.history[t].term = text[terms[t]].semester
                         /\ (\A i \in Lines(t) : ~text[i].year) => got.history[t].courses = names(Kept(t))
                         /\ Range(got.history[t].courses) \subseteq {text[i].code : i \in Lines(t)}
                         /\ WellLaidOut(text) => \E i \in LevelsUnder(text, t) : got.history[t].level = text[i].level
  BY <1>3, <1>17, <1>19, <1>23
<1> QED
  BY <1>24 DEF CoursesOfTheirTerm, got, terms, names, L, S, C

-----------------------------------------------------------------------------
(* Requirements: the text of each label.                                   *)

\* White space at the end of a text is trimmed.
LEMMA TrimmedAtTheEnd ==
  ASSUME NEW text \in Seq(Piece), NEW a \in Nat, NEW b \in Nat,
         1 <= a, a <= b, b <= Len(text), text[b] = "space"
  PROVE  TrimSpace(SubSeq(text, a, b)) = TrimSpace(SubSeq(text, a, b - 1))
<1> DEFINE s == SubSeq(text, a, b - 1)
           t == SubSeq(text, a, b)
           keptS == {i \in 1..Len(s) : s[i] # "space"}
           keptT == {i \in 1..Len(t) : t[i] # "space"}
<1>1. /\ s \in Seq(Piece) /\ Len(s) = b - a
      /\ \A i \in 1..(b - a) : s[i] = text[a + i - 1]
  <2>1. \A i \in a..(b - 1) : text[i] \in Piece
    OBVIOUS
  <2>2. b - 1 \in Int /\ b - 1 - a + 1 = b - a /\ (a <= b - 1 \/ b - a = 0)
    OBVIOUS
  <2> HIDE DEF s
  <2>3. /\ SubSeq(text, a, b - 1) \in Seq(Piece)
        /\ Len(SubSeq(text, a, b - 1)) = IF a <= b - 1 THEN b - 1 - a + 1 ELSE 0
        /\ \A i \in 1..(b - 1 - a + 1) : SubSeq(text, a, b - 1)[i] = text[a + i - 1]
    BY <2>1, <2>2, SubSeqProperties
  <2> QED
    BY <2>2, <2>3 DEF s
<1>2. /\ t \in Seq(Piece) /\ Len(t) = b - a + 1
      /\ \A i \in 1..(b - a + 1) : t[i] = text[a + i - 1]
  <2>1. \A i \in a..b : text[i] \in Piece
    OBVIOUS
  <2> HIDE DEF t
  <2>2. /\ SubSeq(text, a, b) \in Seq(Piece)
        /\ Len(SubSeq(text, a, b)) = IF a <= b THEN b - a + 1 ELSE 0
        /\ \A i \in 1..(b - a + 1) : SubSeq(text, a, b)[i] = text[a + i - 1]
    BY <2>1, SubSeqProperties
  <2> QED
    BY <2>2 DEF t
<1>3. \A i \in 1..(b - a) : s[i] = t[i]
  BY <1>1, <1>2
<1>4. t[b - a + 1] = "space"
  BY <1>2
<1> HIDE DEF s, t
<1>5. keptS = keptT
  <2>1. \A i \in 1..(b - a + 1) : i = b - a + 1 \/ i \in 1..(b - a)
    OBVIOUS
  <2>2. \A i \in 1..(b - a) : i \in 1..(b - a + 1)
    OBVIOUS
  <2> QED
    BY <1>1, <1>2, <1>3, <1>4, <2>1, <2>2
<1>6. CASE keptS = {}
  BY <1>5, <1>6 DEF TrimSpace, s, t
<1>7. CASE keptS # {}
  <2> DEFINE f == FirstPlace(keptS)
             l == LastPlace(keptS)
  <2>1. f \in 1..(b - a) /\ l \in 1..(b - a)
    <3>1. keptS \in SUBSET (1..(b - a)) /\ b - a \in Nat
      BY <1>1
    <3> HIDE DEF keptS
    <3>2. keptS \in SUBSET Nat
      BY <3>1
    <3> QED
      BY <1>7, <3>1, <3>2, FirstPlaceOf, LastPlaceOf
  <2>2. TrimSpace(s) = SubSeq(s, f, l) /\ TrimSpace(t) = SubSeq(t, f, l)
    BY <1>5, <1>7 DEF TrimSpace
  <2> HIDE DEF f, l
  <2>3. \A i \in f..l : s[i] \in Piece /\ t[i] \in Piece
    BY <1>1, <1>2, <2>1
  <2>4. /\ SubSeq(s, f, l) \in Seq(Piece)
        /\ Len(SubSeq(s, f, l)) = IF f <= l THEN l - f + 1 ELSE 0
        /\ \A i \in 1..(l - f + 1) : SubSeq(s, f, l)[i] = s[f + i - 1]
    BY <2>1, <2>3, SubSeqProperties
  <2>5. /\ SubSeq(t, f, l) \in Seq(Piece)
        /\ Len(SubSeq(t, f, l)) = IF f <= l THEN l - f + 1 ELSE 0
        /\ \A i \in 1..(l - f + 1) : SubSeq(t, f, l)[i] = t[f + i - 1]
    BY <2>1, <2>3, SubSeqProperties
  <2>6. \A i \in 1..(l - f + 1) : f + i - 1 \in 1..(b - a)
    BY <2>1
  <2>7. \A i \in 1..Len(SubSeq(s, f, l)) : SubSeq(s, f, l)[i] = SubSeq(t, f, l)[i]
    BY <1>3, <2>1, <2>4, <2>5, <2>6
  <2>8. SubSeq(s, f, l) = SubSeq(t, f, l)
    BY <2>4, <2>5, <2>7, SeqEqual
  <2> QED
    BY <2>2, <2>8 DEF s, t
<1> QED
  BY <1>6, <1>7

\* In a text with well written labels, each colon is a label of the type before it.
LEMMA WellWrittenLabels ==
  ASSUME NEW text \in Seq(Piece), WellLabelled(text), NEW i \in 1..Len(text), text[i] = "colon"
  PROVE  /\ i > 1 /\ text[i - 1] \in Types
         /\ WordStart(text, i) = IF i > 2 THEN i - 2 ELSE 1
         /\ i > 2 => text[i - 2] = "space"
         /\ i \in Labels(text)
         /\ TypeOf(PiecesOf(text, WordStart(text, i), i)) = text[i - 1]
<1> DEFINE spaces == {j \in 1..i : text[j] = "space"}
           from == IF i > 2 THEN i - 2 ELSE 1
<1>1. i > 1 /\ text[i - 1] \in Types /\ (i > 2 => text[i - 2] = "space")
  BY DEF WellLabelled
<1>2. text[i - 1] # "space" /\ text[i] # "space"
  BY <1>1 DEF Types
<1>3. WordStart(text, i) = from
  <2>1. CASE i > 2
    <3>1. i - 2 \in spaces /\ \A j \in spaces : j <= i - 2
      <4>1. \A j \in 1..i : j = i \/ j = i - 1 \/ j <= i - 2
        OBVIOUS
      <4> QED
        BY <1>1, <1>2, <2>1, <4>1
    <3>2. /\ i \in Nat /\ spaces \in SUBSET (1..i) /\ spaces # {}
          /\ WordStart(text, i) = LastPlace(spaces)
      BY <3>1 DEF WordStart
    <3> HIDE DEF spaces
    <3>3. LastPlace(spaces) \in spaces /\ \A j \in spaces : j <= LastPlace(spaces)
      BY <3>2, LastPlaceOf
    <3>4. LastPlace(spaces) \in 1..i
      BY <3>2, <3>3
    <3>5. LastPlace(spaces) <= i - 2 /\ i - 2 <= LastPlace(spaces)
      BY <3>1, <3>3
    <3> QED
      BY <2>1, <3>2, <3>4, <3>5
  <2>2. CASE ~(i > 2)
    <3>1. i = 2
      BY <1>1, <2>2
    <3>2. spaces = {}
      <4>1. \A j \in 1..i : j = i \/ j = i - 1
        BY <3>1
      <4> QED
        BY <1>2, <4>1
    <3> QED
      BY <2>2, <3>2 DEF WordStart
  <2> QED
    BY <2>1, <2>2
<1> DEFINE pieces == PiecesOf(text, WordStart(text, i), i)
<1>4. pieces \subseteq {"space", text[i - 1], "colon"} /\ text[i - 1] \in pieces
  <2>1. \A j \in from..i : j = i \/ j = i - 1 \/ (i > 2 /\ j = i - 2)
    BY <1>1
  <2>2. i - 1 \in from..i
    BY <1>1
  <2>3. pieces = {text[j] : j \in from..i}
    BY <1>3 DEF PiecesOf
  <2> HIDE DEF pieces, from
  <2> QED
    BY <1>1, <2>1, <2>2, <2>3
<1> HIDE DEF pieces
<1>5. TypeOf(pieces) = text[i - 1]
  BY <1>1, <1>4 DEF TypeOf, Types
<1>6. pieces \cap Types # {}
  BY <1>1, <1>4
<1>7. i \in Labels(text)
  BY <1>6 DEF Labels, pieces
<1> QED
  BY <1>1, <1>3, <1>5, <1>7 DEF pieces

\* The text of a label ends where the next one starts, and has no other in it.
LEMMA TextOfALabel ==
  ASSUME NEW text \in Seq(Piece), WellLabelled(text), NEW i \in Labels(text)
  PROVE  /\ NextLabel(text, i) \in Nat /\ i + 1 <= NextLabel(text, i)
         /\ \E to \in i..Len(text) :
              /\ \A j \in (i + 1)..to : text[j] \notin Types \cup {"colon"}
              /\ to < Len(text) => text[to + 1] \in Types
              /\ TrimSpace(SubSeq(text, i + 1, NextLabel(text, i) - 1)) = TrimSpace(SubSeq(text, i + 1, to))
<1> DEFINE n == Len(text)
           later == {j \in Labels(text) : j > i}
           next == NextLabel(text, i)
           Result(to) ==
             /\ to \in i..n
             /\ \A j \in (i + 1)..to : text[j] \notin Types \cup {"colon"}
             /\ to < n => text[to + 1] \in Types
             /\ TrimSpace(SubSeq(text, i + 1, next - 1)) = TrimSpace(SubSeq(text, i + 1, to))
<1>1. n \in Nat /\ i \in 1..n /\ text[i] = "colon"
  BY DEF Labels
<1>2. \A j \in 1..n : text[j] = "colon" => j \in Labels(text)
  BY WellWrittenLabels
<1>3. \A j \in 1..n : text[j] \in Types => j + 1 \in 1..n /\ text[j + 1] = "colon"
  BY DEF WellLabelled
<1>4. "colon" \notin Types /\ "space" \notin Types
  BY DEF Types
<1>5. CASE later = {}
  <2>1. next = n + 1
    BY <1>5 DEF NextLabel
  <2>2. \A j \in (i + 1)..n : text[j] \notin Types \cup {"colon"}
    <3> SUFFICES ASSUME NEW j \in (i + 1)..n, text[j] \in Types \cup {"colon"} PROVE FALSE
      OBVIOUS
    <3>1. j \in 1..n /\ j > i
      BY <1>1
    <3>2. text[j] # "colon"
      BY <1>2, <1>5, <3>1
    <3>3. j + 1 \in 1..n /\ text[j + 1] = "colon"
      BY <1>3, <3>1, <3>2
    <3>4. j + 1 \in later
      BY <1>1, <1>2, <3>1, <3>3
    <3> QED
      BY <1>5, <3>4
  <2>3. next - 1 = n /\ n \in i..n /\ ~(n < n)
    BY <1>1, <2>1
  <2>4. Result(n)
    BY <2>2, <2>3
  <2> HIDE DEF n
  <2> QED
    BY <1>1, <2>1, <2>4 DEF n
<1>6. CASE later # {}
  <2> DEFINE q == FirstPlace(later)
  <2>1. q \in Labels(text) /\ q > i /\ \A j \in later : q <= j
    <3>1. later \in SUBSET Nat
      BY DEF Labels
    <3> HIDE DEF later
    <3>2. q \in later /\ \A j \in later : q <= j
      BY <1>6, <3>1, FirstPlaceOf
    <3> QED
      BY <3>2 DEF later
  <2>2. next = WordStart(text, q)
    BY <1>6 DEF NextLabel
  <2> HIDE DEF q, next
  <2>3. q \in 1..n /\ text[q] = "colon"
    BY <2>1 DEF Labels
  <2>4. /\ q > 1 /\ text[q - 1] \in Types
        /\ next = IF q > 2 THEN q - 2 ELSE 1
        /\ q > 2 => text[q - 2] = "space"
    BY <2>2, <2>3, WellWrittenLabels
  <2>5. i > 1
    BY <1>1, WellWrittenLabels
  <2>6. q # i + 1
    <3> SUFFICES ASSUME q = i + 1 PROVE FALSE
      OBVIOUS
    <3>1. q - 1 = i
      BY <1>1
    <3> QED
      BY <1>1, <1>4, <2>4, <3>1
  <2>7. q > 2 /\ next = q - 2 /\ text[next] = "space"
    BY <1>1, <2>1, <2>3, <2>4, <2>5
  <2>8. next # i
    BY <1>1, <2>7
  <2>9. next \in (i + 1)..n /\ next \in Nat /\ next < n /\ next + 1 = q - 1
    BY <1>1, <2>1, <2>3, <2>6, <2>7, <2>8
  <2>10. \A j \in (i + 1)..next : text[j] \notin Types \cup {"colon"}
    <3> SUFFICES ASSUME NEW j \in (i + 1)..next, text[j] \in Types \cup {"colon"} PROVE FALSE
      OBVIOUS
    <3>1. j \in 1..n /\ j > i /\ j + 1 < q /\ j + 1 > i /\ j < q
      BY <1>1, <2>3, <2>7, <2>9
    <3>2. j \notin Labels(text)
      BY <2>1, <2>3, <3>1
    <3>3. text[j] # "colon"
      BY <1>2, <3>1, <3>2
    <3>4. j + 1 \in 1..n /\ text[j + 1] = "colon"
      BY <1>3, <3>1, <3>3
    <3>5. j + 1 \in Labels(text)
      BY <1>2, <3>4
    <3>6. q <= j + 1
      BY <2>1, <3>1, <3>5
    <3> QED
      BY <2>3, <3>1, <3>6
  <2>11. TrimSpace(SubSeq(text, i + 1, next)) = TrimSpace(SubSeq(text, i + 1, next - 1))
    BY <1>1, <2>7, <2>9, TrimmedAtTheEnd
  <2>12. text[next + 1] \in Types
    BY <2>4, <2>9
  <2>13. next \in i..n /\ i + 1 <= next
    BY <1>1, <2>9
  <2>14. Result(next)
    BY <2>10, <2>11, <2>12, <2>13
  <2> HIDE DEF n
  <2> QED
    BY <2>9, <2>13, <2>14 DEF n, next
<1> QED
  BY <1>5, <1>6

\* The requirements are divided as labelled, of every description.
LEMMA RequirementsOfText ==
  ASSUME NEW text \in Seq(Piece)
  PROVE  RequirementsDivided(text)
<1> SUFFICES ASSUME WellLabelled(text)
             PROVE  LET got == Requirements(text)
                        named(t) == {i \in 2..Len(text) : text[i] = "colon" /\ text[i - 1] = t} IN
                    /\ ~got.panics
                    /\ \A t \in Types :
                         /\ named(t) = {} => got.of[t] = <<>>
                         /\ \A i \in named(t) :
                              (\A j \in named(t) : j <= i) =>
                                \E to \in i..Len(text) :
                                  /\ \A j \in (i + 1)..to : text[j] \notin Types \cup {"colon"}
                                  /\ to < Len(text) => text[to + 1] \in Types
                                  /\ got.of[t] = TrimSpace(SubSeq(text, i + 1, to))
  BY DEF RequirementsDivided
<1> DEFINE got == Requirements(text)
           named(t) == {i \in 2..Len(text) : text[i] = "colon" /\ text[i - 1] = t}
<1>1. Len(text) \in Nat /\ Labels(text) \subseteq 1..Len(text)
  BY DEF Labels
<1>2. ~\E i \in Labels(text) : i + 1 > NextLabel(text, i)
  <2>1. \A i \in Labels(text) : NextLabel(text, i) \in Nat /\ i + 1 <= NextLabel(text, i) /\ i \in Nat
    BY <1>1, TextOfALabel
  <2> QED
    BY <2>1
<1>3. /\ got.panics = FALSE
      /\ \A t \in Types :
           got.of[t] = IF LabelsOf(text, t) = {} THEN <<>>
                       ELSE LET i == LastPlace(LabelsOf(text, t)) IN TrimSpace(SubSeq(text, i + 1, NextLabel(text, i) - 1))
  BY <1>2 DEF Requirements
<1>4. \A t \in Types : LabelsOf(text, t) = named(t)
  <2> TAKE t \in Types
  <2>1. \A i \in Labels(text) : i \in 1..Len(text) /\ text[i] = "colon"
    BY DEF Labels
  <2>2. \A i \in 1..Len(text) : text[i] = "colon" =>
          i \in 2..Len(text) /\ i \in Labels(text) /\ TypeOf(PiecesOf(text, WordStart(text, i), i)) = text[i - 1]
    <3> SUFFICES ASSUME NEW i \in 1..Len(text), text[i] = "colon"
                 PROVE  i \in 2..Len(text) /\ i \in Labels(text) /\ TypeOf(PiecesOf(text, WordStart(text, i), i)) = text[i - 1]
      OBVIOUS
    <3>1. i > 1 /\ i \in Labels(text) /\ TypeOf(PiecesOf(text, WordStart(text, i), i)) = text[i - 1]
      BY WellWrittenLabels
    <3>2. i \in 2..Len(text)
      BY <1>1, <3>1
    <3> QED
      BY <3>1, <3>2
  <2>3. \A i \in 2..Len(text) : i \in 1..Len(text)
    BY <1>1
  <2> QED
    BY <2>1, <2>2, <2>3 DEF LabelsOf
<1> HIDE DEF got
<1>5. ASSUME NEW t \in Types, NEW i \in named(t), \A j \in named(t) : j <= i
      PROVE  \E to \in i..Len(text) :
               /\ \A j \in (i + 1)..to : text[j] \notin Types \cup {"colon"}
               /\ to < Len(text) => text[to + 1] \in Types
               /\ got.of[t] = TrimSpace(SubSeq(text, i + 1, to))
  <2>1. i \in LabelsOf(text, t)
    BY <1>4, <1>5
  <2>2. LabelsOf(text, t) \in SUBSET (1..Len(text)) /\ i \in Labels(text)
    BY <1>1, <2>1 DEF LabelsOf
  <2>3. LastPlace(LabelsOf(text, t)) = i
    <3> DEFINE last == LastPlace(LabelsOf(text, t))
    <3>1. last \in LabelsOf(text, t) /\ \A j \in LabelsOf(text, t) : j <= last
      BY <1>1, <2>1, <2>2, LastPlaceOf
    <3>2. \A j \in LabelsOf(text, t) : j <= i
      BY <1>4, <1>5
    <3>3. last <= i /\ i <= last /\ last \in Nat /\ i \in Nat
      BY <1>1, <2>1, <2>2, <3>1, <3>2
    <3> HIDE DEF last
    <3> QED
      BY <3>3 DEF last
  <2>4. got.of[t] = TrimSpace(SubSeq(text, i + 1, NextLabel(text, i) - 1))
    BY <1>3, <2>1, <2>3
  <2> QED
    BY <2>2, <2>4, TextOfALabel
<1>6. \A t \in Types : named(t) = {} => got.of[t] = <<>>
  BY <1>3, <1>4
<1> QED
  BY <1>3, <1>5, <1>6 DEF got

-----------------------------------------------------------------------------
(* Course codes: what is written after each turn of the loop.              *)

\* What is written of a requirement, as in CopiedWords and CodesOfANumber.
Written == Nat \X Nat

\* What is in order stays so when what comes later is appended.
LEMMA ConcatInTextOrder ==
  ASSUME NEW a \in Seq(Written), NEW b \in Seq(Written), InTextOrder(a), InTextOrder(b),
         \A x \in Range(a), y \in Range(b) : x[2] < y[2]
  PROVE  /\ a \o b \in Seq(Written) /\ InTextOrder(a \o b)
         /\ Range(a \o b) = Range(a) \cup Range(b)
<1> DEFINE m == Len(a)
           n == Len(b)
           c == a \o b
<1>1. m \in Nat /\ n \in Nat /\ DOMAIN a = 1..m /\ DOMAIN b = 1..n
  OBVIOUS
<1>2. c \in Seq(Written) /\ Len(c) = m + n /\ DOMAIN c = 1..(m + n)
  OBVIOUS
<1>3. \A k \in 1..(m + n) : c[k] = IF k <= m THEN a[k] ELSE b[k - m]
  OBVIOUS
<1>4. \A k \in 1..m : a[k] \in Range(a) /\ a[k] \in Written
  BY <1>1 DEF Range
<1>5. \A k \in 1..n : b[k] \in Range(b) /\ b[k] \in Written
  BY <1>1 DEF Range
<1>6. \A k \in 1..(m + n) : (k <= m /\ k \in 1..m) \/ (~(k <= m) /\ k - m \in 1..n)
  BY <1>1
<1>7. \A k, l \in 1..m : k < l => a[k][2] < a[l][2] \/ (a[k][2] = a[l][2] /\ a[k][1] < a[l][1])
  BY DEF InTextOrder
<1>8. \A k, l \in 1..n : k < l => b[k][2] < b[l][2] \/ (b[k][2] = b[l][2] /\ b[k][1] < b[l][1])
  BY DEF InTextOrder
<1> HIDE DEF c, m, n
<1>9. InTextOrder(c)
  <2> SUFFICES ASSUME NEW k \in 1..(m + n), NEW l \in 1..(m + n), k < l
               PROVE  c[k][2] < c[l][2] \/ (c[k][2] = c[l][2] /\ c[k][1] < c[l][1])
    BY <1>2 DEF InTextOrder
  <2>1. CASE l <= m
    <3>1. k \in 1..m /\ l \in 1..m /\ k <= m
      BY <1>1, <2>1
    <3> QED
      BY <1>3, <1>7, <2>1, <3>1
  <2>2. CASE k <= m /\ ~(l <= m)
    <3>1. c[k] \in Range(a) /\ c[l] \in Range(b)
      BY <1>3, <1>4, <1>5, <1>6, <2>2
    <3> QED
      BY <3>1
  <2>3. CASE ~(k <= m) /\ ~(l <= m)
    <3>1. k - m \in 1..n /\ l - m \in 1..n /\ k - m < l - m
      BY <1>1, <1>6, <2>3
    <3>2. c[k] = b[k - m] /\ c[l] = b[l - m]
      BY <1>3, <2>3
    <3> QED
      BY <1>8, <3>1, <3>2
  <2> QED
    BY <1>1, <2>1, <2>2, <2>3
<1>10. Range(c) = Range(a) \cup Range(b)
  <2>1. \A x \in Range(c) : x \in Range(a) \cup Range(b)
    <3> SUFFICES ASSUME NEW k \in 1..(m + n) PROVE c[k] \in Range(a) \cup Range(b)
      BY <1>2 DEF Range
    <3> QED
      BY <1>3, <1>4, <1>5, <1>6
  <2>2. \A k \in 1..m : a[k] = c[k] /\ k \in 1..(m + n)
    BY <1>1, <1>3
  <2>3. \A k \in 1..n : b[k] = c[k + m] /\ k + m \in 1..(m + n)
    <3> TAKE k \in 1..n
    <3>1. k + m \in 1..(m + n) /\ ~(k + m <= m) /\ (k + m) - m = k
      BY <1>1
    <3> QED
      BY <1>3, <3>1
  <2>4. \A x \in Range(a) : x \in Range(c)
    BY <1>1, <1>2, <2>2 DEF Range
  <2>5. \A x \in Range(b) : x \in Range(c)
    BY <1>1, <1>2, <2>3 DEF Range
  <2> QED
    BY <2>1, <2>4, <2>5
<1> QED
  BY <1>2, <1>9, <1>10 DEF c

\* The words that are copied are those from one place to the other.
LEMMA CopiedWords ==
  ASSUME NEW from \in Nat, NEW to \in Nat, from >= 1, from <= to + 1
  PROVE  /\ Copied(from, to) \in Seq(Written) /\ InTextOrder(Copied(from, to))
         /\ Range(Copied(from, to)) = {<<0, i>> : i \in from..to}
<1> DEFINE c == Copied(from, to)
           n == to - from + 1
<1>1. n \in Nat
  OBVIOUS
<1>2. DOMAIN c = 1..n /\ \A k \in 1..n : c[k] = <<0, from + k - 1>> /\ from + k - 1 \in Nat
  BY DEF Copied
<1>2a. c \in [1..n -> Written]
  <2>1. \A k \in 1..n : <<0, from + k - 1>> \in Written
    BY <1>2 DEF Written
  <2>2. c = [k \in 1..n |-> <<0, from + k - 1>>]
    BY DEF Copied
  <2> QED
    BY <2>1, <2>2
<1> HIDE DEF c, n
<1>3. c \in Seq(Written) /\ Len(c) = n
  BY <1>1, <1>2, <1>2a, SeqDef, LenProperties
<1>4. InTextOrder(c)
  <2> SUFFICES ASSUME NEW k \in 1..n, NEW l \in 1..n, k < l
               PROVE  c[k][2] < c[l][2]
    BY <1>3 DEF InTextOrder
  <2>1. from + k - 1 < from + l - 1
    BY <1>1
  <2> QED
    BY <1>2, <2>1
<1>5. Range(c) = {<<0, i>> : i \in from..to}
  <2>1. \A k \in 1..n : from + k - 1 \in from..to
    BY DEF n
  <2>2. \A i \in from..to : i - from + 1 \in 1..n /\ from + (i - from + 1) - 1 = i
    BY DEF n
  <2>3. \A x \in Range(c) : x \in {<<0, i>> : i \in from..to}
    BY <1>2, <2>1 DEF Range
  <2>4. \A i \in from..to : c[i - from + 1] = <<0, i>>
    BY <1>2, <2>2
  <2>5. \A i \in from..to : <<0, i>> \in Range(c)
    BY <1>2, <2>2, <2>4 DEF Range
  <2> QED
    BY <2>3, <2>5
<1> QED
  BY <1>3, <1>4, <1>5 DEF c

\* The numbers of s grow.
Increasing(s) == \A k, l \in 1..Len(s) : k < l => s[k] < s[l]

\* The codes of a number are those with each subject.
LEMMA CodesOfANumber ==
  ASSUME NEW subjects \in Seq(Nat), Increasing(subjects), NEW n \in Nat
  PROVE  /\ CodesOf(subjects, n) \in Seq(Written) /\ InTextOrder(CodesOf(subjects, n))
         /\ Range(CodesOf(subjects, n)) = {<<s, n>> : s \in Range(subjects)}
<1> DEFINE c == CodesOf(subjects, n)
           m == Len(subjects)
<1>1. m \in Nat /\ DOMAIN subjects = 1..m /\ \A k \in 1..m : subjects[k] \in Nat
  OBVIOUS
<1>2. DOMAIN c = 1..m /\ \A k \in 1..m : c[k] = <<subjects[k], n>>
  BY DEF CodesOf
<1>3. c \in [1..m -> Written]
  <2>1. \A k \in 1..m : <<subjects[k], n>> \in Written
    BY <1>1 DEF Written
  <2>2. c = [k \in 1..m |-> <<subjects[k], n>>]
    BY DEF CodesOf
  <2> QED
    BY <2>1, <2>2
<1>4. \A k, l \in 1..m : k < l => subjects[k] < subjects[l]
  BY DEF Increasing
<1> HIDE DEF c, m
<1>5. c \in Seq(Written) /\ Len(c) = m
  BY <1>1, <1>2, <1>3, SeqDef, LenProperties
<1>6. InTextOrder(c)
  <2> SUFFICES ASSUME NEW k \in 1..m, NEW l \in 1..m, k < l
               PROVE  c[k][2] = c[l][2] /\ c[k][1] < c[l][1]
    BY <1>5 DEF InTextOrder
  <2> QED
    BY <1>2, <1>4
<1>7. Range(c) = {<<s, n>> : s \in Range(subjects)}
  BY <1>1, <1>2 DEF Range
<1> QED
  BY <1>5, <1>6, <1>7 DEF c

\* The subjects a number after place p would be read with.
GroupAt(text, p) ==
  {j \in SubjectsIn(text) :
     j <= p /\ \A k \in SubjectsIn(text) : j < k /\ k <= p => ~\E n \in NumbersIn(text) : j < n /\ n < k}
\* The codes of the numbers up to p.
CodesUpto(text, p) == {c \in SubjectsIn(text) \X NumbersIn(text) : c[2] <= p /\ c[1] \in SubjectsOf(text, c[2])}
\* The words up to p that are left as they were.
KeptUpto(text, p) == {i \in 1..Len(text) : i <= p /\ i \notin NumbersIn(text) /\ ~BeforeItsNumber(text, i)}

\* The invariant of the loop: what it holds after the match at p.
ReadUpto(text, got, p) ==
  /\ got.subjects \in Seq(Nat) /\ Increasing(got.subjects) /\ Range(got.subjects) = GroupAt(text, p)
  /\ got.afterNumber <=> p = 0 \/ p \in NumbersIn(text)
  /\ got.end \in Nat /\ (got.afterNumber => got.end = p)
  /\ got.codes \in Seq(Written) /\ InTextOrder(got.codes) /\ Range(got.codes) = CodesUpto(text, p)
  /\ got.out \in Seq(Written) /\ InTextOrder(got.out)
  /\ Range(got.out) = CodesUpto(text, p) \cup {<<0, i>> : i \in KeptUpto(text, p)}

\* A turn of the loop takes where it stands from one match to the next.
LEMMA OneMatchRead ==
  ASSUME NEW text \in Seq(Word), NEW got, NEW p \in Nat, NEW i \in 1..Len(text), ReadUpto(text, got, p),
         p = 0 \/ p \in SubjectsIn(text) \cup NumbersIn(text),
         i \in SubjectsIn(text) \cup NumbersIn(text), p < i, \E n \in NumbersIn(text) : i <= n,
         \A j \in SubjectsIn(text) \cup NumbersIn(text) : j <= p \/ i <= j
  PROVE  ReadUpto(text, Expanded(text, got, i), i)
<1> DEFINE S == SubjectsIn(text)
           N == NumbersIn(text)
           new == Expanded(text, got, i)
           out == IF got.afterNumber THEN got.out \o Copied(got.end + 1, i - 1) ELSE got.out
           codes == CodesOf(got.subjects, i)
           KeptBefore == {m \in 1..Len(text) : m < i /\ m \notin N /\ ~BeforeItsNumber(text, m)}
<1>1. /\ S \subseteq 1..Len(text) /\ N \subseteq 1..Len(text) /\ S \cap N = {} /\ Len(text) \in Nat
      /\ (\A j \in S : j \in Nat) /\ (\A j \in N : j \in Nat)
      /\ i \in Nat
  BY DEF SubjectsIn, NumbersIn
<1>2. i \in S <=> text[i] = "subject"
  BY DEF SubjectsIn
<1>3. PICK last \in N : i <= last
  OBVIOUS
<1> HIDE DEF S, N
<1>4. (\A j \in S : j <= p \/ i <= j) /\ (\A j \in N : j <= p \/ i <= j)
  BY DEF S, N
<1>5. \A m \in 1..Len(text) : BeforeItsNumber(text, m) <=>
        (\E n \in N : m < n) /\ \E s \in S : s <= m /\ ~\E n \in N : s < n /\ n <= m
  BY DEF BeforeItsNumber, S, N
<1>6. /\ \A c : c \in CodesUpto(text, p) => c \in Written /\ c[2] <= p
      /\ \A c : c \in {<<0, m>> : m \in KeptUpto(text, p)} => c \in Written /\ c[2] <= p
  BY <1>1 DEF CodesUpto, KeptUpto, Written, S, N
<1>7. /\ out \in Seq(Written) /\ InTextOrder(out)
      /\ Range(out) = CodesUpto(text, p) \cup {<<0, m>> : m \in KeptBefore}
  <2>1. CASE got.afterNumber
    <3>1. p = 0 \/ p \in N
      BY <2>1 DEF ReadUpto, N
    <3>2. got.end = p
      BY <2>1 DEF ReadUpto
    <3>3. /\ Copied(p + 1, i - 1) \in Seq(Written) /\ InTextOrder(Copied(p + 1, i - 1))
          /\ Range(Copied(p + 1, i - 1)) = {<<0, m>> : m \in (p + 1)..(i - 1)}
      <4>1. p + 1 \in Nat /\ i - 1 \in Nat /\ p + 1 >= 1 /\ p + 1 <= (i - 1) + 1
        BY <1>1
      <4> QED
        BY <4>1, CopiedWords
    <3>4. \A x \in Range(got.out), y \in Range(Copied(p + 1, i - 1)) : x[2] < y[2]
      <4> SUFFICES ASSUME NEW x \in Range(got.out), NEW y \in Range(Copied(p + 1, i - 1)) PROVE x[2] < y[2]
        OBVIOUS
      <4>1. x \in Written /\ x[2] <= p
        BY <1>6 DEF ReadUpto
      <4>2. PICK m \in (p + 1)..(i - 1) : y = <<0, m>>
        BY <3>3
      <4>3. x[2] \in Nat /\ y[2] = m /\ p < m
        BY <4>1, <4>2 DEF Written
      <4> QED
        BY <1>1, <4>1, <4>2, <4>3
    <3>5. /\ out \in Seq(Written) /\ InTextOrder(out)
          /\ Range(out) = Range(got.out) \cup {<<0, m>> : m \in (p + 1)..(i - 1)}
      BY <2>1, <3>2, <3>3, <3>4, ConcatInTextOrder DEF ReadUpto
    <3>6. KeptBefore = KeptUpto(text, p) \cup ((p + 1)..(i - 1))
      <4>1. \A m \in (p + 1)..(i - 1) : m \in 1..Len(text) /\ m \notin N /\ ~BeforeItsNumber(text, m) /\ m < i
        <5> SUFFICES ASSUME NEW m \in (p + 1)..(i - 1)
                     PROVE  m \in 1..Len(text) /\ m \notin N /\ ~BeforeItsNumber(text, m) /\ m < i
          OBVIOUS
        <5>1. m \in 1..Len(text) /\ p < m /\ m < i
          BY <1>1
        <5>2. m \notin N
          BY <1>4, <5>1
        <5>3. ASSUME NEW s \in S, s <= m, ~\E n \in N : s < n /\ n <= m PROVE FALSE
          <6>1. s <= p /\ s >= 1
            BY <1>1, <1>4, <5>1, <5>3
          <6>2. p \in N
            BY <1>1, <3>1, <6>1
          <6>3. s # p
            BY <1>1, <6>2
          <6>4. s < p /\ p <= m
            BY <1>1, <5>1, <6>1, <6>3
          <6> QED
            BY <5>3, <6>2, <6>4
        <5> QED
          BY <1>5, <5>1, <5>2, <5>3
      <4>2. \A m \in 1..Len(text) : m < i => m <= p \/ m \in (p + 1)..(i - 1)
        BY <1>1
      <4>3. \A m \in 1..Len(text) : m <= p => m < i
        BY <1>1
      <4> QED
        BY <4>1, <4>2, <4>3 DEF KeptUpto, N
    <3>7. Range(got.out) = CodesUpto(text, p) \cup {<<0, m>> : m \in KeptUpto(text, p)}
      BY DEF ReadUpto
    <3> HIDE DEF out, KeptBefore
    <3> QED
      BY <3>5, <3>6, <3>7
  <2>2. CASE ~got.afterNumber
    <3>1. p \in S /\ p \notin N
      BY <2>2 DEF ReadUpto, S, N
    <3>2. KeptBefore = KeptUpto(text, p)
      <4>1. \A m \in 1..Len(text) : m < i /\ p < m => BeforeItsNumber(text, m)
        <5> SUFFICES ASSUME NEW m \in 1..Len(text), m < i, p < m PROVE BeforeItsNumber(text, m)
          OBVIOUS
        <5>1. ASSUME NEW n \in N, p < n, n <= m PROVE FALSE
          <6>1. n \in Nat /\ (n <= p \/ i <= n) /\ i \in Nat /\ m \in Nat
            BY <1>1, <1>4
          <6> QED
            BY <5>1, <6>1
        <5>2. m < last /\ p <= m
          BY <1>1, <1>3
        <5> QED
          BY <1>3, <1>5, <3>1, <5>1, <5>2
      <4>2. \A m \in 1..Len(text) : (m < i => m <= p \/ p < m) /\ (m <= p => m < i)
        BY <1>1
      <4> QED
        BY <4>1, <4>2 DEF KeptUpto, N
    <3> QED
      BY <2>2, <3>2 DEF ReadUpto
  <2> QED
    BY <2>1, <2>2
<1> HIDE DEF out, KeptBefore
<1>8. KeptUpto(text, i) = KeptBefore
  <2>1. i \in N \/ BeforeItsNumber(text, i)
    <3> SUFFICES ASSUME i \notin N PROVE BeforeItsNumber(text, i)
      OBVIOUS
    <3>1. i \in S /\ i < last
      BY <1>1, <1>3 DEF S, N
    <3> QED
      BY <1>1, <1>3, <1>5, <3>1
  <2>2. \A m \in 1..Len(text) : (m < i => m <= i) /\ (m <= i => m < i \/ m = i)
    BY <1>1
  <2> QED
    BY <1>1, <2>1, <2>2 DEF KeptUpto, KeptBefore, N
<1>9. CASE i \in S
  <2>1. /\ new.out = out /\ new.codes = got.codes /\ new.end = got.end /\ new.afterNumber = FALSE
        /\ new.subjects = IF got.afterNumber THEN <<i>> ELSE Append(got.subjects, i)
    BY <1>2, <1>9 DEF Expanded, out
  <2>2. i \notin N /\ i # 0
    BY <1>1, <1>9
  <2>3. CodesUpto(text, i) = CodesUpto(text, p)
    <3>1. \A n \in N : n <= i <=> n <= p
      <4> TAKE n \in N
      <4>1. n \in Nat /\ (n <= p \/ i <= n) /\ i \in Nat /\ n # i
        BY <1>1, <1>4, <2>2
      <4> QED
        BY <4>1
    <3>2. \A c \in S \X N : c[2] \in N
      OBVIOUS
    <3> QED
      BY <3>1, <3>2 DEF CodesUpto, S, N
  <2>4. CASE got.afterNumber
    <3>1. p = 0 \/ p \in N
      BY <2>4 DEF ReadUpto, N
    <3>2. GroupAt(text, i) = {i}
      <4>1. ASSUME NEW j \in S, j <= i, j # i, \A k \in S : j < k /\ k <= i => ~\E n \in N : j < n /\ n < k
            PROVE  FALSE
        <5>1. j < i /\ j <= p /\ j >= 1
          BY <1>1, <1>4, <4>1
        <5>2. p \in N
          BY <1>1, <3>1, <5>1
        <5>3. j # p
          BY <1>1, <5>2
        <5>4. j < p /\ p < i
          BY <1>1, <5>1, <5>3
        <5> QED
          BY <1>1, <1>9, <4>1, <5>1, <5>2, <5>4
      <4>2. \A k \in S : ~(i < k /\ k <= i)
        BY <1>1
      <4>3. i <= i
        BY <1>1
      <4>4. \A j \in GroupAt(text, i) : j = i
        BY <4>1 DEF GroupAt, S, N
      <4>5. i \in GroupAt(text, i)
        BY <1>9, <4>2, <4>3 DEF GroupAt, S
      <4> QED
        BY <4>4, <4>5
    <3>3. new.subjects = <<i>>
      BY <2>1, <2>4
    <3>4. <<i>> \in Seq(Nat) /\ Len(<<i>>) = 1 /\ DOMAIN <<i>> = 1..1 /\ <<i>>[1] = i
      BY <1>1
    <3>5. Increasing(<<i>>) /\ Range(<<i>>) = {i}
      <4>1. \A k \in 1..1 : k = 1
        OBVIOUS
      <4> QED
        BY <3>4, <4>1 DEF Increasing, Range
    <3> HIDE DEF new
    <3> QED
      BY <1>7, <1>8, <2>1, <2>2, <2>3, <3>2, <3>3, <3>4, <3>5 DEF ReadUpto, N, new
  <2>5. CASE ~got.afterNumber
    <3>1. p \in S /\ p \notin N
      BY <2>5 DEF ReadUpto, S, N
    <3>2. GroupAt(text, i) = GroupAt(text, p) \cup {i}
      <4>1. \A k \in S : (k <= i <=> k <= p \/ k = i) /\ ~(i < k /\ k <= i)
        BY <1>1, <1>4
      <4>2. ASSUME NEW j \in GroupAt(text, p), NEW n \in N, j < n, n < i PROVE FALSE
        <5>1. /\ j \in S /\ j <= p
              /\ \A k \in S : j < k /\ k <= p => ~\E m \in N : j < m /\ m < k
          BY DEF GroupAt, S, N
        <5>2. n <= p /\ n # p
          BY <1>1, <1>4, <3>1, <4>2
        <5>3. n < p /\ j < p /\ p <= p
          BY <1>1, <4>2, <5>1, <5>2
        <5> QED
          BY <3>1, <4>2, <5>1, <5>3
      <4>3. \A j \in GroupAt(text, p) : j \in GroupAt(text, i)
        BY <4>1, <4>2 DEF GroupAt, S, N
      <4>4. i \in GroupAt(text, i)
        BY <1>1, <1>9, <4>1 DEF GroupAt, S
      <4>5. \A j \in GroupAt(text, i) : j # i => j \in GroupAt(text, p)
        BY <1>1, <4>1 DEF GroupAt, S, N
      <4> QED
        BY <4>3, <4>4, <4>5
    <3>3. new.subjects = Append(got.subjects, i)
      BY <2>1, <2>5
    <3> DEFINE s == got.subjects
               t == Append(s, i)
               n == Len(s)
    <3>4. s \in Seq(Nat) /\ Increasing(s) /\ Range(s) = GroupAt(text, p)
      BY DEF ReadUpto
    <3> HIDE DEF s, new
    <3>5. /\ t \in Seq(Nat) /\ Len(t) = n + 1 /\ DOMAIN t = 1..(n + 1) /\ n \in Nat /\ DOMAIN s = 1..n
          /\ \A k \in 1..n : t[k] = s[k]
          /\ t[n + 1] = i
      BY <1>1, <3>4
    <3> HIDE DEF t, n
    <3>6. \A k \in 1..(n + 1) : k \in 1..n \/ k = n + 1
      BY <3>5
    <3>7. \A k \in 1..n : k \in 1..(n + 1)
      BY <3>5
    <3>8. n + 1 \in 1..(n + 1)
      BY <3>5
    <3>9. Range(t) = GroupAt(text, i)
      <4>1. \A x \in Range(t) : x \in Range(s) \cup {i}
        BY <3>5, <3>6 DEF Range
      <4>2. \A x \in Range(s) : x \in Range(t)
        BY <3>5, <3>7 DEF Range
      <4>3. i \in Range(t)
        BY <3>5, <3>8 DEF Range
      <4> QED
        BY <3>2, <3>4, <4>1, <4>2, <4>3
    <3>10. Increasing(t)
      <4> SUFFICES ASSUME NEW k \in 1..(n + 1), NEW l \in 1..(n + 1), k < l PROVE t[k] < t[l]
        BY <3>5 DEF Increasing
      <4>1. k \in 1..n
        BY <3>5
      <4>2. CASE l \in 1..n
        BY <3>4, <3>5, <4>1, <4>2 DEF Increasing, n
      <4>3. CASE l = n + 1
        <5>1. s[k] \in GroupAt(text, p)
          BY <3>4, <3>5, <4>1 DEF Range
        <5>2. s[k] \in S /\ s[k] <= p
          BY <5>1 DEF GroupAt, S
        <5>3. s[k] \in Nat /\ i \in Nat
          BY <1>1, <5>2
        <5>4. s[k] < i
          BY <5>2, <5>3
        <5> QED
          BY <3>5, <4>1, <4>3, <5>4
      <4> QED
        BY <3>6, <4>2, <4>3
    <3> QED
      BY <1>7, <1>8, <2>1, <2>2, <2>3, <3>3, <3>5, <3>9, <3>10 DEF ReadUpto, N, s, t, new
  <2> QED
    BY <2>4, <2>5
<1>10. CASE i \in N
  <2>0. i \notin S /\ text[i] # "subject"
    BY <1>1, <1>2, <1>10
  <2>1. /\ new.out = out \o codes /\ new.codes = got.codes \o codes /\ new.end = i /\ new.afterNumber = TRUE
        /\ new.subjects = got.subjects
    BY <2>0 DEF Expanded, out
  <2>2. /\ got.subjects \in Seq(Nat) /\ Increasing(got.subjects) /\ Range(got.subjects) = GroupAt(text, p)
        /\ got.codes \in Seq(Written) /\ InTextOrder(got.codes) /\ Range(got.codes) = CodesUpto(text, p)
    BY DEF ReadUpto
  <2>3. /\ codes \in Seq(Written) /\ InTextOrder(codes)
        /\ Range(codes) = {<<s, i>> : s \in GroupAt(text, p)}
    BY <1>1, <2>2, CodesOfANumber
  <2> HIDE DEF codes, new
  <2>4. \A k \in S : k <= i <=> k <= p
    BY <1>1, <1>4, <2>0
  <2>5. GroupAt(text, i) = GroupAt(text, p)
    BY <2>4 DEF GroupAt, S, N
  <2>6. SubjectsOf(text, i) = GroupAt(text, p)
    <3>1. \A k \in S : k < i <=> k <= p
      BY <1>1, <1>4, <2>0
    <3> QED
      BY <3>1 DEF SubjectsOf, GroupAt, S, N
  <2>7. CodesUpto(text, i) = CodesUpto(text, p) \cup {<<s, i>> : s \in GroupAt(text, p)}
    <3>1. \A n \in N : n <= i <=> n <= p \/ n = i
      <4> TAKE n \in N
      <4>1. n \in Nat /\ (n <= p \/ i <= n) /\ i \in Nat
        BY <1>1, <1>4
      <4> HIDE DEF N
      <4> QED
        BY <4>1
    <3>2. \A s \in GroupAt(text, p) : s \in S
      BY DEF GroupAt, S
    <3>3. \A s \in GroupAt(text, p) : <<s, i>> \in CodesUpto(text, i)
      BY <1>10, <2>6, <3>1, <3>2 DEF CodesUpto, S, N
    <3>4. \A c \in CodesUpto(text, p) : c \in CodesUpto(text, i)
      BY <3>1 DEF CodesUpto, S, N
    <3>5. ASSUME NEW c \in CodesUpto(text, i), c \notin CodesUpto(text, p)
          PROVE  c \in {<<s, i>> : s \in GroupAt(text, p)}
      <4>1. c \in S \X N /\ c[1] \in SubjectsOf(text, c[2]) /\ c[2] <= i
        BY DEF CodesUpto, S, N
      <4>2. ~(c[2] <= p)
        BY <3>5, <4>1 DEF CodesUpto, S, N
      <4>3. c[2] = i
        BY <3>1, <4>1, <4>2
      <4>4. c = <<c[1], i>> /\ c[1] \in GroupAt(text, p)
        BY <2>6, <4>1, <4>3
      <4> QED
        BY <4>4
    <3> QED
      BY <3>3, <3>4, <3>5
  <2>8. \A y \in Range(codes) : y[2] = i
    BY <2>3
  <2>9. \A x \in Range(got.codes), y \in Range(codes) : x[2] < y[2]
    <3>1. \A x \in Range(got.codes) : x \in Written /\ x[2] <= p
      BY <1>6, <2>2
    <3>2. \A x \in Range(got.codes) : x[2] \in Nat
      BY <3>1 DEF Written
    <3> QED
      BY <1>1, <2>8, <3>1, <3>2
  <2>10. /\ got.codes \o codes \in Seq(Written) /\ InTextOrder(got.codes \o codes)
         /\ Range(got.codes \o codes) = CodesUpto(text, i)
    BY <2>2, <2>3, <2>7, <2>9, ConcatInTextOrder
  <2>11. \A x \in Range(out), y \in Range(codes) : x[2] < y[2]
    <3>1. \A x \in CodesUpto(text, p) : x[2] < i
      <4>1. \A x \in CodesUpto(text, p) : x[2] \in Nat
        BY <1>6 DEF Written
      <4> QED
        BY <1>1, <1>6, <4>1
    <3>2. \A x \in {<<0, m>> : m \in KeptBefore} : x[2] < i
      BY DEF KeptBefore
    <3> QED
      BY <1>7, <2>8, <3>1, <3>2
  <2>12. /\ out \o codes \in Seq(Written) /\ InTextOrder(out \o codes)
         /\ Range(out \o codes) = CodesUpto(text, i) \cup {<<0, m>> : m \in KeptBefore}
    <3>1. /\ out \o codes \in Seq(Written) /\ InTextOrder(out \o codes)
          /\ Range(out \o codes) = Range(out) \cup Range(codes)
      BY <1>7, <2>3, <2>11, ConcatInTextOrder
    <3> QED
      BY <1>7, <2>3, <2>7, <3>1
  <2> QED
    BY <1>1, <1>8, <1>10, <2>1, <2>2, <2>5, <2>10, <2>12 DEF ReadUpto, N, new
<1> QED
  BY <1>9, <1>10 DEF S, N

\* Where the loop over the matches starts.
NotYet == [out |-> <<>>, codes |-> <<>>, end |-> 0, afterNumber |-> TRUE, subjects |-> <<>>]

\* The loop over the matches is a function of the number of its turns.
LEMMA LoopOverMatches ==
  ASSUME NEW text \in Seq(Word), NEW at, NEW count \in Nat
  PROVE  \E f : f = [k \in 0..count |-> IF k = 0 THEN NotYet ELSE Expanded(text, f[k - 1], at[k])]
<1> DEFINE Turn(g, k) == Expanded(text, g, at[k])
           Turned(f, n) == f = [k \in 0..n |-> IF k = 0 THEN NotYet ELSE Turn(f[k - 1], k)]
           Defined == {n \in Nat : \E f : Turned(f, n)}
<1> HIDE DEF Turn, NotYet
<1>1. 0 \in Defined
  <2> DEFINE f == [k \in 0..0 |-> NotYet]
  <2>1. f = [k \in 0..0 |-> IF k = 0 THEN NotYet ELSE Turn(f[k - 1], k)]
    OBVIOUS
  <2> QED
    BY <2>1
<1>2. ASSUME NEW n \in Nat, NEW f, Turned(f, n) PROVE \E g : Turned(g, n + 1)
  <2> DEFINE g == [k \in 0..(n + 1) |-> IF k <= n THEN f[k] ELSE Turn(f[n], n + 1)]
             h == [k \in 0..(n + 1) |-> IF k = 0 THEN NotYet ELSE Turn(g[k - 1], k)]
  <2>2. \A k \in 0..(n + 1) : g[k] = h[k]
    <3> TAKE k \in 0..(n + 1)
    <3>1. CASE k = 0
      BY <1>2, <3>1
    <3>2. CASE k \in 1..n
      <4>1. g[k] = f[k] /\ f[k] = Turn(f[k - 1], k) /\ g[k - 1] = f[k - 1] /\ k # 0
        BY <1>2, <3>2
      <4> HIDE DEF g
      <4> QED
        BY <4>1
    <3>3. CASE k = n + 1
      <4>1. g[k] = Turn(f[n], n + 1) /\ k - 1 = n /\ n \in 0..(n + 1) /\ k # 0 /\ k \in 0..(n + 1)
        BY <3>3
      <4>2. g[n] = f[n]
        OBVIOUS
      <4>3. h[k] = Turn(g[k - 1], k)
        <5> HIDE DEF g
        <5> QED
          BY <4>1
      <4> HIDE DEF g, h
      <4> QED
        BY <3>3, <4>1, <4>2, <4>3
    <3> QED
      BY <3>1, <3>2, <3>3
  <2>3. g = h
    <3>2. g = [k \in 0..(n + 1) |-> g[k]] /\ h = [k \in 0..(n + 1) |-> h[k]]
      OBVIOUS
    <3> HIDE DEF g, h
    <3> QED
      BY <2>2, <3>2
  <2> HIDE DEF g
  <2> QED
    BY <2>3
<1> HIDE DEF Turned
<1>3. count \in Defined
  <2>1. \A n \in Nat : n \in Defined => n + 1 \in Defined
    BY <1>2
  <2> HIDE DEF Defined
  <2> QED
    BY <1>1, <2>1, NumberInduction
<1>4. PICK f : Turned(f, count)
  BY <1>3
<1> QED
  BY <1>4 DEF Turned, Turn

\* The codes are those of the text, and what is left is in order, of every text.
LEMMA CodesOfText ==
  ASSUME NEW text \in Seq(Word)
  PROVE  CodesWrittenOut(text)
<1> DEFINE S == SubjectsIn(text)
           N == NumbersIn(text)
           M == Matches(text)
           n == Len(text)
           count == Cardinality(M)
           at == InOrder(M)
           got[k \in 0..count] == IF k = 0 THEN NotYet ELSE Expanded(text, got[k - 1], at[k])
           place(k) == IF k = 0 THEN 0 ELSE at[k]
<1>1. /\ n \in Nat /\ S \in SUBSET (1..n) /\ N \in SUBSET (1..n) /\ M \in SUBSET (1..n)
      /\ \A i \in M : i \in S \cup N /\ \E j \in N : i <= j
      /\ \A i \in S \cup N, j \in N : i <= j /\ S # {} => i \in M
  BY DEF SubjectsIn, NumbersIn, Matches
<1>2. /\ count \in Nat /\ at \in [1..count -> M]
      /\ \A i \in M : \E k \in 1..count : at[k] = i
      /\ \A k, l \in 1..count : k < l => at[k] < at[l]
  <2>1. IsFiniteSet(M) /\ M \subseteq Nat
    <3> HIDE DEF M, n
    <3> QED
      BY <1>1, PlacesAreFinite
  <2> HIDE DEF M
  <2> QED
    BY <2>1, InOrderProperties
<1>3. got[0] = NotYet /\ \A k \in 1..count : got[k] = Expanded(text, got[k - 1], at[k])
  <2> HIDE DEF count, at
  <2>1. \E f : f = [k \in 0..count |-> IF k = 0 THEN NotYet ELSE Expanded(text, f[k - 1], at[k])]
    BY <1>2, LoopOverMatches
  <2>2. got = [k \in 0..count |-> IF k = 0 THEN NotYet ELSE Expanded(text, got[k - 1], at[k])]
    BY <2>1, Zenon
  <2>3. 0 \in 0..count /\ \A k \in 1..count : k \in 0..count /\ k # 0
    BY <1>2
  <2> HIDE DEF got
  <2> QED
    BY <2>2, <2>3
<1>4. ExpandCourseCodes(text) = [out |-> got[count].out \o Copied(got[count].end + 1, n), codes |-> got[count].codes]
  BY DEF ExpandCourseCodes, NotYet
<1> HIDE DEF got, at, count, M, N, S
<1>5. ReadUpto(text, NotYet, 0)
  <2>1. GroupAt(text, 0) = {} /\ CodesUpto(text, 0) = {} /\ KeptUpto(text, 0) = {}
    BY <1>1 DEF GroupAt, CodesUpto, KeptUpto, S, N
  <2>2. <<>> \in Seq(Nat) /\ <<>> \in Seq(Written) /\ Len(<<>>) = 0 /\ DOMAIN <<>> = {}
    OBVIOUS
  <2>3. Increasing(<<>>) /\ InTextOrder(<<>>) /\ Range(<<>>) = {}
    BY <2>2 DEF Increasing, InTextOrder, Range
  <2> QED
    BY <2>1, <2>2, <2>3 DEF ReadUpto, NotYet
<1>6. \A k \in 0..count : ReadUpto(text, got[k], place(k))
  <2> DEFINE Good == {k \in Nat : k <= count => ReadUpto(text, got[k], place(k))}
  <2>1. 0 \in Good
    BY <1>3, <1>5
  <2>2. ASSUME NEW k \in Nat, k \in Good PROVE k + 1 \in Good
    <3> SUFFICES ASSUME k + 1 <= count PROVE ReadUpto(text, got[k + 1], at[k + 1])
      OBVIOUS
    <3> DEFINE p == place(k)
               i == at[k + 1]
    <3>1. k + 1 \in 1..count /\ k \in 0..count /\ (k # 0 => k \in 1..count)
      BY <1>2
    <3>2. ReadUpto(text, got[k], p)
      BY <2>2, <3>1, <1>2
    <3>3. i \in M /\ (k = 0 \/ p \in M)
      BY <1>2, <3>1
    <3>4. i \in 1..n /\ i \in S \cup N /\ \E j \in N : i <= j
      BY <1>1, <3>3
    <3>5. p \in Nat /\ (p = 0 \/ p \in S \cup N) /\ p < i
      <4>1. CASE k = 0
        BY <3>4, <4>1
      <4>2. CASE k # 0
        <5>1. p = at[k] /\ k < k + 1
          BY <4>2
        <5>2. p < i
          BY <1>2, <3>1, <4>2, <5>1
        <5>3. p \in M
          BY <3>3, <4>2
        <5> HIDE DEF p, i
        <5>4. p \in S \cup N /\ p \in 1..n
          BY <1>1, <5>3
        <5>5. p \in Nat
          BY <5>4
        <5> QED
          BY <5>2, <5>4, <5>5
      <4> QED
        BY <4>1, <4>2
    <3>6. ASSUME NEW j \in S \cup N, ~(j <= p), ~(i <= j) PROVE FALSE
      <4>1. j \in Nat /\ i \in Nat /\ p < j /\ j < i
        BY <1>1, <3>4, <3>5, <3>6
      <4>2. PICK m \in N : i <= m
        BY <3>4
      <4>3. j <= m
        BY <1>1, <4>1, <4>2
      <4>4. S # {}
        BY <3>3 DEF M, Matches, S
      <4>5. j \in M
        BY <1>1, <4>3, <4>4
      <4>6. PICK l \in 1..count : at[l] = j
        BY <1>2, <4>5
      <4>7. l <= k \/ k + 1 <= l
        OBVIOUS
      <4>8. CASE l <= k
        <5>1. k # 0 /\ p = at[k]
          BY <4>8
        <5>2. l < k => j < p
          BY <1>2, <3>1, <4>6, <5>1
        <5>3. l = k => j = p
          BY <4>6, <5>1
        <5> QED
          BY <3>5, <4>1, <4>8, <5>2, <5>3
      <4>9. CASE k + 1 <= l
        <5>1. k + 1 < l => i < j
          BY <1>2, <3>1, <4>6
        <5>2. l = k + 1 => i = j
          BY <4>6
        <5> QED
          BY <4>1, <4>9, <5>1, <5>2
      <4> QED
        BY <4>7, <4>8, <4>9
    <3>7. got[k + 1] = Expanded(text, got[k], i)
      <4>1. (k + 1) - 1 = k
        OBVIOUS
      <4> QED
        BY <1>3, <3>1, <4>1
    <3>8. ReadUpto(text, Expanded(text, got[k], i), i)
      <4> HIDE DEF p, i, n
      <4>1. i \in 1..Len(text)
        BY <3>4 DEF n
      <4> QED
        BY <3>2, <3>4, <3>5, <3>6, <4>1, OneMatchRead DEF S, N
    <3> QED
      BY <3>7, <3>8
  <2> HIDE DEF Good
  <2>3. \A k \in Nat : k \in Good
    BY <2>1, <2>2, NumberInduction
  <2> QED
    BY <1>2, <2>3 DEF Good
<1> DEFINE p == place(count)
           last == got[count]
           kept == {i \in 1..n : ~BeforeItsNumber(text, i) /\ (i \in N => S = {})}
           codes == {c \in S \X N : c[1] \in SubjectsOf(text, c[2])}
<1>7. ReadUpto(text, last, p)
  BY <1>2, <1>6
<1>8. p \in 0..n /\ (p = 0 \/ p \in N)
  <2>1. CASE count = 0
    BY <1>1, <2>1
  <2>2. CASE count # 0
    <3>1. count \in 1..count /\ p = at[count]
      BY <1>2, <2>2
    <3>2. p \in M
      BY <1>2, <3>1
    <3>3. PICK j \in N : p <= j
      BY <1>1, <3>2
    <3>4. j \in M
      <4>1. S # {}
        BY <3>2 DEF M, Matches, S
      <4>2. j <= j /\ j \in S \cup N
        BY <1>1
      <4> QED
        BY <1>1, <4>1, <4>2
    <3>5. PICK l \in 1..count : at[l] = j
      BY <1>2, <3>4
    <3>6. l < count => j < p
      BY <1>2, <3>1, <3>5
    <3>7. p \in Nat /\ j \in Nat /\ p \in 1..n
      <4> HIDE DEF p
      <4> QED
        BY <1>1, <3>2
    <3>8. l = count
      BY <1>2, <3>3, <3>6, <3>7
    <3>9. p = j
      BY <3>1, <3>5, <3>8
    <3> HIDE DEF p
    <3> QED
      BY <3>7, <3>9
  <2> QED
    BY <2>1, <2>2
<1>9. S # {} => \A j \in N : j <= p
  <2> SUFFICES ASSUME S # {}, NEW j \in N PROVE j <= p
    OBVIOUS
  <2>1. j \in M
    <3>1. j <= j /\ j \in S \cup N
      BY <1>1
    <3> QED
      BY <1>1, <3>1
  <2>2. PICK l \in 1..count : at[l] = j
    BY <1>2, <2>1
  <2>3. count \in 1..count /\ p = at[count] /\ (l = count \/ l < count)
    BY <1>2, <2>2
  <2>4. l < count => j < p
    BY <1>2, <2>2, <2>3
  <2>5. l = count => j = p
    BY <2>2, <2>3
  <2>6. j \in Nat /\ p \in Nat
    BY <1>1, <1>8
  <2> HIDE DEF p
  <2> QED
    BY <2>3, <2>4, <2>5, <2>6
<1>10. S = {} => p = 0
  <2> SUFFICES ASSUME S = {} PROVE count = 0
    OBVIOUS
  <2>1. M = {}
    BY DEF M, Matches, S
  <2>2. count # 0 => count \in 1..count
    BY <1>2
  <2> QED
    BY <1>2, <2>1, <2>2
<1> HIDE DEF p, last, place
<1>11. last.end = p
  BY <1>7, <1>8 DEF ReadUpto, N
<1>12. CodesUpto(text, p) = codes
  <2>1. \A j \in N : S # {} => j <= p
    BY <1>9
  <2>2. \A c \in S \X N : c[2] <= p
    BY <2>1
  <2> QED
    BY <2>2 DEF CodesUpto, S, N
<1> HIDE DEF n
<1>13. /\ Copied(p + 1, n) \in Seq(Written) /\ InTextOrder(Copied(p + 1, n))
       /\ Range(Copied(p + 1, n)) = {<<0, i>> : i \in (p + 1)..n}
  <2>1. p + 1 \in Nat /\ p + 1 >= 1 /\ p + 1 <= n + 1
    BY <1>1, <1>8
  <2> QED
    BY <1>1, <2>1, CopiedWords
<1>14. kept = KeptUpto(text, p) \cup ((p + 1)..n)
  <2>1. \A i \in 1..n : BeforeItsNumber(text, i) => \E m \in N, s \in S : i < m /\ s <= i
    BY DEF BeforeItsNumber, S, N
  <2>2. ASSUME NEW i \in (p + 1)..n PROVE i \in kept
    <3>1. i \in 1..n /\ i > p /\ i \in Nat /\ p \in Nat
      BY <1>1, <1>8
    <3>2. ASSUME S # {}, NEW m \in N, i <= m PROVE FALSE
      <4>1. m <= p /\ m \in Nat
        BY <1>1, <1>9, <3>2
      <4> QED
        BY <3>1, <3>2, <4>1
    <3>3. ~BeforeItsNumber(text, i)
      <4> SUFFICES ASSUME BeforeItsNumber(text, i) PROVE FALSE
        OBVIOUS
      <4>1. PICK m \in N : i < m /\ S # {}
        BY <2>1, <3>1
      <4>2. i <= m
        BY <1>1, <3>1, <4>1
      <4> QED
        BY <3>2, <4>1, <4>2
    <3>4. i \in N => S = {}
      <4>1. i <= i
        BY <3>1
      <4> QED
        BY <3>2, <4>1
    <3> QED
      BY <3>1, <3>3, <3>4
  <2>3. ASSUME NEW i \in KeptUpto(text, p) PROVE i \in kept
    BY DEF KeptUpto, N, n
  <2>4. ASSUME NEW i \in kept, i \notin (p + 1)..n PROVE i \in KeptUpto(text, p)
    <3>1. i \in 1..n /\ i <= p /\ i \in Nat
      BY <1>1, <1>8, <2>4
    <3>2. S # {}
      BY <1>8, <1>10, <3>1
    <3>3. i \notin N
      BY <3>2
    <3> QED
      BY <3>1, <3>3 DEF KeptUpto, N, n
  <2> HIDE DEF kept
  <2> QED
    BY <2>2, <2>3, <2>4
<1> HIDE DEF kept, codes
<1>15. /\ Range(last.out) = codes \cup {<<0, i>> : i \in KeptUpto(text, p)}
       /\ last.out \in Seq(Written) /\ InTextOrder(last.out)
       /\ Range(last.codes) = codes /\ InTextOrder(last.codes)
  BY <1>7, <1>12 DEF ReadUpto
<1>16. \A x \in Range(last.out), y \in Range(Copied(p + 1, n)) : x[2] < y[2]
  <2> SUFFICES ASSUME NEW x \in Range(last.out), NEW y \in Range(Copied(p + 1, n)) PROVE x[2] < y[2]
    OBVIOUS
  <2>1. x[2] \in Nat /\ x[2] <= p
    <3>1. CASE x \in codes
      <4>1. x \in CodesUpto(text, p)
        BY <1>12, <3>1
      <4>2. x \in S \X N /\ x[2] <= p
        BY <4>1 DEF CodesUpto, S, N
      <4>3. x[2] \in N
        BY <4>2
      <4>4. \A j \in N : j \in Nat
        BY <1>1
      <4> QED
        BY <4>2, <4>3, <4>4
    <3>2. CASE x \in {<<0, i>> : i \in KeptUpto(text, p)}
      <4>1. PICK i \in KeptUpto(text, p) : x = <<0, i>>
        BY <3>2
      <4>2. i \in Nat /\ i <= p
        BY DEF KeptUpto
      <4> QED
        BY <4>1, <4>2
    <3> QED
      BY <1>15, <3>1, <3>2
  <2>2. PICK i \in (p + 1)..n : y = <<0, i>>
    BY <1>13
  <2>3. y[2] = i /\ p < i /\ p \in Nat
    BY <1>1, <1>8, <2>2
  <2> QED
    BY <2>1, <2>3
<1>17. /\ InTextOrder(last.out \o Copied(p + 1, n))
       /\ Range(last.out \o Copied(p + 1, n)) = codes \cup {<<0, i>> : i \in kept}
  <2>1. /\ InTextOrder(last.out \o Copied(p + 1, n))
        /\ Range(last.out \o Copied(p + 1, n)) = Range(last.out) \cup Range(Copied(p + 1, n))
    BY <1>13, <1>15, <1>16, ConcatInTextOrder
  <2> QED
    BY <1>13, <1>14, <1>15, <2>1
<1>18. /\ ExpandCourseCodes(text).out = last.out \o Copied(p + 1, n)
       /\ ExpandCourseCodes(text).codes = last.codes
  <2>1. got[count] = last
    BY DEF last
  <2> DEFINE out == last.out \o Copied(p + 1, n)
  <2>2. ExpandCourseCodes(text) = [out |-> out, codes |-> last.codes]
    BY <1>4, <1>11, <2>1
  <2> HIDE DEF out
  <2>3. ExpandCourseCodes(text).out = out /\ ExpandCourseCodes(text).codes = last.codes
    BY <2>2
  <2> QED
    BY <2>3 DEF out
<1> QED
  BY <1>15, <1>17, <1>18 DEF CodesWrittenOut, kept, codes, S, N, n

-----------------------------------------------------------------------------
(* Terms of the important dates.                                           *)

\* The terms of an import are those of its events, of every list of details.
LEMMA TermsFromEvents ==
  ASSUME NEW details \in Seq(Detail),
         NEW T \in SUBSET Term, NEW table \in [T -> [start: Day, end: Day]]
  PROVE  TermsOfTheirEvents(table, details)
<1> DEFINE got == ConvertAll(details)
           rows(t) == {i \in Begins(details) : got.terms[i].id = t}
           dates(t) == {[start |-> got.terms[i].start, end |-> got.terms[i].end] : i \in rows(t)}
           ids == DOMAIN table \cup {t \in Term : rows(t) # {}}
           double == \E t \in Term \ DOMAIN table : Cardinality(rows(t)) > 1
           taken == got.ok /\ ~double
<1>1. /\ Len(details) \in Nat
      /\ \A i \in 1..Len(details) : details[i] \in Detail
  OBVIOUS
<1>2. /\ Begins(details) \subseteq 1..Len(details)
      /\ Ends(details) \subseteq 1..Len(details)
  BY DEF Begins, Ends
<1>3. \A t, e : e \in EndOf(details, t) =>
        \E j \in Ends(details) : details[j].term = t /\ details[j].date = e
  <2> SUFFICES ASSUME NEW t, NEW e, e \in EndOf(details, t)
               PROVE  \E j \in Ends(details) : details[j].term = t /\ details[j].date = e
    OBVIOUS
  <2> DEFINE ends == {i \in Ends(details) : details[i].term = t}
  <2>1. ends # {} /\ e = details[LastPlace(ends)].date
    BY DEF EndOf
  <2>2. LastPlace(ends) \in ends
    BY <1>1, <1>2, <2>1, LastPlaceOf
  <2> QED
    BY <2>1, <2>2
<1>4. \A t : (\E j \in Ends(details) : details[j].term = t) => EndOf(details, t) # {}
  BY DEF EndOf
<1>5. ASSUME got.ok
      PROVE  \A i \in Begins(details) :
               /\ details[i].term \in Term /\ details[i].date \in Day
               /\ got.terms[i].id = details[i].term /\ got.terms[i].start = details[i].date
               /\ \E j \in Ends(details) : details[j].term = details[i].term /\ details[j].date = got.terms[i].end
  <2> TAKE i \in Begins(details)
  <2> DEFINE end == EndOf(details, details[i].term)
  <2>1. /\ ~\E k \in Begins(details) \cup Ends(details) : details[k].term = Unreadable
        /\ end # {} /\ Unreadable \notin {details[i].date} \cup end
    BY <1>5 DEF ConvertAll
  <2>2. got.terms[i] = [id |-> details[i].term, start |-> details[i].date, end |-> CHOOSE e \in end : TRUE]
    BY <1>5 DEF ConvertAll
  <2>3. got.terms[i].end \in end
    BY <2>1, <2>2
  <2>4. details[i] \in Detail
    BY <1>1, <1>2
  <2> HIDE DEF end
  <2>5. details[i].term \in Term /\ details[i].date \in Day
    BY <2>1, <2>4 DEF Detail
  <2> HIDE DEF got
  <2> QED
    BY <1>3, <2>2, <2>3, <2>5 DEF end
<1>6. \A new \in Imported(table, details) :
        \/ new = table
        \/ /\ taken /\ DOMAIN new = ids
           /\ \A t \in ids : IF rows(t) = {} THEN new[t] = table[t] ELSE new[t] \in dates(t)
  BY DEF Imported
<1>7. \A new \in Imported(table, details) : taken =>
        /\ DOMAIN new = ids
        /\ \A t \in ids : IF rows(t) = {} THEN new[t] = table[t] ELSE new[t] \in dates(t)
  BY DEF Imported
<1>8. ASSUME Flawless(details) PROVE taken
  <2>1. \A i \in Begins(details) \cup Ends(details) : details[i].term # Unreadable /\ details[i].date # Unreadable
    BY <1>8 DEF Flawless, Begins, Ends
  <2>2. \A i \in Begins(details) : EndOf(details, details[i].term) # {}
    BY <1>4, <1>8 DEF Flawless, Begins, Ends
  <2>3. \A i \in Begins(details) : Unreadable \notin EndOf(details, details[i].term)
    BY <1>3, <2>1
  <2>4. got.ok
    BY <2>1, <2>2, <2>3 DEF ConvertAll
  <2>5. \A t \in Term : Cardinality(rows(t)) <= 1
    <3> TAKE t \in Term
    <3>1. CASE rows(t) = {}
      <4> HIDE DEF rows
      <4> QED
        BY <3>1, FS_EmptySet
    <3>2. CASE rows(t) # {}
      <4>1. PICK i \in rows(t) : TRUE
        BY <3>2
      <4>2. rows(t) = {j \in 1..Len(details) : details[j].event = details[i].event /\ details[j].term = details[i].term}
        <5>1. \A j \in Begins(details) : got.terms[j].id = details[j].term
          BY <1>5, <2>4
        <5> HIDE DEF got
        <5> QED
          BY <4>1, <5>1 DEF Begins
      <4>3. i \in 1..Len(details) /\ details[i].event = "begin"
        BY <4>1 DEF Begins
      <4>4. Cardinality({j \in 1..Len(details) : details[j].event = details[i].event /\ details[j].term = details[i].term}) = 1
        BY <1>8, <4>3 DEF Flawless
      <4>5. Cardinality(rows(t)) = 1
        BY ONLY <4>2, <4>4
      <4> HIDE DEF rows
      <4> QED
        BY <4>5
    <3> QED
      BY <3>1, <3>2
  <2>6. \A t \in Term : Cardinality(rows(t)) \in Nat
    <3> TAKE t \in Term
    <3>1. rows(t) \subseteq 1..Len(details)
      BY <1>2
    <3> HIDE DEF rows
    <3>2. IsFiniteSet(rows(t))
      <4>1. IsFiniteSet(1..Len(details))
        BY <1>1, FS_Interval
      <4> QED
        BY <3>1, <4>1, FS_Subset
    <3> QED
      BY <3>2, FS_CardinalityType
  <2> HIDE DEF rows
  <2> QED
    BY <2>4, <2>5, <2>6
<1> SUFFICES ASSUME NEW new \in Imported(table, details)
             PROVE  /\ DOMAIN table \subseteq DOMAIN new
                    /\ new # table =>
                         \A i \in 1..Len(details) : details[i].event = "begin" => details[i].term \in DOMAIN new
                    /\ Flawless(details) => \A i, j \in 1..Len(details) :
                         details[i].event = "begin" /\ details[j].event = "end" /\ details[i].term = details[j].term =>
                           details[i].term \in DOMAIN new /\ new[details[i].term] = [start |-> details[i].date, end |-> details[j].date]
                    /\ \A t \in DOMAIN new :
                         \/ t \in DOMAIN table /\ new[t] = table[t]
                         \/ \E i, j \in 1..Len(details) :
                              /\ details[i] = [event |-> "begin", term |-> t, date |-> new[t].start]
                              /\ details[j] = [event |-> "end", term |-> t, date |-> new[t].end]
  BY DEF TermsOfTheirEvents
<1> HIDE DEF got
<1>9. DOMAIN table \subseteq DOMAIN new
  BY <1>6
<1>10. ASSUME taken
       PROVE  \A i \in Begins(details) : details[i].term \in ids /\ i \in rows(details[i].term)
  BY <1>5, <1>10
<1>11. ASSUME new # table, NEW i \in 1..Len(details), details[i].event = "begin"
       PROVE  details[i].term \in DOMAIN new
  <2>1. i \in Begins(details)
    BY <1>11 DEF Begins
  <2> HIDE DEF ids, taken
  <2> QED
    BY <1>6, <1>10, <1>11, <2>1
<1>12. ASSUME Flawless(details), NEW i \in 1..Len(details), NEW j \in 1..Len(details),
              details[i].event = "begin", details[j].event = "end", details[i].term = details[j].term
       PROVE  details[i].term \in DOMAIN new /\ new[details[i].term] = [start |-> details[i].date, end |-> details[j].date]
  <2> DEFINE t == details[i].term
  <2>0. i \in Begins(details) /\ j \in Ends(details)
    BY <1>12 DEF Begins, Ends
  <2>1. t \in ids /\ i \in rows(t)
    BY <1>8, <1>10, <1>12, <2>0
  <2>2. DOMAIN new = ids /\ new[t] \in dates(t)
    <3> HIDE DEF ids, rows, dates, taken
    <3> QED
      BY <1>7, <1>8, <1>12, <2>1
  <2>3. PICK k \in rows(t) : new[t] = [start |-> got.terms[k].start, end |-> got.terms[k].end]
    BY <2>2
  <2>4. got.ok
    BY <1>8, <1>12
  <2>5. /\ k \in Begins(details) /\ details[k].term = t
        /\ got.terms[k].start = details[k].date
        /\ \E l \in Ends(details) : details[l].term = t /\ details[l].date = got.terms[k].end
    BY <1>5, <2>3, <2>4
  <2>6. PICK l \in Ends(details) : details[l].term = t /\ details[l].date = got.terms[k].end
    BY <2>5
  <2>7. \A a, b \in 1..Len(details) :
          details[a].event # "other" /\ details[a].event = details[b].event /\ details[a].term = details[b].term => a = b
    <3> SUFFICES ASSUME NEW a \in 1..Len(details), NEW b \in 1..Len(details),
                        details[a].event # "other", details[a].event = details[b].event, details[a].term = details[b].term
                 PROVE  a = b
      OBVIOUS
    <3> DEFINE same == {c \in 1..Len(details) : details[c].event = details[a].event /\ details[c].term = details[a].term}
    <3>1. Cardinality(same) = 1
      BY <1>12 DEF Flawless
    <3>2. IsFiniteSet(same)
      <4>1. IsFiniteSet(1..Len(details)) /\ same \subseteq 1..Len(details)
        BY <1>1, FS_Interval
      <4> QED
        BY <4>1, FS_Subset
    <3>3. a \in same /\ b \in same
      OBVIOUS
    <3> HIDE DEF same
    <3>4. PICK x : same = {x}
      BY <3>1, <3>2, FS_Singleton
    <3> QED
      BY <3>3, <3>4
  <2>8. k = i
    BY <1>12, <2>0, <2>5, <2>7 DEF Begins
  <2>9. l = j
    BY <1>12, <2>0, <2>6, <2>7 DEF Ends
  <2> QED
    BY <2>1, <2>2, <2>3, <2>5, <2>6, <2>8, <2>9
<1>13. ASSUME NEW t \in DOMAIN new
       PROVE  \/ t \in DOMAIN table /\ new[t] = table[t]
              \/ \E i, j \in 1..Len(details) :
                   /\ details[i] = [event |-> "begin", term |-> t, date |-> new[t].start]
                   /\ details[j] = [event |-> "end", term |-> t, date |-> new[t].end]
  <2>1. CASE new = table
    BY <2>1
  <2>2. CASE taken /\ DOMAIN new = ids /\ rows(t) = {} /\ new[t] = table[t]
    BY <1>13, <2>2
  <2>3. CASE taken /\ DOMAIN new = ids /\ rows(t) # {} /\ new[t] \in dates(t)
    <3>1. PICK k \in rows(t) : new[t] = [start |-> got.terms[k].start, end |-> got.terms[k].end]
      BY <2>3
    <3>2. /\ k \in Begins(details) /\ details[k].term = t
          /\ got.terms[k].start = details[k].date
          /\ \E l \in Ends(details) : details[l].term = t /\ details[l].date = got.terms[k].end
      BY <1>5, <2>3, <3>1
    <3>3. PICK l \in Ends(details) : details[l].term = t /\ details[l].date = got.terms[k].end
      BY <3>2
    <3>4. /\ k \in 1..Len(details) /\ details[k] \in Detail /\ details[k].event = "begin"
          /\ l \in 1..Len(details) /\ details[l] \in Detail /\ details[l].event = "end"
      BY <1>1, <3>2 DEF Begins, Ends
    <3>5. new[t].start = details[k].date /\ new[t].end = details[l].date
      BY <3>1, <3>2, <3>3
    <3>6. details[k] = [event |-> "begin", term |-> t, date |-> new[t].start]
      BY <3>2, <3>4, <3>5 DEF Detail
    <3>7. details[l] = [event |-> "end", term |-> t, date |-> new[t].end]
      BY <3>3, <3>4, <3>5 DEF Detail
    <3> QED
      BY <3>4, <3>6, <3>7
  <2> HIDE DEF rows, ids, dates, taken
  <2> QED
    BY <1>6, <1>13, <2>1, <2>2, <2>3
<1> QED
  BY <1>9, <1>11, <1>12, <1>13

-----------------------------------------------------------------------------
(* Meetings: the events of a timetable.                                    *)

\* The two tables of days agree on which day a Y stands for.
LEMMA DaysOfPattern ==
  ASSUME NEW pattern \in SUBSET (1..7), NEW d \in Nat
  PROVE  Weekday(d) \in {DayToIndex(day) : day \in ParseWeekdayString(pattern)}
           <=> (IF Weekday(d) = 0 THEN 7 ELSE Weekday(d)) \in pattern
<1>1. \A i \in 1..7 : DayToIndex(WeekdayCodes[i]) = IF i = 7 THEN 0 ELSE i
  <2> TAKE i \in 1..7
  <2>1. i = 1 \/ i = 2 \/ i = 3 \/ i = 4 \/ i = 5 \/ i = 6 \/ i = 7
    OBVIOUS
  <2> QED
    BY <2>1 DEF DayToIndex, WeekdayCodes
<1>2. {DayToIndex(day) : day \in ParseWeekdayString(pattern)} = {IF i = 7 THEN 0 ELSE i : i \in pattern}
  BY <1>1 DEF ParseWeekdayString
<1>3. Weekday(d) \in 0..6
  BY DEF Weekday
<1>4. \A i \in pattern : i \in 1..7
  OBVIOUS
<1> HIDE DEF Weekday
<1> QED
  BY <1>2, <1>3, <1>4

\* The clocks at the university show an event at the hours of its row, but for
\* the day of the change.
LEMMA EventOnTheWall ==
  ASSUME NEW row, row.start \in 0..23, row.end \in 0..23,
         NEW clock \in Clocks, NEW d \in Nat
  PROVE  LET off(hour) == IF d = SwitchDay /\ hour >= 2 THEN clock.before - clock.after ELSE 0
             e == EventOf(row, d, clock) IN
         /\ Wall(e.start, clock) = 24 * d + row.start + off(row.start)
         /\ Wall(e.end, clock) = 24 * d + row.end + off(row.end)
<1>1. clock.before \in Int /\ clock.after \in Int /\ clock.before - clock.after \in -12..12
  BY MeetingAssumption
<1>2. SwitchDay \in Nat
  BY MeetingAssumption
<1> DEFINE b == clock.before
           a == clock.after
           n == SwitchDay
<1>3. \A h \in 0..23 :
        Wall(Midnight(d, clock) + h, clock) =
          24 * d + h + (IF d = n /\ h >= 2 THEN b - a ELSE 0)
  <2> TAKE h \in 0..23
  <2>0. b \in Int /\ a \in Int /\ b - a \in -12..12 /\ n \in Nat
    BY <1>1, <1>2
  <2>1. CASE d < n
    <3>1. Midnight(d, clock) = 24 * d + b
      BY <2>1, <2>0 DEF Midnight
    <3> HIDE DEF b, a, n
    <3>2. 24 * d + b + h < 24 * n + 2 + b
      BY <2>0, <2>1
    <3>3. Wall(24 * d + b + h, clock) = 24 * d + b + h - b
      BY <1>1, <1>2, <3>2 DEF Wall, b, n
    <3> QED
      BY <2>0, <2>1, <3>1, <3>3
  <2>2. CASE d = n
    <3>1. Midnight(d, clock) = 24 * d + b
      BY <2>2, <2>0 DEF Midnight
    <3> HIDE DEF b, a
    <3>2. 24 * d + b + h < 24 * n + 2 + b <=> h < 2
      BY <2>0, <2>2
    <3>3. Wall(24 * d + b + h, clock) = 24 * d + b + h - (IF h < 2 THEN b ELSE a)
      BY <1>1, <1>2, <3>2 DEF Wall, b, a, n
    <3> QED
      BY <2>0, <2>2, <3>1, <3>3
  <2>3. CASE d > n
    <3>1. Midnight(d, clock) = 24 * d + a
      BY <2>3, <2>0 DEF Midnight
    <3> HIDE DEF b, a, n
    <3>2. ~(24 * d + a + h < 24 * n + 2 + b)
      BY <2>0, <2>3
    <3>3. Wall(24 * d + a + h, clock) = 24 * d + a + h - a
      BY <1>1, <1>2, <3>2 DEF Wall, a, b, n
    <3> QED
      BY <2>0, <2>3, <3>1, <3>3
  <2> QED
    BY <2>0, <2>1, <2>2, <2>3
<1> HIDE DEF b, a, n
<1> QED
  BY <1>3 DEF EventOf, b, a, n

\* Events of a row on two days are two.
LEMMA OneEventADay ==
  ASSUME NEW row, row.start \in 0..23, row.end \in 0..23,
         NEW clock \in Clocks, NEW d1 \in Nat, NEW d2 \in Nat,
         EventOf(row, d1, clock) = EventOf(row, d2, clock)
  PROVE  d1 = d2
<1>1. clock.before \in Int /\ clock.after \in Int /\ clock.before - clock.after \in -12..12
  BY MeetingAssumption
<1>2. SwitchDay \in Nat
  BY MeetingAssumption
<1>3. Midnight(d1, clock) + row.start = Midnight(d2, clock) + row.start
  BY DEF EventOf
<1> QED
  BY <1>1, <1>2, <1>3 DEF Midnight

\* The events of a meeting are on its days, of every meeting.
LEMMA MeetingOfDays ==
  ASSUME NEW m \in Listed
  PROVE  EventsWhenListed(m)
<1> DEFINE rows == ConvertMeeting(m)
           clock == m.clock
           off(d, hour) == IF d = SwitchDay /\ hour >= 2 THEN m.clock.before - m.clock.after ELSE 0
           times == IF m.times = NoTimes THEN [start |-> 0, end |-> 0] ELSE m.times
           days == {d \in m.first..m.last : TakesPlace(m, d)}
           got == UNION {Range(EventsOf(row, m.clock)) : row \in rows}
           Told(e) == [start |-> Wall(e.start, m.clock), end |-> Wall(e.end, m.clock)]
           Due(d) == [start |-> 24 * d + times.start + off(d, times.start), end |-> 24 * d + times.end + off(d, times.end)]
<1>1. /\ m.first \in Nat /\ m.last \in Nat /\ clock \in Clocks
      /\ m.pattern \in SUBSET (1..7) /\ m.times \in Times \cup {NoTimes, BadTimes}
  BY MeetingAssumption DEF Listed
<1>2. m.times # BadTimes => times.start \in 0..23 /\ times.end \in 0..23
  BY <1>1, MeetingAssumption
<1>3. IsFiniteSet(days) /\ days \subseteq Nat
  <2>1. IsFiniteSet(m.first..m.last)
    BY <1>1, FS_Interval
  <2>2. days \subseteq m.first..m.last
    OBVIOUS
  <2> QED
    BY <2>1, <2>2, <1>1, FS_Subset
<1>4. CASE ~m.numbered \/ m.times = BadTimes \/ ~m.dated
  <2>1. rows = {}
    BY <1>4 DEF ConvertMeeting
  <2>2. days = {}
    BY <1>4 DEF TakesPlace
  <2>3. got = {}
    BY <2>1
  <2> QED
    BY <2>2, <2>3, FS_EmptySet DEF EventsWhenListed
<1>5. CASE m.numbered /\ m.times # BadTimes /\ m.dated
  <2> DEFINE row == [start |-> times.start, end |-> times.end,
                     first |-> m.first, last |-> m.last, days |-> ParseWeekdayString(m.pattern)]
             ev == [d \in days |-> EventOf(row, d, clock)]
  <2>1. rows = {row}
    BY <1>5 DEF ConvertMeeting
  <2>2. {d \in m.first..m.last : Weekday(d) \in {DayToIndex(day) : day \in ParseWeekdayString(m.pattern)}} = days
    <3>1. \A d \in m.first..m.last : d \in Nat /\ m.first <= d /\ d <= m.last
      BY <1>1
    <3> QED
      BY <1>1, <1>5, <3>1, DaysOfPattern DEF TakesPlace
  <2>3. EventsOf(row, clock) = [i \in 1..Cardinality(days) |-> EventOf(row, InOrder(days)[i], clock)]
    BY <2>2 DEF EventsOf
  <2>4. got = {EventOf(row, d, clock) : d \in days}
    <3> HIDE DEF days, row
    <3>1. got = Range(EventsOf(row, clock))
      BY <2>1
    <3>2. Range(EventsOf(row, clock)) = {EventOf(row, InOrder(days)[i], clock) : i \in 1..Cardinality(days)}
      BY <2>3 DEF Range
    <3>3. \A d \in days : \E i \in 1..Cardinality(days) : InOrder(days)[i] = d
      BY <1>3, InOrderProperties
    <3>4. \A i \in 1..Cardinality(days) : InOrder(days)[i] \in days
      BY <1>3, InOrderProperties
    <3> QED
      BY <3>1, <3>2, <3>3, <3>4
  <2>5. row.start \in 0..23 /\ row.end \in 0..23
    BY <1>2, <1>5
  <2>6. \A d \in days : Told(EventOf(row, d, clock)) = Due(d)
    <3> TAKE d \in days
    <3>1. d \in Nat
      BY <1>3
    <3> HIDE DEF days, times
    <3>2. /\ Wall(EventOf(row, d, clock).start, clock) = 24 * d + row.start + off(d, row.start)
          /\ Wall(EventOf(row, d, clock).end, clock) = 24 * d + row.end + off(d, row.end)
      BY <1>1, <2>5, <3>1, EventOnTheWall
    <3> QED
      BY <3>2
  <2>7. {Told(e) : e \in got} = {Due(d) : d \in days}
    <3> HIDE DEF days, row, Told, Due, got
    <3> QED
      BY <2>4, <2>6
  <2>8. Cardinality(got) = Cardinality(days)
    <3> HIDE DEF days, row, got
    <3>1. ev \in [days -> got]
      BY <2>4
    <3>2. \A a, b \in days : ev[a] = ev[b] => a = b
      BY <1>1, <1>3, <2>5, OneEventADay
    <3>3. \A e \in got : \E d \in days : ev[d] = e
      BY <2>4
    <3> HIDE DEF ev
    <3>4. ev \in Bijection(days, got)
      BY <3>1, <3>2, <3>3, Fun_IsBij
    <3> QED
      BY <1>3, <3>4, FS_Bijection DEF ExistsBijection
  <2>9. \A e \in got : e.end > e.start <=> times.end > times.start
    <3> TAKE e \in got
    <3>1. PICK d \in days : e = EventOf(row, d, clock)
      BY <2>4
    <3>2. Midnight(d, clock) \in Int
      BY <1>1, <1>3, MeetingAssumption DEF Midnight
    <3>3. e.start = Midnight(d, clock) + times.start /\ e.end = Midnight(d, clock) + times.end
      BY <3>1 DEF EventOf
    <3>4. times.start \in 0..23 /\ times.end \in 0..23
      BY <1>2, <1>5
    <3> HIDE DEF times
    <3> QED
      BY <3>2, <3>3, <3>4
  <2> QED
    BY <2>7, <2>8, <2>9 DEF EventsWhenListed
<1> QED
  BY <1>4, <1>5

-----------------------------------------------------------------------------
(* The specification.                                                      *)

\* The input is one of the reader's.
InputOfReader == reader \in DOMAIN Pieces /\ input \in Seq(Pieces[reader])

\* Each reader's input stays one of its own.
LEMMA InputStays == Spec => []InputOfReader
<1>1. Init => InputOfReader
  BY DEF Init, InputOfReader
<1>2. InputOfReader /\ [Read]_vars => InputOfReader'
  <2> SUFFICES ASSUME InputOfReader, [Read]_vars PROVE InputOfReader'
    OBVIOUS
  <2>1. CASE Read
    <3>1. PICK piece \in Pieces[reader] : input' = Append(input, piece)
      BY <2>1 DEF Read
    <3> DEFINE P == Pieces[reader]
    <3>2. reader' = reader /\ input \in Seq(P) /\ piece \in P
      BY <2>1 DEF Read, InputOfReader
    <3> HIDE DEF P
    <3>3. input' \in Seq(P)
      BY <3>1, <3>2
    <3> QED
      BY <3>2, <3>3 DEF P, InputOfReader
  <2>2. CASE UNCHANGED vars
    BY <2>2 DEF vars, InputOfReader
  <2> QED
    BY <2>1, <2>2
<1> QED
  BY <1>1, <1>2, PTL DEF Spec

\* What each reader makes of an input of its own (Parse of both packages,
\* parseCourseRequirements, expandCourseCodes, convertAll and insertAll,
\* convertMeeting and postgresToWebcalEvents).
LEMMA EachReads ==
  ASSUME InputOfReader
  PROVE  ScheduleRead /\ TranscriptRead /\ RequirementsRead /\ CodesRead /\ EventsRead /\ MeetingsRead
<1>1. /\ Pieces["schedule"] = ScheduleLine /\ Pieces["transcript"] = TranscriptLine
      /\ Pieces["requirements"] = Piece /\ Pieces["codes"] = Word
      /\ Pieces["events"] = Detail /\ Pieces["meeting"] = Listed
  BY DEF Pieces
<1>2. input \in Seq(Pieces[reader])
  BY DEF InputOfReader
<1>3. ScheduleRead
  BY <1>1, <1>2, ClassesOfText DEF ScheduleRead
<1>4. TranscriptRead
  BY <1>1, <1>2, CoursesOfText DEF TranscriptRead
<1>5. RequirementsRead
  BY <1>1, <1>2, RequirementsOfText DEF RequirementsRead
<1>6. CodesRead
  BY <1>1, <1>2, CodesOfText DEF CodesRead
<1>7. EventsRead
  <2>1. PICK known \in SUBSET Term : Table \in [known -> [start: Day, end: Day]]
    BY ReaderAssumption
  <2> QED
    BY <1>1, <1>2, <2>1, TermsFromEvents DEF EventsRead
<1>8. MeetingsRead
  <2> SUFFICES ASSUME input \in Seq(Listed) PROVE \A i \in 1..Len(input) : EventsWhenListed(input[i])
    BY <1>1, <1>2 DEF MeetingsRead
  <2>1. \A i \in 1..Len(input) : input[i] \in Listed
    OBVIOUS
  <2> QED
    BY <2>1, MeetingOfDays
<1> QED
  BY <1>3, <1>4, <1>5, <1>6, <1>7, <1>8

\* A schedule of any length: which class numbers are found, and that each class
\* has the rooms between its number and the next (schedule.Parse).
THEOREM SchedulesReadRight == Spec => []ScheduleRead
BY InputStays, EachReads, PTL

\* A transcript of any length: each course goes to the term it stands under, and
\* each term has its own level (extractTermSummaries).
THEOREM TranscriptsReadRight == Spec => []TranscriptRead
BY InputStays, EachReads, PTL

\* A description of any length: each label has the text up to the next label, and
\* none is sliced backwards (parseCourseRequirements).
THEOREM RequirementsReadRight == Spec => []RequirementsRead
BY InputStays, EachReads, PTL

\* A requirement of any length: which codes are in it, and what of it is left as
\* it was (expandCourseCodes).
THEOREM CodesReadRight == Spec => []CodesRead
BY InputStays, EachReads, PTL

\* A list of dates of any length: terms are taken all or none, each with dates
\* that were announced for it, and none is lost (convertAll, insertAll).
THEOREM EventsReadRight == Spec => []EventsRead
BY InputStays, EachReads, PTL

\* Every meeting, with times in any order: its events are on the days it is listed
\* on, at its hours but for the day the clocks change, and end after they start
\* exactly if it is listed so (convertMeeting, postgresToWebcalEvents).
THEOREM MeetingsReadRight == Spec => []MeetingsRead
BY InputStays, EachReads, PTL
=============================================================================

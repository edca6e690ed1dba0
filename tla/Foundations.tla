----------------------------- MODULE Foundations -----------------------------
(***************************************************************************)
(* What the proofs of several components need: induction and recursion     *)
(* over intervals of numbers, and what sorting gives.  The property of an  *)
(* induction is the set of the numbers that have it, the step of a         *)
(* recursion a function, an order the set of its pairs.                    *)
(***************************************************************************)
EXTENDS Ordering, FiniteSetTheorems, WellFoundedInduction, TLAPS

\* A set of natural numbers that is not empty has a least element.
LEMMA LeastElement ==
  ASSUME NEW T, T \subseteq Nat, T # {}
  PROVE  \E n \in T : \A m \in T : n <= m
<1>1. PICK n \in T : \A m \in T : <<m, n>> \notin OpToRel(<, Nat)
  BY NatLessThanWellFounded, WFMin
<1>2. \A m \in T : ~(m < n)
  BY <1>1 DEF OpToRel
<1> QED
  BY <1>2

\* Induction upwards from 0.
LEMMA Induction ==
  ASSUME NEW T, 0 \in T, \A n \in Nat : n \in T => n + 1 \in T
  PROVE  Nat \subseteq T
<1> SUFFICES ASSUME NEW k \in Nat, k \notin T PROVE FALSE
  OBVIOUS
<1> DEFINE Missing == {n \in Nat : n \notin T}
<1>1. PICK n \in Missing : \A m \in Missing : n <= m
  BY LeastElement
<1>2. n # 0 /\ n - 1 \in Nat
  BY <1>1
<1>3. n - 1 \in T
  BY <1>1, <1>2
<1> QED
  BY <1>1, <1>2, <1>3

\* Induction upwards within 1..n.
LEMMA InductionUp ==
  ASSUME NEW n \in Nat, NEW T,
         n > 0 => 1 \in T,
         \A b \in 1..n : b \in T /\ b < n => b + 1 \in T
  PROVE  1..n \subseteq T
<1> DEFINE U == {k \in Nat : k + 1 <= n => k + 1 \in T}
<1>1. Nat \subseteq U
  <2>1. 0 \in U
    OBVIOUS
  <2>2. \A k \in Nat : k \in U => k + 1 \in U
    OBVIOUS
  <2> HIDE DEF U
  <2> QED
    BY <2>1, <2>2, Induction
<1>2. \A b \in 1..n : b - 1 \in U
  BY <1>1
<1> QED
  BY <1>2

\* Induction downwards from n to 1.
LEMMA InductionDown ==
  ASSUME NEW n \in Nat, NEW T,
         n > 0 => n \in T,
         \A b \in 1..n : b \in T /\ b > 1 => b - 1 \in T
  PROVE  1..n \subseteq T
<1> DEFINE U == {k \in Nat : k < n => n - k \in T}
<1>1. Nat \subseteq U
  <2>1. 0 \in U
    OBVIOUS
  <2>2. \A k \in Nat : k \in U => k + 1 \in U
    <3> SUFFICES ASSUME NEW k \in Nat, k \in U, k + 1 < n PROVE n - (k + 1) \in T
      OBVIOUS
    <3>1. n - k \in T /\ n - k \in 1..n /\ n - k > 1
      OBVIOUS
    <3>2. (n - k) - 1 \in T
      BY <3>1
    <3> QED
      BY <3>2
  <2> HIDE DEF U
  <2> QED
    BY <2>1, <2>2, Induction
<1>2. \A b \in 1..n : n - b \in U /\ n - (n - b) = b
  BY <1>1
<1> QED
  BY <1>2

-----------------------------------------------------------------------------
(* A recursive function exists when its steps stay in a set; what CHOOSE    *)
(* then picks satisfies the equation that defines it.                       *)

\* A function into S that begins with `first` and goes on by `step`.
SolvableUp(lo, hi, S, first, step) ==
  \E f \in [lo..hi -> S] :
    \A b \in lo..hi : f[b] = IF b = lo THEN first ELSE step[b][f[b - 1]]

SolvableDown(n, S, last, step) ==
  \E f \in [1..n -> S] :
    \A b \in 1..n : f[b] = IF b = n THEN last ELSE step[b][f[b + 1]]

\* Recursion upwards over lo..hi.
LEMMA RecursionUp ==
  ASSUME NEW lo \in Int, NEW hi \in Int, NEW S, NEW first \in S,
         NEW step \in [lo..hi -> [S -> S]]
  PROVE  SolvableUp(lo, hi, S, first, step)
<1> DEFINE Solves(f, top) ==
      \A b \in lo..top : f[b] = IF b = lo THEN first ELSE step[b][f[b - 1]]
    T == {n \in Nat : lo + n <= hi => \E f \in [lo..(lo + n) -> S] : Solves(f, lo + n)}
<1>1. 0 \in T
  <2> DEFINE f == [b \in lo..lo |-> first]
  <2>1. f \in [lo..(lo + 0) -> S]
    OBVIOUS
  <2>2. Solves(f, lo + 0)
    OBVIOUS
  <2> HIDE DEF f, Solves
  <2> QED
    BY <2>1, <2>2
<1>2. ASSUME NEW n \in Nat, n \in T PROVE n + 1 \in T
  <2> HIDE DEF Solves
  <2> SUFFICES ASSUME lo + (n + 1) <= hi
               PROVE  \E f \in [lo..(lo + (n + 1)) -> S] : Solves(f, lo + (n + 1))
    OBVIOUS
  <2> USE DEF Solves
  <2>1. PICK g \in [lo..(lo + n) -> S] : Solves(g, lo + n)
    BY <1>2
  <2> DEFINE top == lo + (n + 1)
             f == [b \in lo..top |-> IF b = top THEN step[top][g[top - 1]] ELSE g[b]]
  <2>2. top \in lo..hi /\ top # lo /\ top - 1 = lo + n /\ lo + n \in lo..(lo + n)
    OBVIOUS
  <2>3. g[top - 1] \in S /\ step[top] \in [S -> S]
    BY <2>2
  <2>4. step[top][g[top - 1]] \in S
    BY <2>3
  <2>5. \A b \in lo..top : b # top => b \in lo..(lo + n)
    BY <2>2
  <2>6. f \in [lo..top -> S]
    BY <2>4, <2>5
  <2>7. ASSUME NEW b \in lo..top
        PROVE  f[b] = IF b = lo THEN first ELSE step[b][f[b - 1]]
    <3>1. CASE b = top
      <4>1. f[b] = step[top][g[top - 1]] /\ f[top - 1] = g[top - 1]
        BY <2>2, <3>1
      <4> QED
        BY <2>2, <3>1, <4>1
    <3>2. CASE b # top
      <4>1. f[b] = g[b] /\ b \in lo..(lo + n)
        BY <2>5, <3>2
      <4>2. b # lo => f[b - 1] = g[b - 1]
        BY <2>2, <4>1
      <4> QED
        BY <2>1, <4>1, <4>2
    <3> QED
      BY <3>1, <3>2
  <2> HIDE DEF f
  <2> QED
    BY <2>6, <2>7
<1> HIDE DEF T
<1>3. Nat \subseteq T
  BY <1>1, <1>2, Induction
<1>4. CASE lo <= hi
  <2>1. hi - lo \in T /\ lo + (hi - lo) = hi
    BY <1>3, <1>4
  <2>2. PICK f \in [lo..hi -> S] : Solves(f, hi)
    BY <2>1 DEF T
  <2> QED
    BY <2>2 DEF SolvableUp
<1>5. CASE ~(lo <= hi)
  <2> DEFINE f == [b \in lo..hi |-> first]
  <2>1. lo..hi = {}
    BY <1>5
  <2>2. f \in [lo..hi -> S] /\ \A b \in lo..hi : f[b] = IF b = lo THEN first ELSE step[b][f[b - 1]]
    BY <2>1
  <2> HIDE DEF f
  <2> QED
    BY <2>2 DEF SolvableUp
<1> QED
  BY <1>4, <1>5

\* Recursion downwards over 1..n.
LEMMA RecursionDown ==
  ASSUME NEW n \in Nat, NEW S, NEW last \in S, NEW step \in [1..n -> [S -> S]]
  PROVE  SolvableDown(n, S, last, step)
<1> DEFINE back == [b \in 1..n |-> step[n + 1 - b]]
<1>1. back \in [1..n -> [S -> S]]
  <2>1. \A b \in 1..n : n + 1 - b \in 1..n
    OBVIOUS
  <2> QED
    BY <2>1
<1>2. PICK g \in [1..n -> S] :
        \A b \in 1..n : g[b] = IF b = 1 THEN last ELSE back[b][g[b - 1]]
  <2> HIDE DEF back
  <2>1. 1 \in Int /\ n \in Int
    OBVIOUS
  <2>2. SolvableUp(1, n, S, last, back)
    BY <1>1, <2>1, RecursionUp
  <2> QED
    BY <2>2, Zenon DEF SolvableUp
<1> DEFINE f == [b \in 1..n |-> g[n + 1 - b]]
<1>3. f \in [1..n -> S]
  <2>1. \A b \in 1..n : n + 1 - b \in 1..n
    OBVIOUS
  <2> QED
    BY <2>1
<1>4. ASSUME NEW b \in 1..n
      PROVE  f[b] = IF b = n THEN last ELSE step[b][f[b + 1]]
  <2> DEFINE c == n + 1 - b
  <2>1. c \in 1..n /\ n + 1 - c = b /\ (c = 1 <=> b = n) /\ f[b] = g[c]
    OBVIOUS
  <2>2. g[c] = IF c = 1 THEN last ELSE back[c][g[c - 1]]
    BY <1>2, <2>1
  <2>3. back[c] = step[b]
    BY <2>1
  <2>4. b # n => f[b + 1] = g[c - 1]
    <3> SUFFICES ASSUME b # n PROVE f[b + 1] = g[c - 1]
      OBVIOUS
    <3>1. b + 1 \in 1..n /\ n + 1 - (b + 1) = c - 1
      OBVIOUS
    <3> QED
      BY <3>1
  <2> QED
    BY <2>1, <2>2, <2>3, <2>4
<1> HIDE DEF f
<1> QED
  BY <1>3, <1>4 DEF SolvableDown

-----------------------------------------------------------------------------
(* Sorting                                                                  *)

\* The pairs R order the elements of S strictly and completely.
StrictOrder(S, R) ==
  /\ \A x \in S : <<x, x>> \notin R
  /\ \A x, y, z \in S : <<x, y>> \in R /\ <<y, z>> \in R => <<x, z>> \in R
  /\ \A x, y \in S : x # y => <<x, y>> \in R \/ <<y, x>> \in R

\* f runs through S in the order R.
Sorts(f, S, R) ==
  /\ f \in [1..Cardinality(S) -> S]
  /\ \A i, j \in 1..Cardinality(S) : i < j => <<f[i], f[j]>> \in R

\* Later elements have more before them.
LEMMA RanksGrow ==
  ASSUME NEW S, IsFiniteSet(S), NEW R, StrictOrder(S, R),
         NEW rank, rank = [x \in S |-> Cardinality({y \in S : <<y, x>> \in R})]
  PROVE  /\ rank \in [S -> 0..(Cardinality(S) - 1)]
         /\ \A x, y \in S : <<x, y>> \in R => rank[x] < rank[y]
<1> DEFINE Below(x) == {y \in S : <<y, x>> \in R}
<1>1. \A x \in S : /\ IsFiniteSet(Below(x)) /\ Cardinality(Below(x)) \in Nat
                   /\ rank[x] = Cardinality(Below(x))
  <2> SUFFICES ASSUME NEW x \in S
               PROVE  /\ IsFiniteSet(Below(x)) /\ Cardinality(Below(x)) \in Nat
                      /\ rank[x] = Cardinality(Below(x))
    OBVIOUS
  <2>1. Below(x) \in SUBSET S
    OBVIOUS
  <2>2. rank[x] = Cardinality(Below(x))
    OBVIOUS
  <2> HIDE DEF Below
  <2> QED
    BY <2>1, <2>2, FS_Subset, FS_CardinalityType
<1>2. ASSUME NEW T, NEW x, IsFiniteSet(T), NEW U \in SUBSET T, x \in T, x \notin U
      PROVE  Cardinality(U) < Cardinality(T)
  <2>1. Cardinality(T) \in Nat /\ IsFiniteSet(U) /\ Cardinality(U) <= Cardinality(T)
    BY <1>2, FS_Subset, FS_CardinalityType
  <2>2. Cardinality(U) \in Nat
    BY <2>1, FS_CardinalityType
  <2>3. Cardinality(U) # Cardinality(T)
    BY <1>2, FS_Subset
  <2> QED
    BY <2>1, <2>2, <2>3
<1>3. ASSUME NEW x \in S PROVE rank[x] \in 0..(Cardinality(S) - 1)
  <2>1. Below(x) \in SUBSET S /\ x \notin Below(x)
    BY DEF StrictOrder
  <2> HIDE DEF Below
  <2>2. Cardinality(Below(x)) < Cardinality(S)
    BY <1>2, <2>1
  <2> QED
    BY <1>1, <2>2, FS_CardinalityType
<1>4. ASSUME NEW x \in S, NEW y \in S, <<x, y>> \in R PROVE rank[x] < rank[y]
  <2>1. Below(x) \in SUBSET Below(y) /\ x \notin Below(x) /\ x \in Below(y)
    BY <1>4 DEF StrictOrder
  <2> HIDE DEF Below
  <2>2. Cardinality(Below(x)) < Cardinality(Below(y))
    BY <1>1, <1>2, <2>1
  <2> QED
    BY <1>1, <2>2
<1>5. rank \in [S -> 0..(Cardinality(S) - 1)]
  BY <1>3
<1> QED
  BY <1>4, <1>5

\* InOrder lists every element of the set, each once, in the given order.
LEMMA InOrderSorts ==
  ASSUME NEW S, IsFiniteSet(S), NEW R, StrictOrder(S, R)
  PROVE  /\ Sorts(InOrder(S, R), S, R)
         /\ \A x \in S : \E i \in 1..Cardinality(S) : InOrder(S, R)[i] = x
<1> DEFINE n == Cardinality(S)
           rank == [x \in S |-> Cardinality({y \in S : <<y, x>> \in R})]
           f == InOrder(S, R)
<1>1. n \in Nat
  BY FS_CardinalityType
<1>2. f = [i \in 1..n |-> CHOOSE x \in S : rank[x] = i - 1]
  BY DEF InOrder
<1>3. rank = [x \in S |-> Cardinality({y \in S : <<y, x>> \in R})]
  OBVIOUS
<1> HIDE DEF rank, f
<1>4. /\ rank \in [S -> 0..(n - 1)]
      /\ \A x, y \in S : <<x, y>> \in R => rank[x] < rank[y]
  BY <1>3, RanksGrow
<1> HIDE DEF n
<1>5. \A x \in S : rank[x] \in Int
  BY <1>1, <1>4
<1>6. ASSUME NEW x \in S, NEW y \in S, rank[x] = rank[y] PROVE x = y
  <2>1. rank[x] \in Int /\ rank[y] \in Int /\ ~(rank[x] < rank[y]) /\ ~(rank[y] < rank[x])
    BY <1>5, <1>6
  <2>2. <<x, y>> \notin R /\ <<y, x>> \notin R
    BY <1>4, <2>1
  <2> QED
    BY <2>2 DEF StrictOrder
<1>7. IsFiniteSet(0..(n - 1)) /\ Cardinality(0..(n - 1)) = n
  BY <1>1, FS_Interval
<1>8. rank \in Surjection(S, 0..(n - 1))
  <2>1. rank \in Injection(S, 0..(n - 1))
    BY <1>4, <1>6 DEF Injection, IsInjective
  <2> QED
    BY <1>7, <2>1, FS_Injection DEF n
<1>9. ASSUME NEW i \in 1..n PROVE f[i] \in S /\ rank[f[i]] = i - 1
  <2>1. i - 1 \in 0..(n - 1)
    BY <1>1
  <2>2. \E x \in S : rank[x] = i - 1
    BY <1>8, <2>1 DEF Surjection
  <2>3. f[i] = CHOOSE x \in S : rank[x] = i - 1
    BY <1>2
  <2> QED
    BY <2>2, <2>3
<1>10. f \in [1..n -> S]
  BY <1>2, <1>9
<1>11. ASSUME NEW i \in 1..n, NEW j \in 1..n, i < j PROVE <<f[i], f[j]>> \in R
  <2>1. f[i] # f[j] /\ ~(rank[f[j]] < rank[f[i]])
    BY <1>1, <1>9, <1>11
  <2> QED
    BY <1>4, <1>9, <2>1 DEF StrictOrder
<1>12. ASSUME NEW x \in S PROVE \E i \in 1..n : f[i] = x
  <2>1. rank[x] + 1 \in 1..n /\ (rank[x] + 1) - 1 = rank[x]
    BY <1>1, <1>4
  <2> QED
    BY <1>6, <1>9, <2>1
<1> QED
  BY <1>10, <1>11, <1>12 DEF n, f, Sorts

\* There is one way to sort a set.
LEMMA OneOrder ==
  ASSUME NEW S, IsFiniteSet(S), NEW R, StrictOrder(S, R), NEW f, Sorts(f, S, R)
  PROVE  f = InOrder(S, R)
<1> DEFINE n == Cardinality(S)
           g == InOrder(S, R)
<1>1. n \in Nat
  BY FS_CardinalityType
<1>2. Sorts(g, S, R) /\ \A x \in S : \E i \in 1..n : g[i] = x
  BY InOrderSorts
<1> HIDE DEF g
<1>3. f \in [1..n -> S] /\ g \in [1..n -> S]
  BY <1>2 DEF Sorts
<1>4. /\ \A i, j \in 1..n : i < j => <<f[i], f[j]>> \in R
      /\ \A i, j \in 1..n : i < j => <<g[i], g[j]>> \in R
  BY <1>2 DEF Sorts
<1>5. IsFiniteSet(1..n) /\ Cardinality(1..n) = n
  BY <1>1, FS_Interval
<1> HIDE DEF n
<1>6. \A x, y \in S : <<x, y>> \in R => x # y /\ <<y, x>> \notin R
  BY DEF StrictOrder
<1>7. ASSUME NEW i \in 1..n, NEW j \in 1..n
      PROVE  (f[i] = f[j] => i = j) /\ (g[i] = g[j] => i = j)
  <2>1. i < j \/ j < i \/ i = j
    BY <1>1
  <2>2. f[i] \in S /\ f[j] \in S /\ g[i] \in S /\ g[j] \in S
    BY <1>3
  <2> QED
    BY <1>4, <1>6, <2>1, <2>2
<1>8. \A x \in S : \E i \in 1..n : f[i] = x
  <2>1. f \in Injection(1..n, S)
    BY <1>3, <1>7 DEF Injection, IsInjective
  <2>2. f \in Surjection(1..n, S)
    BY <1>5, <2>1, FS_Injection DEF n
  <2> QED
    BY <2>2 DEF Surjection
<1>9. SUFFICES ASSUME f # g PROVE FALSE
  BY DEF g
<1> DEFINE Wrong == {i \in 1..n : f[i] # g[i]}
<1>10. Wrong # {}
  <2>1. (\A i \in 1..n : f[i] = g[i]) => f = g
    <3>1. f = [i \in 1..n |-> f[i]] /\ g = [i \in 1..n |-> g[i]]
      BY <1>3
    <3> QED
      BY <3>1
  <2> QED
    BY <1>9, <2>1
<1>11. PICK i \in Wrong : \A j \in Wrong : i <= j
  <2>1. Wrong \subseteq Nat
    BY <1>1
  <2> HIDE DEF Wrong
  <2> QED
    BY <1>10, <2>1, LeastElement
<1>12. i \in 1..n /\ f[i] # g[i] /\ f[i] \in S /\ g[i] \in S
  BY <1>3, <1>11
<1>13. \A j \in 1..n : j < i => f[j] = g[j]
  BY <1>11
<1>14. <<f[i], g[i]>> \in R
  <2>1. PICK k \in 1..n : f[k] = g[i]
    BY <1>8, <1>12
  <2>2. k # i /\ ~(k < i)
    BY <1>7, <1>12, <1>13, <2>1
  <2> QED
    BY <1>1, <1>4, <1>12, <2>1, <2>2
<1>15. <<g[i], f[i]>> \in R
  <2>1. PICK k \in 1..n : g[k] = f[i]
    BY <1>2, <1>12 DEF n
  <2>2. k # i /\ ~(k < i)
    BY <1>7, <1>12, <1>13, <2>1
  <2> QED
    BY <1>1, <1>4, <1>12, <2>1, <2>2
<1> QED
  BY <1>6, <1>12, <1>14, <1>15

\* Numbers are ordered by <.
LEMMA AscendingIsStrict ==
  ASSUME NEW S \in SUBSET Int
  PROVE  StrictOrder(S, Ascending(S))
BY DEF StrictOrder, Ascending

\* Neighbours that ascend make the whole sequence ascend.
LEMMA NeighboursAscend ==
  ASSUME NEW n \in Nat, NEW s \in [1..n -> Int],
         \A i \in 2..n : s[i - 1] < s[i]
  PROVE  \A i, j \in 1..n : i < j => s[i] < s[j]
<1> SUFFICES ASSUME NEW i \in 1..n PROVE \A j \in 1..n : i < j => s[i] < s[j]
  OBVIOUS
<1> DEFINE T == {j \in Nat : j \in 1..n /\ i < j => s[i] < s[j]}
<1>1. 0 \in T
  OBVIOUS
<1>2. ASSUME NEW j \in Nat, j \in T PROVE j + 1 \in T
  <2> SUFFICES ASSUME j + 1 \in 1..n, i < j + 1 PROVE s[i] < s[j + 1]
    OBVIOUS
  <2>1. j \in 1..n /\ j + 1 \in 2..n /\ (j + 1) - 1 = j
    OBVIOUS
  <2>2. s[j] < s[j + 1] /\ s[i] \in Int /\ s[j] \in Int /\ s[j + 1] \in Int
    BY <2>1
  <2>3. i = j \/ s[i] < s[j]
    BY <1>2, <2>1
  <2> QED
    BY <2>2, <2>3
<1> HIDE DEF T
<1>3. Nat \subseteq T
  BY <1>1, <1>2, Induction
<1> QED
  BY <1>3 DEF T

\* Picking, from an ascending sequence, the places that hold members of S
\* sorts S, if the sequence holds all of S.
LEMMA PlacesSort ==
  ASSUME NEW n \in Nat, NEW s \in [1..n -> Int],
         \A i, j \in 1..n : i < j => s[i] < s[j],
         NEW S, \A x \in S : \E i \in 1..n : s[i] = x
  PROVE  AtPlaces(s, {i \in 1..n : s[i] \in S}) = InOrder(S, Ascending(S))
<1> DEFINE places == {i \in 1..n : s[i] \in S}
           order == InOrder(places, Ascending(places))
           onto == [i \in places |-> s[i]]
<1>1. IsFiniteSet(places) /\ places \in SUBSET Int
  <2>1. IsFiniteSet(1..n) /\ places \in SUBSET (1..n)
    BY FS_Interval
  <2> QED
    BY <2>1, FS_Subset
<1>2. onto \in Bijection(places, S)
  <2>1. \A i, j \in places : onto[i] = onto[j] => i = j
    OBVIOUS
  <2>2. onto \in [places -> S] /\ \A x \in S : \E i \in places : onto[i] = x
    OBVIOUS
  <2> HIDE DEF places, onto
  <2> QED
    BY <2>1, <2>2 DEF Bijection, Injection, Surjection, IsInjective
<1>3. S \in SUBSET Int
  OBVIOUS
<1> HIDE DEF onto
<1>4. IsFiniteSet(S) /\ Cardinality(S) = Cardinality(places)
  BY <1>1, <1>2, FS_Bijection DEF ExistsBijection
<1>5. Sorts(order, places, Ascending(places))
  <2> HIDE DEF places
  <2> QED
    BY <1>1, AscendingIsStrict, InOrderSorts
<1>6. /\ order \in [1..Cardinality(S) -> places]
      /\ \A i, j \in 1..Cardinality(S) : i < j => order[i] < order[j]
  <2> HIDE DEF places, order
  <2> QED
    BY <1>4, <1>5 DEF Sorts, Ascending
<1> DEFINE f == AtPlaces(s, places)
<1>7. f = [i \in 1..Cardinality(S) |-> s[order[i]]]
  <2>1. DOMAIN order = 1..Cardinality(S)
    BY <1>6
  <2>2. f = [i \in DOMAIN order |-> s[order[i]]]
    BY DEF AtPlaces
  <2> QED
    BY <2>1, <2>2
<1>8. \A i \in places : i \in 1..n /\ s[i] \in S
  OBVIOUS
<1> HIDE DEF places, order, f
<1>9. Sorts(f, S, Ascending(S))
  <2>1. f \in [1..Cardinality(S) -> S]
    BY <1>6, <1>7, <1>8
  <2>2. ASSUME NEW i \in 1..Cardinality(S), NEW j \in 1..Cardinality(S), i < j
        PROVE  f[i] < f[j]
    BY <1>6, <1>7, <1>8, <2>2
  <2> QED
    BY <2>1, <2>2 DEF Sorts, Ascending
<1> QED
  BY <1>3, <1>4, <1>9, AscendingIsStrict, OneOrder DEF places, f
=============================================================================

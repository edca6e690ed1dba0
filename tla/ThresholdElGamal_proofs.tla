---------------------- MODULE ThresholdElGamal_proofs -----------------------
(***************************************************************************)
(* Threshold decryption is decryption: whichever `threshold` of the        *)
(* trustees combine their partial decryptions of a ciphertext, they open   *)
(* its plaintext, for every prime order, every number of trustees and      *)
(* every secret polynomial.  And a rerandomization keeps it, the one that  *)
(* trustees ran and any that its verifier accepts.                         *)
(*                                                                         *)
(* The argument: a divided difference of a polynomial of lower degree than *)
(* its points are fewer by one is zero; that of the secret polynomial on a *)
(* quorum and 0, times the product of the negated ids, is the secret minus *)
(* the sum of the weighed shares.  Sums and products are folds over finite *)
(* sets; equality modulo the order is Cong.                                *)
(***************************************************************************)
EXTENDS Rerandomization, FiniteSetTheorems, Foundations

-----------------------------------------------------------------------------
(* Finite sets.                                                             *)

\* Induction over the subsets of a finite set: T has those with the property.
LEMMA SubsetInduction ==
  ASSUME NEW S, IsFiniteSet(S), NEW T, {} \in T,
         \A s \in SUBSET S, x \in S : s \in T /\ x \notin s => s \cup {x} \in T
  PROVE  \A s \in SUBSET S : s \in T
<1> DEFINE U == {n \in Nat : \A s \in SUBSET S : Cardinality(s) = n => s \in T}
<1>1. 0 \in U
  <2> SUFFICES ASSUME NEW s \in SUBSET S, Cardinality(s) = 0 PROVE s \in T
    OBVIOUS
  <2>1. s = {}
    BY FS_Subset, FS_EmptySet
  <2> QED
    BY <2>1
<1>2. ASSUME NEW n \in Nat, n \in U PROVE n + 1 \in U
  <2> SUFFICES ASSUME NEW s \in SUBSET S, Cardinality(s) = n + 1 PROVE s \in T
    OBVIOUS
  <2>1. IsFiniteSet(s)
    BY FS_Subset
  <2>2. s # {}
    BY <2>1, FS_EmptySet
  <2>3. PICK x \in s : TRUE
    BY <2>2
  <2>4. Cardinality(s \ {x}) = n
    <3>1. Cardinality(s \ {x}) = Cardinality(s) - 1
      BY <2>1, <2>3, FS_RemoveElement
    <3> QED
      BY <3>1
  <2>5. s \ {x} \in T /\ s \ {x} \in SUBSET S /\ x \in S /\ x \notin s \ {x} /\ (s \ {x}) \cup {x} = s
    BY <1>2, <2>3, <2>4
  <2>6. (s \ {x}) \cup {x} \in T
    BY <2>5
  <2> QED
    BY <2>5, <2>6
<1> HIDE DEF U
<1>3. Nat \subseteq U
  BY <1>1, <1>2, Induction
<1> SUFFICES ASSUME NEW s \in SUBSET S PROVE s \in T
  OBVIOUS
<1>4. IsFiniteSet(s) /\ Cardinality(s) \in Nat
  BY FS_Subset, FS_CardinalityType
<1> QED
  BY <1>3, <1>4 DEF U

-----------------------------------------------------------------------------
(* Folds over finite sets.                                                  *)

Chooses(pick, S) ==
  /\ pick \in [(SUBSET S) \ {{}} -> S]
  /\ \A s \in (SUBSET S) \ {{}} : pick[s] \in s

\* Induction that takes away the element that is chosen.
LEMMA PickInduction ==
  ASSUME NEW S, IsFiniteSet(S), NEW pick, Chooses(pick, S), NEW T, {} \in T,
         \A s \in SUBSET S : s # {} /\ s \ {pick[s]} \in T => s \in T
  PROVE  S \in T
<1> DEFINE U == {n \in Nat : \A s \in SUBSET S : Cardinality(s) = n => s \in T}
<1>1. ASSUME NEW s \in SUBSET S PROVE IsFiniteSet(s) /\ Cardinality(s) \in Nat
  BY FS_Subset, FS_CardinalityType
<1>2. 0 \in U
  BY <1>1, FS_EmptySet
<1>3. ASSUME NEW n \in Nat, n \in U PROVE n + 1 \in U
  <2> SUFFICES ASSUME NEW s \in SUBSET S, Cardinality(s) = n + 1 PROVE s \in T
    OBVIOUS
  <2>1. s # {}
    BY FS_EmptySet
  <2>2. pick[s] \in s
    BY <2>1 DEF Chooses
  <2>3. Cardinality(s \ {pick[s]}) = Cardinality(s) - 1 /\ s \ {pick[s]} \in SUBSET S
    BY <1>1, <2>2, FS_RemoveElement
  <2>4. s \ {pick[s]} \in T
    BY <1>3, <2>3
  <2> QED
    BY <2>1, <2>4
<1> HIDE DEF U
<1>4. Nat \subseteq U
  BY <1>2, <1>3, Induction
<1>5. Cardinality(S) \in Nat
  BY FS_CardinalityType
<1> QED
  BY <1>4, <1>5 DEF U

FoldEquation(g, S, base, step, pick) ==
  \A s \in SUBSET S :
    g[s] = IF s = {} THEN base ELSE step[pick[s]][g[s \ {pick[s]}]]

\* A fold whose steps stay in a set exists.
LEMMA FoldExists ==
  ASSUME NEW S, IsFiniteSet(S), NEW V, NEW base \in V, NEW step, \A x \in S : step[x] \in [V -> V],
         NEW pick, Chooses(pick, S)
  PROVE  \E g \in [SUBSET S -> V] : FoldEquation(g, S, base, step, pick)
<1> DEFINE Small(n) == {s \in SUBSET S : Cardinality(s) <= n}
           Solves(g, n) == \A s \in Small(n) :
             g[s] = IF s = {} THEN base ELSE step[pick[s]][g[s \ {pick[s]}]]
           T == {n \in Nat : \E g \in [Small(n) -> V] : Solves(g, n)}
<1>1. ASSUME NEW s \in SUBSET S PROVE IsFiniteSet(s) /\ Cardinality(s) \in Nat
  BY FS_Subset, FS_CardinalityType
<1>2. ASSUME NEW s \in SUBSET S, s # {}
      PROVE  /\ pick[s] \in s /\ pick[s] \in S /\ s \ {pick[s]} \in SUBSET S
             /\ Cardinality(s \ {pick[s]}) = Cardinality(s) - 1
  <2>1. pick[s] \in s
    BY <1>2 DEF Chooses
  <2> QED
    BY <1>1, <2>1, FS_RemoveElement
<1>3. 0 \in T
  <2> DEFINE g == [s \in Small(0) |-> base]
  <2>1. \A s \in Small(0) : s = {}
    BY <1>1, FS_EmptySet
  <2>2. g \in [Small(0) -> V] /\ Solves(g, 0)
    BY <2>1
  <2> HIDE DEF g, Small, Solves
  <2> QED
    BY <2>2
<1>4. ASSUME NEW n \in Nat, n \in T PROVE n + 1 \in T
  <2>1. PICK g \in [Small(n) -> V] : Solves(g, n)
    BY <1>4
  <2> DEFINE h == [s \in Small(n + 1) |-> IF s \in Small(n) THEN g[s]
                                          ELSE step[pick[s]][g[s \ {pick[s]}]]]
  <2>2. ASSUME NEW s \in Small(n + 1), s # {}
        PROVE  s \ {pick[s]} \in Small(n) /\ s \ {pick[s]} \in Small(n + 1) /\ pick[s] \in S
    <3>1. /\ pick[s] \in S /\ s \ {pick[s]} \in SUBSET S
          /\ Cardinality(s \ {pick[s]}) = Cardinality(s) - 1 /\ Cardinality(s) \in Nat
          /\ Cardinality(s) <= n + 1
      BY <1>1, <1>2, <2>2
    <3> QED
      BY <3>1
  <2>3. {} \in Small(n) /\ Small(n) \subseteq Small(n + 1)
    BY <1>1, FS_EmptySet
  <2> HIDE DEF Small
  <2>4. h \in [Small(n + 1) -> V]
    BY <2>2, <2>3
  <2>5. ASSUME NEW s \in Small(n + 1)
        PROVE  h[s] = IF s = {} THEN base ELSE step[pick[s]][h[s \ {pick[s]}]]
    <3>1. CASE s = {}
      BY <2>1, <2>3, <3>1
    <3>2. CASE s # {}
      <4>1. h[s \ {pick[s]}] = g[s \ {pick[s]}]
        BY <2>2, <3>2
      <4>2. h[s] = step[pick[s]][g[s \ {pick[s]}]]
        BY <2>1, <3>2
      <4> QED
        BY <3>2, <4>1, <4>2
    <3> QED
      BY <3>1, <3>2
  <2> HIDE DEF h
  <2>6. Solves(h, n + 1)
    BY <2>5
  <2> HIDE DEF Solves
  <2> QED
    BY <2>4, <2>6
<1>5. Nat \subseteq T
  <2> HIDE DEF T
  <2> QED
    BY <1>3, <1>4, Induction
<1>6. Cardinality(S) \in Nat
  BY FS_CardinalityType
<1>7. PICK g \in [Small(Cardinality(S)) -> V] : Solves(g, Cardinality(S))
  BY <1>5, <1>6
<1>8. Small(Cardinality(S)) = SUBSET S
  BY FS_Subset
<1> HIDE DEF Small
<1> QED
  BY <1>7, <1>8 DEF FoldEquation

\* The steps may be taken in any order.
Commutes(S, V, step) ==
  \A x, y \in S, v \in V : step[x][step[y][v]] = step[y][step[x][v]]

\* A fold, whichever element is taken first.
IsFold(g, S, V, base, step) ==
  /\ g \in [SUBSET S -> V]
  /\ g[{}] = base
  /\ \A s \in SUBSET S, x \in S : x \in s => g[s] = step[x][g[s \ {x}]]

LEMMA AnyOrder ==
  ASSUME NEW S, IsFiniteSet(S), NEW V, NEW base \in V, NEW step, \A x \in S : step[x] \in [V -> V],
         NEW pick, Chooses(pick, S), Commutes(S, V, step),
         NEW g \in [SUBSET S -> V], FoldEquation(g, S, base, step, pick)
  PROVE  IsFold(g, S, V, base, step)
<1> DEFINE Free(s) == \A x \in s : g[s] = step[x][g[s \ {x}]]
           U == {n \in Nat : \A s \in SUBSET S : Cardinality(s) <= n => Free(s)}
<1>1. ASSUME NEW s \in SUBSET S PROVE IsFiniteSet(s) /\ Cardinality(s) \in Nat
  BY FS_Subset, FS_CardinalityType
<1>2. 0 \in U
  BY <1>1, FS_EmptySet
<1>3. ASSUME NEW n \in Nat, n \in U PROVE n + 1 \in U
  <2> SUFFICES ASSUME NEW s \in SUBSET S, Cardinality(s) <= n + 1, NEW x \in s
               PROVE  g[s] = step[x][g[s \ {x}]]
    OBVIOUS
  <2> DEFINE c == pick[s]
  <2>1. c \in s /\ c \in S /\ x \in S /\ g[s] = step[c][g[s \ {c}]]
    BY DEF Chooses, FoldEquation
  <2> HIDE DEF c
  <2>2. CASE x = c
    BY <2>1, <2>2
  <2>3. CASE x # c
    <3>1. /\ Cardinality(s \ {c}) = Cardinality(s) - 1 /\ Cardinality(s \ {x}) = Cardinality(s) - 1
          /\ s \ {c} \in SUBSET S /\ s \ {x} \in SUBSET S /\ Cardinality(s) \in Nat
      BY <1>1, <2>1, FS_RemoveElement
    <3>2. Free(s \ {c}) /\ Free(s \ {x})
      BY <1>3, <3>1
    <3>3. (s \ {c}) \ {x} = (s \ {x}) \ {c} /\ (s \ {c}) \ {x} \in SUBSET S
      OBVIOUS
    <3> DEFINE v == g[(s \ {c}) \ {x}]
    <3>4. v \in V /\ g[s \ {c}] = step[x][v] /\ g[s \ {x}] = step[c][v]
      BY <2>1, <2>3, <3>2, <3>3
    <3> HIDE DEF v
    <3> QED
      BY <2>1, <3>4 DEF Commutes
  <2> QED
    BY <2>2, <2>3
<1>4. Nat \subseteq U
  <2> HIDE DEF U
  <2> QED
    BY <1>2, <1>3, Induction
<1>5. ASSUME NEW s \in SUBSET S PROVE Free(s)
  <2>1. Cardinality(s) \in U /\ Cardinality(s) <= Cardinality(s)
    BY <1>1, <1>4
  <2> QED
    BY <2>1
<1>6. g[{}] = base
  BY DEF FoldEquation
<1> QED
  BY <1>5, <1>6 DEF IsFold

\* Two folds of the same steps are equal.
LEMMA FoldsAgree ==
  ASSUME NEW S, IsFiniteSet(S), NEW V, NEW base, NEW step,
         NEW D, S \subseteq D,
         NEW g, IsFold(g, D, V, base, step), NEW h, IsFold(h, S, V, base, step)
  PROVE  \A s \in SUBSET S : h[s] = g[s]
<1> DEFINE T == {s \in SUBSET S : h[s] = g[s]}
<1>1. {} \in T
  BY DEF IsFold
<1>2. ASSUME NEW s \in SUBSET S, NEW x \in S, s \in T, x \notin s PROVE s \cup {x} \in T
  <2>1. (s \cup {x}) \ {x} = s /\ s \cup {x} \in SUBSET S /\ s \cup {x} \in SUBSET D /\ x \in D
    BY <1>2
  <2>2. h[s \cup {x}] = step[x][h[s]] /\ g[s \cup {x}] = step[x][g[s]]
    BY <2>1 DEF IsFold
  <2> QED
    BY <1>2, <2>1, <2>2
<1> HIDE DEF T
<1>3. \A s \in SUBSET S : s \in T
  BY <1>1, <1>2, SubsetInduction
<1> QED
  BY <1>3 DEF T

-----------------------------------------------------------------------------
(* Arithmetic modulo the order.                                             *)

Cong(a, b) == ScalarMod(a) = ScalarMod(b)

LEMMA OrderIsLarge == SubgroupOrder \in Nat /\ SubgroupOrder > 2
  BY SetupAssumption

LEMMA ModOfInt ==
  ASSUME NEW a \in Int
  PROVE  /\ ScalarMod(a) \in Field /\ ScalarMod(a) \in Int
         /\ \E k \in Int : a = ScalarMod(a) + k * SubgroupOrder
<1>1. SubgroupOrder \in Nat \ {0}
  BY OrderIsLarge
<1> DEFINE q == SubgroupOrder
           k == a \div q
<1>2. ScalarMod(a) \in 0..(q - 1) /\ k \in Int /\ a = q * k + ScalarMod(a) /\ q * k = k * q
  BY <1>1 DEF ScalarMod
<1> HIDE DEF k
<1>3. ScalarMod(a) \in Int /\ a = ScalarMod(a) + k * q
  BY <1>1, <1>2
<1> QED
  BY <1>2, <1>3 DEF Field

LEMMA FieldIsSmall == Field \subseteq Int /\ \A a \in Field : ScalarMod(a) = a
<1>1. SubgroupOrder \in Nat \ {0}
  BY OrderIsLarge
<1> QED
  BY <1>1 DEF Field, ScalarMod

\* Numbers that differ by a multiple of the order are equal modulo it.
LEMMA MultiplesVanish ==
  ASSUME NEW a \in Int, NEW b \in Int, NEW k \in Int, a = b + k * SubgroupOrder
  PROVE  Cong(a, b)
<1> DEFINE q == SubgroupOrder
<1>1. q \in Nat \ {0}
  BY OrderIsLarge
<1>2. PICK m \in Int : a = ScalarMod(a) + m * q
  BY ModOfInt
<1>3. PICK n \in Int : b = ScalarMod(b) + n * q
  BY ModOfInt
<1>4. /\ ScalarMod(a) \in 0..(q - 1) /\ ScalarMod(b) \in 0..(q - 1)
  BY ModOfInt DEF Field
<1> DEFINE x == ScalarMod(a)
           y == ScalarMod(b)
           d == n + k - m
<1>5. x \in 0..(q - 1) /\ y \in 0..(q - 1) /\ d \in Int
  BY <1>4
<1>6. x - y = d * q
  <2>1. x + m * q = y + n * q + k * q
    BY <1>2, <1>3
  <2>2. d * q = n * q + k * q - m * q
    BY <1>1
  <2>3. x \in Int /\ y \in Int /\ m * q \in Int /\ n * q \in Int /\ k * q \in Int
    BY <1>1, <1>5
  <2> HIDE DEF x, y, d
  <2> QED
    BY <2>1, <2>2, <2>3
<1> HIDE DEF x, y, d, q
<1>7. x = y
  <2>1. CASE d = 0
    BY <1>1, <1>5, <1>6, <2>1
  <2>2. CASE d >= 1
    <3>1. d * q = q + (d - 1) * q /\ (d - 1) * q >= 0 /\ (d - 1) * q \in Int
      BY <1>1, <1>5, <2>2
    <3> QED
      BY <1>1, <1>5, <1>6, <3>1
  <2>3. CASE d <= -1
    <3>1. d * q = (d + 1) * q - q /\ (d + 1) * q <= 0 /\ (d + 1) * q \in Int
      BY <1>1, <1>5, <2>3
    <3> QED
      BY <1>1, <1>5, <1>6, <3>1
  <2> QED
    BY <1>5, <2>1, <2>2, <2>3
<1> QED
  BY <1>7 DEF Cong, x, y

LEMMA CongDiffers ==
  ASSUME NEW a \in Int, NEW b \in Int, Cong(a, b)
  PROVE  \E k \in Int : a = b + k * SubgroupOrder
<1> DEFINE q == SubgroupOrder
<1>1. q \in Nat \ {0}
  BY OrderIsLarge
<1>2. PICK m \in Int : a = ScalarMod(a) + m * q
  BY ModOfInt
<1>3. PICK n \in Int : b = ScalarMod(b) + n * q
  BY ModOfInt
<1>4. ScalarMod(a) = ScalarMod(b) /\ ScalarMod(a) \in Int
  BY ModOfInt DEF Cong
<1> DEFINE x == ScalarMod(a)
<1>5. a = x + m * q /\ b = x + n * q /\ x \in Int
  BY <1>2, <1>3, <1>4
<1> HIDE DEF x, q
<1>6. (m - n) * q = m * q - n * q /\ m * q \in Int /\ n * q \in Int /\ m - n \in Int
  BY <1>1
<1>7. a = b + (m - n) * q
  BY <1>5, <1>6
<1> QED
  BY <1>6, <1>7 DEF q

LEMMA CongRefl == \A a : Cong(a, a)
  BY DEF Cong

LEMMA CongSym == ASSUME NEW a, NEW b, Cong(a, b) PROVE Cong(b, a)
  BY DEF Cong

LEMMA CongTrans == ASSUME NEW a, NEW b, NEW c, Cong(a, b), Cong(b, c) PROVE Cong(a, c)
  BY DEF Cong

LEMMA CongMod == ASSUME NEW a \in Int PROVE Cong(ScalarMod(a), a)
  BY ModOfInt, FieldIsSmall DEF Cong

LEMMA CongEqual == ASSUME NEW a \in Field, NEW b \in Field, Cong(a, b) PROVE a = b
  BY FieldIsSmall DEF Cong

LEMMA CongAdd ==
  ASSUME NEW a \in Int, NEW b \in Int, NEW c \in Int, NEW d \in Int, Cong(a, b), Cong(c, d)
  PROVE  Cong(a + c, b + d)
<1> DEFINE q == SubgroupOrder
<1>1. q \in Nat /\ q = SubgroupOrder
  BY OrderIsLarge
<1>2. PICK k \in Int : a = b + k * q
  BY CongDiffers
<1>3. PICK l \in Int : c = d + l * q
  BY CongDiffers
<1> HIDE DEF q
<1>4. (k + l) * q = k * q + l * q /\ k * q \in Int /\ l * q \in Int
  BY <1>1
<1>5. a + c = (b + d) + (k + l) * q
  BY <1>2, <1>3, <1>4
<1> DEFINE m == k + l
<1>6. a + c = (b + d) + m * q /\ m \in Int /\ a + c \in Int /\ b + d \in Int
  BY <1>5
<1> HIDE DEF m
<1> QED
  BY <1>1, <1>6, MultiplesVanish

LEMMA CongTimes ==
  ASSUME NEW a \in Int, NEW b \in Int, NEW c \in Int, NEW d \in Int, Cong(a, b), Cong(c, d)
  PROVE  Cong(a * c, b * d)
<1> DEFINE q == SubgroupOrder
<1>1. q \in Nat /\ q = SubgroupOrder
  BY OrderIsLarge
<1>2. PICK k \in Int : a = b + k * q
  BY CongDiffers
<1>3. PICK l \in Int : c = d + l * q
  BY CongDiffers
<1> HIDE DEF q
<1> DEFINE m == b * l + k * d + (k * l) * q
<1>4. (b + k * q) * (d + l * q) = b * d + m * q
  BY ONLY <1>1, a \in Int, b \in Int, c \in Int, d \in Int, k \in Int, l \in Int
<1>5. m \in Int /\ a * c \in Int /\ b * d \in Int
  BY <1>1
<1>6. a * c = b * d + m * q
  BY <1>2, <1>3, <1>4
<1> HIDE DEF m
<1> QED
  BY <1>1, <1>5, <1>6, MultiplesVanish

LEMMA ZeroInField == 0 \in Field /\ 1 \in Field /\ ~Cong(1, 0)
<1>1. 0 \in Field /\ 1 \in Field
  BY OrderIsLarge DEF Field
<1> QED
  BY <1>1, FieldIsSmall DEF Cong

\* A number that is not zero has an inverse, the one that ScalarInverse picks.
LEMMA InverseExists ==
  ASSUME NEW a \in Int, ~Cong(a, 0)
  PROVE  \E b \in Field : Cong(a * b, 1)
<1>1. ScalarMod(a) \in Field \ {0} /\ ScalarMod(a) \in Int
  BY ModOfInt, ZeroInField, FieldIsSmall DEF Cong
<1>2. PICK b \in Field : ScalarMod(ScalarMod(a) * b) = 1
  BY <1>1, SetupAssumption
<1>3. b \in Int /\ ScalarMod(1) = 1
  BY ZeroInField, FieldIsSmall
<1>4. Cong(ScalarMod(a) * b, 1)
  BY <1>2, <1>3 DEF Cong
<1>5. Cong(ScalarMod(a) * b, a * b)
  BY <1>1, <1>3, CongMod, CongRefl, CongTimes
<1>6. Cong(a * b, 1)
  BY <1>4, <1>5, CongSym, CongTrans
<1> QED
  BY <1>6

LEMMA InverseIsInverse ==
  ASSUME NEW a \in Int, ~Cong(a, 0)
  PROVE  ScalarInverse(a) \in Field /\ ScalarInverse(a) \in Int /\ Cong(a * ScalarInverse(a), 1)
<1>1. ScalarMod(1) = 1
  BY ZeroInField, FieldIsSmall
<1>2. \E b \in Field : ScalarMod(a * b) = 1
  BY <1>1, InverseExists DEF Cong
<1>3. ScalarInverse(a) \in Field /\ ScalarMod(a * ScalarInverse(a)) = 1
  BY <1>2 DEF ScalarInverse
<1> QED
  BY <1>1, <1>3, FieldIsSmall DEF Cong

\* What is multiplied by a number that is not zero can be compared without it.
LEMMA CongCancel ==
  ASSUME NEW a \in Int, NEW b \in Int, NEW c \in Int, ~Cong(a, 0), Cong(a * b, a * c)
  PROVE  Cong(b, c)
<1>1. PICK i \in Field : Cong(a * i, 1)
  BY InverseExists
<1>2. i \in Int /\ a * b \in Int /\ a * c \in Int /\ a * i \in Int
  BY FieldIsSmall
<1>3. Cong(i * (a * b), i * (a * c))
  <2> DEFINE x == a * b
             y == a * c
  <2>1. x \in Int /\ y \in Int /\ Cong(x, y) /\ Cong(i, i)
    BY <1>2, CongRefl
  <2> HIDE DEF x, y
  <2>2. Cong(i * x, i * y)
    BY <1>2, <2>1, CongTimes
  <2> QED
    BY <2>2 DEF x, y
<1>4. i * (a * b) = (a * i) * b /\ i * (a * c) = (a * i) * c
  BY <1>2
<1>5. Cong((a * i) * b, 1 * b) /\ Cong((a * i) * c, 1 * c)
  <2> DEFINE x == a * i
  <2>1. x \in Int /\ 1 \in Int /\ Cong(x, 1) /\ Cong(b, b) /\ Cong(c, c)
    BY <1>1, <1>2, CongRefl
  <2> HIDE DEF x
  <2>2. Cong(x * b, 1 * b) /\ Cong(x * c, 1 * c)
    BY <2>1, CongTimes
  <2> QED
    BY <2>2 DEF x
<1>6. 1 * b = b /\ 1 * c = c
  OBVIOUS
<1>7. Cong((a * i) * b, b) /\ Cong((a * i) * c, c) /\ Cong((a * i) * b, (a * i) * c)
  BY <1>3, <1>4, <1>5, <1>6
<1> QED
  BY <1>7, CongSym, CongTrans

LEMMA CongZeroProduct ==
  ASSUME NEW a \in Int, NEW b \in Int, Cong(a * b, 0), ~Cong(a, 0)
  PROVE  Cong(b, 0)
<1>1. a * 0 = 0 /\ 0 \in Int
  OBVIOUS
<1>2. Cong(a * b, a * 0)
  BY <1>1
<1> QED
  BY <1>1, <1>2, CongCancel

-----------------------------------------------------------------------------
(* Sums and products over finite sets.                                      *)

SumSteps(w, D) == [x \in D |-> [v \in Field |-> ScalarMod(w[x] + v)]]
ProductSteps(w, D) == [x \in D |-> [v \in Field |-> ScalarMod(w[x] * v)]]

\* The choice that the folds make.
AnyOf(S) == [s \in (SUBSET S) \ {{}} |-> CHOOSE x \in s : TRUE]

LEMMA AnyOfChooses == \A S : Chooses(AnyOf(S), S)
<1> SUFFICES ASSUME NEW S PROVE Chooses(AnyOf(S), S)
  OBVIOUS
<1>1. ASSUME NEW s \in (SUBSET S) \ {{}} PROVE (CHOOSE x \in s : TRUE) \in s
  OBVIOUS
<1> QED
  BY <1>1 DEF Chooses, AnyOf

LEMMA SumStepsCommute ==
  ASSUME NEW D, NEW w \in [D -> Int]
  PROVE  /\ \A x \in D : SumSteps(w, D)[x] \in [Field -> Field]
         /\ Commutes(D, Field, SumSteps(w, D))
<1> DEFINE step == SumSteps(w, D)
<1>1. ASSUME NEW x \in D, NEW v \in Field
      PROVE  step[x][v] = ScalarMod(w[x] + v) /\ step[x][v] \in Field /\ w[x] + v \in Int
             /\ v \in Int
  BY FieldIsSmall, ModOfInt DEF SumSteps
<1>2. \A x \in D : step[x] = [v \in Field |-> step[x][v]]
  BY DEF SumSteps
<1> HIDE DEF step
<1>3. ASSUME NEW x \in D, NEW y \in D, NEW v \in Field
      PROVE  step[x][step[y][v]] = step[y][step[x][v]]
  <2>1. ASSUME NEW a \in D, NEW b \in D PROVE Cong(step[a][step[b][v]], w[a] + (w[b] + v))
    <3>1. Cong(step[b][v], w[b] + v)
      BY <1>1, CongMod
    <3>2. Cong(w[a] + step[b][v], w[a] + (w[b] + v))
      BY <1>1, <3>1, CongRefl, CongAdd, FieldIsSmall
    <3>3. Cong(step[a][step[b][v]], w[a] + step[b][v])
      BY <1>1, CongMod
    <3> QED
      BY <3>2, <3>3, CongTrans
  <2>2. w[x] + (w[y] + v) = w[y] + (w[x] + v)
    BY <1>1
  <2>3. Cong(step[x][step[y][v]], step[y][step[x][v]])
    BY <2>1, <2>2, CongSym, CongTrans
  <2> QED
    BY <1>1, <2>3, CongEqual
<1>4. \A x \in D : step[x] \in [Field -> Field]
  BY <1>1, <1>2
<1> QED
  BY <1>3, <1>4 DEF Commutes, step

LEMMA ProductStepsCommute ==
  ASSUME NEW D, NEW w \in [D -> Int]
  PROVE  /\ \A x \in D : ProductSteps(w, D)[x] \in [Field -> Field]
         /\ Commutes(D, Field, ProductSteps(w, D))
<1> DEFINE step == ProductSteps(w, D)
<1>1. ASSUME NEW x \in D, NEW v \in Field
      PROVE  step[x][v] = ScalarMod(w[x] * v) /\ step[x][v] \in Field /\ w[x] * v \in Int
             /\ v \in Int
  BY FieldIsSmall, ModOfInt DEF ProductSteps
<1>2. \A x \in D : step[x] = [v \in Field |-> step[x][v]]
  BY DEF ProductSteps
<1> HIDE DEF step
<1>3. ASSUME NEW x \in D, NEW y \in D, NEW v \in Field
      PROVE  step[x][step[y][v]] = step[y][step[x][v]]
  <2>1. ASSUME NEW a \in D, NEW b \in D PROVE Cong(step[a][step[b][v]], w[a] * (w[b] * v))
    <3>1. Cong(step[b][v], w[b] * v)
      BY <1>1, CongMod
    <3>2. Cong(w[a] * step[b][v], w[a] * (w[b] * v))
      BY <1>1, <3>1, CongRefl, CongTimes, FieldIsSmall
    <3>3. Cong(step[a][step[b][v]], w[a] * step[b][v])
      BY <1>1, CongMod
    <3> QED
      BY <3>2, <3>3, CongTrans
  <2>2. w[x] * (w[y] * v) = w[y] * (w[x] * v)
    BY <1>1
  <2>3. Cong(step[x][step[y][v]], step[y][step[x][v]])
    BY <2>1, <2>2, CongSym, CongTrans
  <2> QED
    BY <1>1, <2>3, CongEqual
<1>4. \A x \in D : step[x] \in [Field -> Field]
  BY <1>1, <1>2
<1> QED
  BY <1>3, <1>4 DEF Commutes, step

\* What the folds of the model compute.
LEMMA ModSumFolds ==
  ASSUME NEW S, IsFiniteSet(S), NEW D, S \subseteq D, NEW w \in [D -> Int]
  PROVE  \E g : IsFold(g, S, Field, 0, SumSteps(w, D)) /\ ModSum(w, S) = g[S]
<1> DEFINE Folded(g, s) == LET x == CHOOSE x \in s : TRUE IN ScalarMod(w[x] + g[s \ {x}])
           Equation(g) == g = [s \in SUBSET S |-> IF s = {} THEN 0 ELSE Folded(g, s)]
           chosen == CHOOSE g : Equation(g)
           step == SumSteps(w, D)
           pick == AnyOf(S)
<1>1. /\ \A x \in S : step[x] \in [Field -> Field]
      /\ Commutes(S, Field, step) /\ Chooses(pick, S) /\ 0 \in Field
  BY SumStepsCommute, AnyOfChooses, ZeroInField DEF Commutes
<1>2. ASSUME NEW g \in [SUBSET S -> Field]
      PROVE  FoldEquation(g, S, 0, step, pick) <=> Equation(g)
  <2>1. ASSUME NEW s \in SUBSET S, s # {}
        PROVE  step[pick[s]][g[s \ {pick[s]}]]
               = Folded(g, s)
    <3>1. pick[s] = CHOOSE x \in s : TRUE
      BY <2>1 DEF AnyOf
    <3>2. pick[s] \in S /\ g[s \ {pick[s]}] \in Field
      BY <1>1, <2>1 DEF Chooses
    <3>3. step[pick[s]][g[s \ {pick[s]}]] = ScalarMod(w[pick[s]] + g[s \ {pick[s]}])
      BY <3>2 DEF SumSteps
    <3> QED
      BY <3>1, <3>3
  <2> HIDE DEF step, pick, Folded
  <2>2. g \in [SUBSET S -> Field]
    OBVIOUS
  <2> QED
    BY ONLY <2>1, <2>2 DEF FoldEquation
<1> HIDE DEF step, pick
<1>3. PICK f \in [SUBSET S -> Field] : FoldEquation(f, S, 0, step, pick)
  BY <1>1, FoldExists
<1>4. Equation(f)
  BY <1>2, <1>3
<1>5. Equation(chosen)
  <2> HIDE DEF Equation
  <2> QED
    BY <1>4, Zenon
<1>6. ModSum(w, S) = chosen[S]
  BY Zenon DEF ModSum, FoldFunctionOnSet, MapThenFoldSet
<1>7. chosen[S] = f[S]
  <2> DEFINE T == {s \in SUBSET S : chosen[s] = f[s]}
  <2>1. \A s \in SUBSET S :
          chosen[s] = IF s = {} THEN 0
                      ELSE LET x == CHOOSE x \in s : TRUE IN ScalarMod(w[x] + chosen[s \ {x}])
    <3> HIDE DEF chosen
    <3> QED
      BY <1>5
  <2>2. \A s \in SUBSET S :
          f[s] = IF s = {} THEN 0
                 ELSE LET x == CHOOSE x \in s : TRUE IN ScalarMod(w[x] + f[s \ {x}])
    BY <1>4
  <2> HIDE DEF chosen, Equation
  <2>3. {} \in T
    BY <2>1, <2>2
  <2>4. ASSUME NEW s \in SUBSET S, s # {}, s \ {pick[s]} \in T PROVE s \in T
    <3>1. pick[s] = CHOOSE x \in s : TRUE
      BY <2>4 DEF AnyOf, pick
    <3>2. chosen[s] = ScalarMod(w[pick[s]] + chosen[s \ {pick[s]}])
      BY <2>1, <2>4, <3>1
    <3>3. f[s] = ScalarMod(w[pick[s]] + f[s \ {pick[s]}])
      BY <2>2, <2>4, <3>1
    <3> QED
      BY <2>4, <3>2, <3>3
  <2>5. S \in T
    <3> HIDE DEF T
    <3> QED
      BY <1>1, <2>3, <2>4, PickInduction
  <2> QED
    BY <2>5
<1>8. IsFold(f, S, Field, 0, step)
  BY <1>1, <1>3, AnyOrder
<1> QED
  BY <1>6, <1>7, <1>8 DEF step

\* A sum, whichever element is taken first.
LEMMA SumSplits ==
  ASSUME NEW D, NEW w \in [D -> Int], NEW T \in SUBSET D, IsFiniteSet(T)
  PROVE  /\ ModSum(w, {}) = 0
         /\ \A S \in SUBSET T : /\ ModSum(w, S) \in Field /\ ModSum(w, S) \in Int
                                /\ \A x \in S : Cong(ModSum(w, S), w[x] + ModSum(w, S \ {x}))
<1> DEFINE step == SumSteps(w, D)
<1>1. \A S \in SUBSET T : \E g : IsFold(g, S, Field, 0, step) /\ ModSum(w, S) = g[S]
  <2> SUFFICES ASSUME NEW S \in SUBSET T
               PROVE  \E g : IsFold(g, S, Field, 0, step) /\ ModSum(w, S) = g[S]
    OBVIOUS
  <2>1. IsFiniteSet(S) /\ S \subseteq D
    BY FS_Subset
  <2> QED
    BY <2>1, ModSumFolds
<1>2. PICK h : IsFold(h, T, Field, 0, step)
  BY <1>1
<1>3. ASSUME NEW S \in SUBSET T PROVE ModSum(w, S) = h[S]
  <2>1. PICK g : IsFold(g, S, Field, 0, step) /\ ModSum(w, S) = g[S]
    BY <1>1
  <2>2. IsFiniteSet(S)
    BY FS_Subset
  <2> HIDE DEF step
  <2>3. \A s \in SUBSET S : g[s] = h[s]
    BY <1>2, <2>1, <2>2, FoldsAgree
  <2> QED
    BY <2>1, <2>3
<1>4. ModSum(w, {}) = 0
  BY <1>2, <1>3 DEF IsFold
<1>5. ASSUME NEW S \in SUBSET T PROVE ModSum(w, S) \in Field /\ ModSum(w, S) \in Int
  BY <1>2, <1>3, FieldIsSmall DEF IsFold
<1>6. ASSUME NEW S \in SUBSET T, NEW x \in S
      PROVE  Cong(ModSum(w, S), w[x] + ModSum(w, S \ {x}))
  <2> DEFINE v == h[S \ {x}]
  <2>1. h[S] = step[x][v] /\ v \in Field /\ S \ {x} \in SUBSET T
    BY <1>2 DEF IsFold
  <2>2. step[x][v] = ScalarMod(w[x] + v)
    BY <2>1 DEF SumSteps
  <2>3. Cong(ScalarMod(w[x] + v), w[x] + v)
    <3>1. w[x] + v \in Int
      <4>1. w[x] \in Int /\ v \in Int
        BY <2>1, FieldIsSmall
      <4> HIDE DEF v
      <4> QED
        BY <4>1
    <3> HIDE DEF v
    <3> QED
      BY <3>1, CongMod
  <2> HIDE DEF step, v
  <2>4. ModSum(w, S) = h[S] /\ ModSum(w, S \ {x}) = v
    BY <1>3, <2>1 DEF v
  <2> QED
    BY <2>1, <2>2, <2>3, <2>4
<1> QED
  BY <1>4, <1>5, <1>6
LEMMA ModProductFolds ==
  ASSUME NEW S, IsFiniteSet(S), NEW D, S \subseteq D, NEW w \in [D -> Int]
  PROVE  \E g : IsFold(g, S, Field, 1, ProductSteps(w, D)) /\ ModProduct(w, S) = g[S]
<1> DEFINE Folded(g, s) == LET x == CHOOSE x \in s : TRUE IN ScalarMod(w[x] * g[s \ {x}])
           Equation(g) == g = [s \in SUBSET S |-> IF s = {} THEN 1 ELSE Folded(g, s)]
           chosen == CHOOSE g : Equation(g)
           step == ProductSteps(w, D)
           pick == AnyOf(S)
<1>1. /\ \A x \in S : step[x] \in [Field -> Field]
      /\ Commutes(S, Field, step) /\ Chooses(pick, S) /\ 1 \in Field
  BY ProductStepsCommute, AnyOfChooses, ZeroInField DEF Commutes
<1>2. ASSUME NEW g \in [SUBSET S -> Field]
      PROVE  FoldEquation(g, S, 1, step, pick) <=> Equation(g)
  <2>1. ASSUME NEW s \in SUBSET S, s # {}
        PROVE  step[pick[s]][g[s \ {pick[s]}]]
               = Folded(g, s)
    <3>1. pick[s] = CHOOSE x \in s : TRUE
      BY <2>1 DEF AnyOf
    <3>2. pick[s] \in S /\ g[s \ {pick[s]}] \in Field
      BY <1>1, <2>1 DEF Chooses
    <3>3. step[pick[s]][g[s \ {pick[s]}]] = ScalarMod(w[pick[s]] * g[s \ {pick[s]}])
      BY <3>2 DEF ProductSteps
    <3> QED
      BY <3>1, <3>3
  <2> HIDE DEF step, pick, Folded
  <2>2. g \in [SUBSET S -> Field]
    OBVIOUS
  <2> QED
    BY ONLY <2>1, <2>2 DEF FoldEquation
<1> HIDE DEF step, pick
<1>3. PICK f \in [SUBSET S -> Field] : FoldEquation(f, S, 1, step, pick)
  BY <1>1, FoldExists
<1>4. Equation(f)
  BY <1>2, <1>3
<1>5. Equation(chosen)
  <2> HIDE DEF Equation
  <2> QED
    BY <1>4, Zenon
<1>6. ModProduct(w, S) = chosen[S]
  BY Zenon DEF ModProduct, FoldFunctionOnSet, MapThenFoldSet
<1>7. chosen[S] = f[S]
  <2> DEFINE T == {s \in SUBSET S : chosen[s] = f[s]}
  <2>1. \A s \in SUBSET S :
          chosen[s] = IF s = {} THEN 1
                      ELSE LET x == CHOOSE x \in s : TRUE IN ScalarMod(w[x] * chosen[s \ {x}])
    <3> HIDE DEF chosen
    <3> QED
      BY <1>5
  <2>2. \A s \in SUBSET S :
          f[s] = IF s = {} THEN 1
                 ELSE LET x == CHOOSE x \in s : TRUE IN ScalarMod(w[x] * f[s \ {x}])
    BY <1>4
  <2> HIDE DEF chosen, Equation
  <2>3. {} \in T
    BY <2>1, <2>2
  <2>4. ASSUME NEW s \in SUBSET S, s # {}, s \ {pick[s]} \in T PROVE s \in T
    <3>1. pick[s] = CHOOSE x \in s : TRUE
      BY <2>4 DEF AnyOf, pick
    <3>2. chosen[s] = ScalarMod(w[pick[s]] * chosen[s \ {pick[s]}])
      BY <2>1, <2>4, <3>1
    <3>3. f[s] = ScalarMod(w[pick[s]] * f[s \ {pick[s]}])
      BY <2>2, <2>4, <3>1
    <3> QED
      BY <2>4, <3>2, <3>3
  <2>5. S \in T
    <3> HIDE DEF T
    <3> QED
      BY <1>1, <2>3, <2>4, PickInduction
  <2> QED
    BY <2>5
<1>8. IsFold(f, S, Field, 1, step)
  BY <1>1, <1>3, AnyOrder
<1> QED
  BY <1>6, <1>7, <1>8 DEF step

\* A product, whichever element is taken first.
LEMMA ProductSplits ==
  ASSUME NEW D, NEW w \in [D -> Int], NEW T \in SUBSET D, IsFiniteSet(T)
  PROVE  /\ ModProduct(w, {}) = 1
         /\ \A S \in SUBSET T : /\ ModProduct(w, S) \in Field /\ ModProduct(w, S) \in Int
                                /\ \A x \in S : Cong(ModProduct(w, S), w[x] * ModProduct(w, S \ {x}))
<1> DEFINE step == ProductSteps(w, D)
<1>1. \A S \in SUBSET T : \E g : IsFold(g, S, Field, 1, step) /\ ModProduct(w, S) = g[S]
  <2> SUFFICES ASSUME NEW S \in SUBSET T
               PROVE  \E g : IsFold(g, S, Field, 1, step) /\ ModProduct(w, S) = g[S]
    OBVIOUS
  <2>1. IsFiniteSet(S) /\ S \subseteq D
    BY FS_Subset
  <2> QED
    BY <2>1, ModProductFolds
<1>2. PICK h : IsFold(h, T, Field, 1, step)
  BY <1>1
<1>3. ASSUME NEW S \in SUBSET T PROVE ModProduct(w, S) = h[S]
  <2>1. PICK g : IsFold(g, S, Field, 1, step) /\ ModProduct(w, S) = g[S]
    BY <1>1
  <2>2. IsFiniteSet(S)
    BY FS_Subset
  <2> HIDE DEF step
  <2>3. \A s \in SUBSET S : g[s] = h[s]
    BY <1>2, <2>1, <2>2, FoldsAgree
  <2> QED
    BY <2>1, <2>3
<1>4. ModProduct(w, {}) = 1
  BY <1>2, <1>3 DEF IsFold
<1>5. ASSUME NEW S \in SUBSET T PROVE ModProduct(w, S) \in Field /\ ModProduct(w, S) \in Int
  BY <1>2, <1>3, FieldIsSmall DEF IsFold
<1>6. ASSUME NEW S \in SUBSET T, NEW x \in S
      PROVE  Cong(ModProduct(w, S), w[x] * ModProduct(w, S \ {x}))
  <2> DEFINE v == h[S \ {x}]
  <2>1. h[S] = step[x][v] /\ v \in Field /\ S \ {x} \in SUBSET T
    BY <1>2 DEF IsFold
  <2>2. step[x][v] = ScalarMod(w[x] * v)
    BY <2>1 DEF ProductSteps
  <2>3. Cong(ScalarMod(w[x] * v), w[x] * v)
    <3>1. w[x] * v \in Int
      <4>1. w[x] \in Int /\ v \in Int
        BY <2>1, FieldIsSmall
      <4> HIDE DEF v
      <4> QED
        BY <4>1
    <3> HIDE DEF v
    <3> QED
      BY <3>1, CongMod
  <2> HIDE DEF step, v
  <2>4. ModProduct(w, S) = h[S] /\ ModProduct(w, S \ {x}) = v
    BY <1>3, <2>1 DEF v
  <2> QED
    BY <2>1, <2>2, <2>3, <2>4
<1> QED
  BY <1>4, <1>5, <1>6

LEMMA SumIsInt ==
  ASSUME NEW D, NEW w \in [D -> Int], NEW S \in SUBSET D, IsFiniteSet(S)
  PROVE  ModSum(w, S) \in Field /\ ModSum(w, S) \in Int
  BY SumSplits

LEMMA ProductIsInt ==
  ASSUME NEW D, NEW w \in [D -> Int], NEW S \in SUBSET D, IsFiniteSet(S)
  PROVE  ModProduct(w, S) \in Field /\ ModProduct(w, S) \in Int
  BY ProductSplits

LEMMA SumTakes ==
  ASSUME NEW D, NEW w \in [D -> Int], NEW S \in SUBSET D, IsFiniteSet(S), NEW x \in S
  PROVE  Cong(ModSum(w, S), w[x] + ModSum(w, S \ {x}))
  BY SumSplits

LEMMA ProductTakes ==
  ASSUME NEW D, NEW w \in [D -> Int], NEW S \in SUBSET D, IsFiniteSet(S), NEW x \in S
  PROVE  Cong(ModProduct(w, S), w[x] * ModProduct(w, S \ {x}))
  BY ProductSplits

LEMMA LinearCombination ==
  ASSUME NEW a \in Int, NEW b \in Int, NEW c \in Int, NEW d \in Int, NEW e \in Int, NEW f \in Int,
         NEW k \in Int, NEW l \in Int,
         Cong(a, k * b + l * c), Cong(d, k * e + l * f)
  PROVE  Cong(a + d, k * (b + e) + l * (c + f))
<1> DEFINE x == k * b + l * c
           y == k * e + l * f
<1>1. x \in Int /\ y \in Int /\ x + y = k * (b + e) + l * (c + f)
  OBVIOUS
<1> HIDE DEF x, y
<1>2. Cong(a, x) /\ Cong(d, y)
  BY DEF x, y
<1>3. Cong(a + d, x + y)
  BY <1>1, <1>2, CongAdd
<1> QED
  BY <1>1, <1>3

\* Sums of linear combinations.
LEMMA SumIsLinear ==
  ASSUME NEW S, IsFiniteSet(S), NEW k \in Int, NEW l \in Int,
         NEW C, NEW D, NEW E, S \subseteq C, S \subseteq D, S \subseteq E,
         NEW w \in [C -> Int], NEW u \in [D -> Int], NEW v \in [E -> Int],
         \A t \in S : Cong(w[t], k * u[t] + l * v[t])
  PROVE  Cong(ModSum(w, S), k * ModSum(u, S) + l * ModSum(v, S))
<1> DEFINE T == {s \in SUBSET S : Cong(ModSum(w, s), k * ModSum(u, s) + l * ModSum(v, s))}
<1>1. {} \in T
  <2>1. ModSum(w, {}) = 0 /\ ModSum(u, {}) = 0 /\ ModSum(v, {}) = 0
    BY SumSplits
  <2>2. k * 0 + l * 0 = 0
    OBVIOUS
  <2> QED
    BY <2>1, <2>2, CongRefl
<1>2. ASSUME NEW s \in SUBSET S, NEW x \in S, s \in T, x \notin s PROVE s \cup {x} \in T
  <2> DEFINE n == s \cup {x}
  <2>1. n \in SUBSET S /\ x \in n /\ n \ {x} = s /\ IsFiniteSet(n) /\ IsFiniteSet(s)
    BY <1>2, FS_Subset
  <2> HIDE DEF n
  <2>2. /\ ModSum(w, n) \in Int /\ ModSum(u, n) \in Int /\ ModSum(v, n) \in Int
        /\ ModSum(w, s) \in Int /\ ModSum(u, s) \in Int /\ ModSum(v, s) \in Int
    BY <2>1, SumIsInt
  <2>3. /\ Cong(ModSum(w, n), w[x] + ModSum(w, s))
        /\ Cong(ModSum(u, n), u[x] + ModSum(u, s))
        /\ Cong(ModSum(v, n), v[x] + ModSum(v, s))
    BY <2>1, SumTakes
  <2>4. w[x] \in Int /\ u[x] \in Int /\ v[x] \in Int
    OBVIOUS
  <2>5. Cong(w[x], k * u[x] + l * v[x]) /\ Cong(ModSum(w, s), k * ModSum(u, s) + l * ModSum(v, s))
    BY <1>2
  <2>6. Cong(w[x] + ModSum(w, s), k * (u[x] + ModSum(u, s)) + l * (v[x] + ModSum(v, s)))
    BY <2>2, <2>4, <2>5, LinearCombination
  <2> DEFINE p == u[x] + ModSum(u, s)
             q == v[x] + ModSum(v, s)
             r == w[x] + ModSum(w, s)
             y == ModSum(u, n)
             z == ModSum(v, n)
  <2>7. p \in Int /\ q \in Int /\ r \in Int /\ y \in Int /\ z \in Int
    BY <2>2, <2>4
  <2>8. Cong(y, p) /\ Cong(z, q) /\ Cong(ModSum(w, n), r) /\ Cong(r, k * p + l * q)
    BY <2>3, <2>6
  <2> HIDE DEF p, q, r, y, z
  <2>9. Cong(k * y, k * p) /\ Cong(l * z, l * q)
    BY <2>7, <2>8, CongRefl, CongTimes
  <2>10. Cong(k * y + l * z, k * p + l * q)
    <3>1. k * y \in Int /\ k * p \in Int /\ l * z \in Int /\ l * q \in Int
      BY <2>7
    <3> QED
      BY <2>9, <3>1, CongAdd
  <2>11. Cong(ModSum(w, n), k * y + l * z)
    BY <2>8, <2>10, CongSym, CongTrans
  <2> QED
    BY <2>1, <2>11 DEF y, z, n
<1> HIDE DEF T
<1>3. \A s \in SUBSET S : s \in T
  BY <1>1, <1>2, SubsetInduction
<1> QED
  BY <1>3 DEF T

\* Sums of multiples of terms, and of terms that are equal.
LEMMA SumScales ==
  ASSUME NEW S, IsFiniteSet(S), NEW C, NEW D, S \subseteq C, S \subseteq D, NEW k \in Int,
         NEW w \in [C -> Int], NEW u \in [D -> Int], \A t \in S : Cong(w[t], k * u[t])
  PROVE  Cong(ModSum(w, S), k * ModSum(u, S))
<1> DEFINE l == 0
<1>1. l \in Int /\ \A x \in Int : k * x + l * x = k * x
  OBVIOUS
<1>2. \A t \in S : u[t] \in Int
  OBVIOUS
<1> HIDE DEF l
<1>3. ASSUME NEW t \in S PROVE Cong(w[t], k * u[t] + l * u[t])
  <2>1. k * u[t] + l * u[t] = k * u[t]
    BY <1>1, <1>2
  <2> QED
    BY <2>1
<1>4. Cong(ModSum(w, S), k * ModSum(u, S) + l * ModSum(u, S))
  BY <1>1, <1>3, SumIsLinear
<1>5. ModSum(u, S) \in Int
  BY SumIsInt
<1>6. k * ModSum(u, S) + l * ModSum(u, S) = k * ModSum(u, S)
  BY <1>1, <1>5
<1> QED
  BY <1>4, <1>6

LEMMA SumsAgree ==
  ASSUME NEW S, IsFiniteSet(S), NEW C, NEW D, S \subseteq C, S \subseteq D,
         NEW w \in [C -> Int], NEW u \in [D -> Int], \A t \in S : Cong(w[t], u[t])
  PROVE  Cong(ModSum(w, S), ModSum(u, S))
<1> DEFINE k == 1
<1>1. k \in Int /\ \A x \in Int : k * x = x
  OBVIOUS
<1>2. \A t \in S : u[t] \in Int
  OBVIOUS
<1> HIDE DEF k
<1>3. ASSUME NEW t \in S PROVE Cong(w[t], k * u[t])
  <2>1. k * u[t] = u[t]
    BY <1>1, <1>2
  <2> QED
    BY <2>1
<1>4. Cong(ModSum(w, S), k * ModSum(u, S))
  BY <1>1, <1>3, SumScales
<1>5. ModSum(u, S) \in Int
  BY SumIsInt
<1>6. k * ModSum(u, S) = ModSum(u, S)
  BY <1>1, <1>5
<1> QED
  BY <1>4, <1>6

\* Products of factors that are equal, and of factors that are not zero.
LEMMA ProductsAgree ==
  ASSUME NEW S, IsFiniteSet(S), NEW C, NEW D, S \subseteq C, S \subseteq D,
         NEW w \in [C -> Int], NEW u \in [D -> Int], \A t \in S : Cong(w[t], u[t])
  PROVE  Cong(ModProduct(w, S), ModProduct(u, S))
<1> DEFINE T == {s \in SUBSET S : Cong(ModProduct(w, s), ModProduct(u, s))}
<1>1. {} \in T
  BY ProductSplits, CongRefl
<1>2. ASSUME NEW s \in SUBSET S, NEW x \in S, s \in T, x \notin s PROVE s \cup {x} \in T
  <2> DEFINE n == s \cup {x}
             p == ModProduct(w, s)
             q == ModProduct(u, s)
  <2>1. n \in SUBSET S /\ x \in n /\ n \ {x} = s /\ IsFiniteSet(n) /\ IsFiniteSet(s)
    BY <1>2, FS_Subset
  <2> HIDE DEF n
  <2>2. p \in Int /\ q \in Int /\ w[x] \in Int /\ u[x] \in Int
    BY <2>1, ProductIsInt
  <2>3. Cong(ModProduct(w, n), w[x] * p) /\ Cong(ModProduct(u, n), u[x] * q)
    BY <2>1, ProductTakes
  <2>4. Cong(p, q) /\ Cong(w[x], u[x])
    BY <1>2
  <2> HIDE DEF p, q
  <2>5. Cong(w[x] * p, u[x] * q)
    BY <2>2, <2>4, CongTimes
  <2>6. Cong(ModProduct(w, n), ModProduct(u, n))
    BY <2>3, <2>5, CongSym, CongTrans
  <2> QED
    BY <2>1, <2>6 DEF n
<1> HIDE DEF T
<1>3. \A s \in SUBSET S : s \in T
  BY <1>1, <1>2, SubsetInduction
<1> QED
  BY <1>3 DEF T

LEMMA ProductNotZero ==
  ASSUME NEW S, IsFiniteSet(S), NEW C, S \subseteq C, NEW w \in [C -> Int],
         \A t \in S : ~Cong(w[t], 0)
  PROVE  ~Cong(ModProduct(w, S), 0)
<1> DEFINE T == {s \in SUBSET S : ~Cong(ModProduct(w, s), 0)}
<1>1. {} \in T
  BY ProductSplits, ZeroInField
<1>2. ASSUME NEW s \in SUBSET S, NEW x \in S, s \in T, x \notin s PROVE s \cup {x} \in T
  <2> DEFINE n == s \cup {x}
             p == ModProduct(w, s)
  <2>1. n \in SUBSET S /\ x \in n /\ n \ {x} = s /\ IsFiniteSet(n) /\ IsFiniteSet(s)
    BY <1>2, FS_Subset
  <2> HIDE DEF n
  <2>2. p \in Int /\ w[x] \in Int
    BY <2>1, ProductIsInt
  <2>3. Cong(ModProduct(w, n), w[x] * p)
    BY <2>1, ProductTakes
  <2>4. ~Cong(p, 0) /\ ~Cong(w[x], 0)
    BY <1>2
  <2> HIDE DEF p
  <2>5. ~Cong(w[x] * p, 0)
    BY <2>2, <2>4, CongZeroProduct
  <2>6. ~Cong(ModProduct(w, n), 0)
    BY <2>3, <2>5, CongSym, CongTrans
  <2> QED
    BY <2>1, <2>6 DEF n
<1> HIDE DEF T
<1>3. \A s \in SUBSET S : s \in T
  BY <1>1, <1>2, SubsetInduction
<1> QED
  BY <1>3 DEF T

-----------------------------------------------------------------------------
(* Divided differences.                                                     *)

\* Points that are different also modulo the order.
Apart(S) ==
  /\ S \subseteq Int /\ IsFiniteSet(S)
  /\ \A t, u \in S : t # u => ~Cong(t - u, 0)

Spread(S, t) == ModProduct([u \in S \ {t} |-> t - u], S \ {t})
Weight(S, t) == ScalarInverse(Spread(S, t))
Divided(r, S) == ModSum([t \in S |-> r[t] * Weight(S, t)], S)

LEMMA FewerApart ==
  ASSUME NEW S, Apart(S), NEW T \in SUBSET S PROVE Apart(T)
  BY FS_Subset DEF Apart

LEMMA WeightOfPoint ==
  ASSUME NEW S, Apart(S), NEW t \in S
  PROVE  /\ Spread(S, t) \in Int /\ ~Cong(Spread(S, t), 0)
         /\ Weight(S, t) \in Int /\ Weight(S, t) \in Field
         /\ Cong(Spread(S, t) * Weight(S, t), 1)
<1> DEFINE R == S \ {t}
           w == [u \in R |-> t - u]
<1>1. IsFiniteSet(R) /\ R \in SUBSET R /\ w \in [R -> Int]
  BY FS_RemoveElement DEF Apart
<1>2. \A u \in R : ~Cong(w[u], 0)
  BY DEF Apart
<1>3. Spread(S, t) = ModProduct(w, R)
  BY DEF Spread
<1> HIDE DEF R, w
<1>4. Spread(S, t) \in Int /\ ~Cong(Spread(S, t), 0)
  BY <1>1, <1>2, <1>3, ProductIsInt, ProductNotZero
<1> QED
  BY <1>4, InverseIsInverse DEF Weight

LEMMA WeightShrinks ==
  ASSUME NEW S, Apart(S), NEW t \in S, NEW v \in S, t # v
  PROVE  Cong(Weight(S \ {v}, t), (t - v) * Weight(S, t))
<1> DEFINE R == S \ {t}
           w == [u \in R |-> t - u]
           P == Spread(S, t)
           Q == Spread(S \ {v}, t)
           x == Weight(S, t)
           y == Weight(S \ {v}, t)
           d == t - v
<1>1. /\ P \in Int /\ Q \in Int /\ x \in Int /\ y \in Int /\ d \in Int
      /\ Cong(P * x, 1) /\ Cong(Q * y, 1) /\ ~Cong(Q, 0)
  <2>1. Apart(S \ {v}) /\ t \in S \ {v} /\ t \in Int /\ v \in Int
    BY FewerApart DEF Apart
  <2> QED
    BY <2>1, WeightOfPoint
<1>2. Cong(P, d * Q)
  <2>1. IsFiniteSet(R) /\ R \in SUBSET R /\ w \in [R -> Int] /\ v \in R /\ w[v] = d
    BY FS_RemoveElement DEF Apart
  <2> DEFINE R2 == (S \ {v}) \ {t}
             w2 == [u \in R2 |-> t - u]
  <2>2. R \ {v} = R2 /\ IsFiniteSet(R2) /\ R2 \subseteq R /\ R2 \in SUBSET R
    BY <2>1, FS_RemoveElement
  <2>3. w2 \in [R2 -> Int] /\ \A u \in R2 : w[u] = w2[u]
    BY <2>1
  <2>4. P = ModProduct(w, R) /\ Q = ModProduct(w2, R2)
    BY DEF Spread
  <2> HIDE DEF R, w, R2, w2, P, Q, d
  <2>5. Cong(P, d * ModProduct(w, R2))
    BY <2>1, <2>2, <2>4, ProductTakes
  <2>6. Cong(ModProduct(w, R2), Q)
    BY <2>1, <2>2, <2>3, <2>4, ProductsAgree, CongRefl
  <2>7. Cong(d * ModProduct(w, R2), d * Q)
    BY <1>1, <2>1, <2>2, <2>6, ProductIsInt, CongRefl, CongTimes
  <2> QED
    BY <2>5, <2>7, CongTrans
<1> HIDE DEF P, Q, x, y, d
<1>3. Cong(P * x, (d * Q) * x)
  <2> DEFINE e == d * Q
  <2>1. e \in Int /\ Cong(P, e) /\ Cong(x, x)
    BY <1>1, <1>2, CongRefl
  <2> HIDE DEF e
  <2>2. Cong(P * x, e * x)
    BY <1>1, <2>1, CongTimes
  <2> QED
    BY <2>2 DEF e
<1>4. (d * Q) * x = Q * (d * x)
  BY <1>1
<1>5. Cong(Q * y, Q * (d * x))
  BY <1>1, <1>3, <1>4, CongSym, CongTrans
<1>6. Cong(y, d * x)
  <2>1. d * x \in Int
    BY <1>1
  <2> QED
    BY <1>1, <1>5, <2>1, CongCancel
<1> QED
  BY <1>6 DEF y, d, x

\* The divided difference without a point.
LEMMA DividedShrinks ==
  ASSUME NEW S, Apart(S), NEW v \in S, NEW D, S \subseteq D, D \subseteq Int,
         NEW r \in [D -> Int], NEW xr \in [D -> Int], \A t \in D : Cong(xr[t], t * r[t])
  PROVE  /\ Divided(r, S) \in Int /\ Divided(xr, S) \in Int
         /\ Divided(r, S \ {v}) \in Int
         /\ Cong(Divided(r, S \ {v}), Divided(xr, S) + (-v) * Divided(r, S))
<1> DEFINE R == S \ {v}
           a == [t \in S |-> r[t] * Weight(S, t)]
           b == [t \in S |-> xr[t] * Weight(S, t)]
           c == [t \in R |-> r[t] * Weight(R, t)]
           f == [t \in S |-> (t - v) * a[t]]
           k == 1
           l == -v
<1>1. /\ IsFiniteSet(S) /\ IsFiniteSet(R) /\ R \in SUBSET S /\ S \in SUBSET S /\ R \in SUBSET R
      /\ v \in Int /\ k \in Int /\ l \in Int /\ S \subseteq Int /\ R \subseteq S
  BY FS_RemoveElement DEF Apart
<1>2. /\ \A t \in S : Weight(S, t) \in Int /\ r[t] \in Int /\ xr[t] \in Int /\ t \in Int
      /\ \A t \in R : Weight(R, t) \in Int /\ r[t] \in Int
  BY <1>1, FewerApart, WeightOfPoint
<1>3. a \in [S -> Int] /\ b \in [S -> Int] /\ c \in [R -> Int] /\ f \in [S -> Int]
  <2>0. \A x, y \in Int : x * y \in Int
    OBVIOUS
  <2>1. a \in [S -> Int] /\ b \in [S -> Int]
    <3>1. \A t \in S : r[t] * Weight(S, t) \in Int /\ xr[t] * Weight(S, t) \in Int
      BY ONLY <1>2, <2>0
    <3> QED
      BY ONLY <3>1
  <2>2. c \in [R -> Int]
    <3>1. \A t \in R : r[t] * Weight(R, t) \in Int
      BY ONLY <1>2, <2>0
    <3> QED
      BY ONLY <3>1
  <2>3. f \in [S -> Int]
    <3>1. \A t \in S : a[t] \in Int /\ t \in Int
      BY <1>2, <2>1
    <3> HIDE DEF a
    <3> QED
      BY <1>1, <3>1
  <2> QED
    BY <2>1, <2>2, <2>3
<1>4. /\ Divided(r, S) = ModSum(a, S) /\ Divided(xr, S) = ModSum(b, S)
      /\ Divided(r, R) = ModSum(c, R)
  BY DEF Divided
<1>5. ASSUME NEW t \in S PROVE Cong(f[t], k * b[t] + l * a[t])
  <2> DEFINE w == Weight(S, t)
             x == r[t]
             y == xr[t]
  <2>1. w \in Int /\ x \in Int /\ y \in Int /\ t \in Int /\ Cong(y, t * x)
    BY <1>2
  <2>2. f[t] = (t - v) * (x * w) /\ b[t] = y * w /\ a[t] = x * w
    BY <1>1
  <2> HIDE DEF w, x, y, f, a, b
  <2>3. (t - v) * (x * w) = (t * x) * w + (-v) * (x * w)
    BY <1>1, <2>1
  <2>4. Cong((t * x) * w, y * w)
    <3>1. t * x \in Int
      BY <2>1
    <3> QED
      BY <2>1, <3>1, CongRefl, CongSym, CongTimes
  <2> DEFINE g == (t * x) * w
             h == y * w
             e == (-v) * (x * w)
  <2>5. g \in Int /\ h \in Int /\ e \in Int /\ Cong(e, e) /\ Cong(g, h)
    BY <1>1, <2>1, <2>4, CongRefl
  <2>6. f[t] = g + e /\ k * b[t] + l * a[t] = h + e
    <3>1. k * b[t] = h
      BY <2>1, <2>2
    <3> QED
      BY <2>2, <2>3, <3>1
  <2> HIDE DEF g, h, e
  <2>7. Cong(g + e, h + e)
    BY <2>5, CongAdd
  <2> QED
    BY <2>6, <2>7
<1>6. f[v] = 0
  <2>1. f[v] = (v - v) * a[v] /\ a[v] \in Int /\ v - v = 0
    BY <1>1, <1>3
  <2> QED
    BY <2>1
<1>7. ASSUME NEW t \in R PROVE Cong(f[t], c[t])
  <2> DEFINE w == Weight(S, t)
             u == Weight(R, t)
             x == r[t]
  <2>1. w \in Int /\ u \in Int /\ x \in Int /\ t \in Int /\ Cong(u, (t - v) * w) /\ t - v \in Int
    <3>1. w \in Int /\ u \in Int /\ Cong(u, (t - v) * w)
      <4>1. Weight(S, t) \in Int /\ Weight(R, t) \in Int
        BY <1>2
      <4>2. t \in S /\ t # v
        OBVIOUS
      <4>3. Cong(Weight(S \ {v}, t), (t - v) * Weight(S, t))
        BY <4>2, WeightShrinks
      <4> QED
        BY ONLY <4>1, <4>3
    <3>2. x \in Int /\ t \in Int /\ t - v \in Int
      BY <1>1, <1>2
    <3> QED
      BY <3>1, <3>2
  <2>2. f[t] = (t - v) * (x * w) /\ c[t] = x * u
    BY <1>1
  <2> HIDE DEF w, u, x, f, c
  <2>3. Cong(x * u, x * ((t - v) * w))
    <3>1. (t - v) * w \in Int
      BY <2>1
    <3> QED
      BY <2>1, <3>1, CongRefl, CongTimes
  <2>4. x * ((t - v) * w) = (t - v) * (x * w)
    BY <1>1, <2>1
  <2> QED
    BY <2>2, <2>3, <2>4, CongSym
<1> HIDE DEF a, b, c, f, k, l, R
<1>8. Cong(ModSum(f, S), k * ModSum(b, S) + l * ModSum(a, S))
  BY <1>1, <1>3, <1>5, SumIsLinear
<1>9. Cong(ModSum(f, S), f[v] + ModSum(f, S \ {v}))
  BY <1>1, <1>3, SumTakes
<1>10. Cong(ModSum(f, R), ModSum(c, R))
  BY <1>1, <1>3, <1>7, SumsAgree
<1>11. /\ ModSum(a, S) \in Int /\ ModSum(b, S) \in Int /\ ModSum(c, R) \in Int
       /\ ModSum(f, R) \in Int
  BY <1>1, <1>3, SumIsInt
<1>12. f[v] + ModSum(f, S \ {v}) = ModSum(f, R) /\ k * ModSum(b, S) = ModSum(b, S)
  BY <1>6, <1>11 DEF R, k
<1>13. Cong(ModSum(c, R), ModSum(b, S) + l * ModSum(a, S))
  BY <1>8, <1>9, <1>10, <1>12, CongSym, CongTrans
<1> QED
  BY <1>4, <1>11, <1>13 DEF R, l

\* The divided difference of the constant 1 on two or more points is 0.
Ones(D) == [t \in D |-> 1]

LEMMA DividedOnPoint ==
  ASSUME NEW t \in Int, NEW D, t \in D, NEW r \in [D -> Int]
  PROVE  Apart({t}) /\ Divided(r, {t}) \in Int /\ Cong(Divided(r, {t}), r[t])
<1> DEFINE S == {t}
           a == [u \in S |-> r[u] * Weight(S, u)]
           x == r[t]
           y == Weight(S, t)
<1>1. Apart(S)
  BY FS_Singleton DEF Apart
<1>2. Spread(S, t) = 1
  <2>1. S \ {t} = {} /\ IsFiniteSet({})
    BY FS_EmptySet
  <2> DEFINE w == [u \in S \ {t} |-> t - u]
  <2>2. w \in [{} -> Int] /\ Spread(S, t) = ModProduct(w, {})
    BY <2>1 DEF Spread
  <2> HIDE DEF w
  <2> QED
    BY <2>1, <2>2, ProductSplits
<1>3. x \in Int /\ y \in Int /\ 1 * y = y /\ Cong(y, 1)
  <2>1. t \in S /\ y \in Int /\ Cong(Spread(S, t) * y, 1)
    BY <1>1, WeightOfPoint
  <2> HIDE DEF y
  <2>2. 1 * y = y
    BY <2>1
  <2> QED
    BY <1>2, <2>1, <2>2
<1>4. a \in [S -> Int] /\ a[t] = x * y /\ IsFiniteSet(S) /\ S \in SUBSET S /\ t \in S
  <2>1. IsFiniteSet(S) /\ S \in SUBSET S /\ t \in S /\ \A u \in S : u = t
    BY FS_Singleton
  <2>2. a = [u \in S |-> x * y] /\ x * y \in Int
    <3>1. \A u \in S : r[u] * Weight(S, u) = x * y
      BY <2>1
    <3> QED
      BY <1>3, <3>1
  <2> QED
    BY <2>1, <2>2
<1>5. Divided(r, S) = ModSum(a, S) /\ S \ {t} = {}
  BY DEF Divided
<1> HIDE DEF S, a, x, y
<1>6. ModSum(a, {}) = 0
  BY <1>4, SumSplits, FS_EmptySet
<1>7. Cong(ModSum(a, S), a[t] + ModSum(a, {})) /\ ModSum(a, S) \in Int
  BY <1>4, <1>5, SumTakes, SumIsInt
<1>8. Cong(x * y, x * 1)
  <2> DEFINE one == 1
  <2>1. one \in Int /\ Cong(y, one) /\ Cong(x, x)
    BY <1>3, CongRefl
  <2> HIDE DEF one
  <2>2. Cong(x * y, x * one)
    BY <1>3, <2>1, CongTimes
  <2> QED
    BY <2>2 DEF one
<1>9. a[t] + ModSum(a, {}) = x * y /\ x * 1 = x
  <2>1. x * y \in Int
    BY <1>3
  <2> QED
    BY <1>3, <1>4, <1>6, <2>1
<1>10. Cong(ModSum(a, S), x)
  BY <1>7, <1>8, <1>9, CongTrans
<1> QED
  BY <1>1, <1>5, <1>7, <1>10 DEF S, x

LEMMA OnesWithoutAPoint ==
  ASSUME NEW S, Apart(S), NEW D, S \subseteq D, D \subseteq Int,
         NEW v \in S, NEW w \in S, v # w,
         Cong(Divided(Ones(D), S \ {v}), Divided(Ones(D), S \ {w}))
  PROVE  Cong(Divided(Ones(D), S), 0)
<1> DEFINE r == Ones(D)
           xr == [t \in D |-> t]
           o == Divided(r, S)
           x == Divided(xr, S)
           a == Divided(r, S \ {v})
           b == Divided(r, S \ {w})
<1>1. r \in [D -> Int] /\ xr \in [D -> Int] /\ \A t \in D : Cong(xr[t], t * r[t])
  <2>1. \A t \in D : t * 1 = t
    OBVIOUS
  <2> QED
    BY <2>1, CongRefl DEF Ones
<1> HIDE DEF r, xr
<1>2. /\ v \in Int /\ w \in Int /\ o \in Int /\ x \in Int /\ a \in Int /\ b \in Int
      /\ Cong(a, x + (-v) * o) /\ Cong(b, x + (-w) * o)
  <2>1. ASSUME NEW u \in S
        PROVE  /\ u \in Int /\ o \in Int /\ x \in Int /\ Divided(r, S \ {u}) \in Int
               /\ Cong(Divided(r, S \ {u}), x + (-u) * o)
    <3>1. u \in Int
      BY DEF Apart
    <3>2. /\ Divided(r, S) \in Int /\ Divided(xr, S) \in Int
          /\ Divided(r, S \ {u}) \in Int
          /\ Cong(Divided(r, S \ {u}), Divided(xr, S) + (-u) * Divided(r, S))
      BY <1>1, DividedShrinks
    <3> QED
      BY <3>1, <3>2
  <2> QED
    BY <2>1
<1>3. Cong(a, b)
  BY DEF r, a, b
<1>4. ~Cong(v - w, 0)
  BY DEF Apart
<1> HIDE DEF o, x, a, b
<1> DEFINE e == x + (-v) * o
           f == x + (-w) * o
           c == v * o + (-x)
<1>5. /\ e \in Int /\ f \in Int /\ c \in Int
      /\ e + c = 0 /\ f + c = (v - w) * o /\ v - w \in Int
  BY <1>2
<1>6. Cong(e, f)
  BY <1>2, <1>3, CongSym, CongTrans
<1> HIDE DEF e, f, c
<1>7. Cong(e + c, f + c)
  BY <1>5, <1>6, CongRefl, CongAdd
<1>8. Cong((v - w) * o, 0)
  BY <1>5, <1>7, CongSym
<1> DEFINE d == v - w
<1>9. d \in Int /\ Cong(d * o, 0) /\ ~Cong(d, 0)
  BY <1>4, <1>5, <1>8
<1> HIDE DEF d
<1>10. Cong(o, 0)
  BY <1>2, <1>9, CongZeroProduct
<1> QED
  BY <1>10 DEF o, r

LEMMA OnesCancel ==
  ASSUME NEW D, D \subseteq Int
  PROVE  \A S \in SUBSET D : Apart(S) /\ Cardinality(S) >= 2 => Cong(Divided(Ones(D), S), 0)
<1> DEFINE T == {n \in Nat : \A S \in SUBSET D :
                   Apart(S) /\ Cardinality(S) = n + 2 => Cong(Divided(Ones(D), S), 0)}
<1>1. ASSUME NEW S \in SUBSET D, Apart(S), NEW n \in Nat, Cardinality(S) = n + 2
      PROVE  \E v \in S, w \in S :
                /\ v # w
                /\ Apart(S \ {v}) /\ Cardinality(S \ {v}) = n + 1
                /\ Apart(S \ {w}) /\ Cardinality(S \ {w}) = n + 1
  <2>1. IsFiniteSet(S) /\ S # {}
    BY <1>1, FS_EmptySet DEF Apart
  <2>2. PICK v \in S : TRUE
    BY <2>1
  <2>3. Cardinality(S \ {v}) = n + 1 /\ IsFiniteSet(S \ {v})
    <3>1. Cardinality(S \ {v}) = Cardinality(S) - 1 /\ IsFiniteSet(S \ {v})
      BY <2>1, <2>2, FS_RemoveElement
    <3> QED
      BY <1>1, <3>1
  <2>4. S \ {v} # {}
    BY <2>3, FS_EmptySet
  <2>5. PICK w \in S \ {v} : TRUE
    BY <2>4
  <2>6. Cardinality(S \ {w}) = n + 1
    <3>1. Cardinality(S \ {w}) = Cardinality(S) - 1
      BY <2>1, <2>5, FS_RemoveElement
    <3> QED
      BY <1>1, <3>1
  <2>7. Apart(S \ {v}) /\ Apart(S \ {w})
    BY <1>1, FewerApart
  <2> QED
    BY <2>2, <2>3, <2>5, <2>6, <2>7
<1>2. 0 \in T
  <2> SUFFICES ASSUME NEW S \in SUBSET D, Apart(S), Cardinality(S) = 2
               PROVE  Cong(Divided(Ones(D), S), 0)
    OBVIOUS
  <2>1. PICK v \in S, w \in S :
           v # w /\ Cardinality(S \ {v}) = 1 /\ Cardinality(S \ {w}) = 1
    <3>1. 0 \in Nat /\ Cardinality(S) = 0 + 2
      OBVIOUS
    <3>2. PICK v \in S, w \in S :
             v # w /\ Cardinality(S \ {v}) = 0 + 1 /\ Cardinality(S \ {w}) = 0 + 1
      BY <1>1, <3>1
    <3>3. 0 + 1 = 1
      OBVIOUS
    <3> QED
      BY <3>2, <3>3
  <2>2. ASSUME NEW u \in S, Cardinality(S \ {u}) = 1 PROVE Cong(Divided(Ones(D), S \ {u}), 1)
    <3>1. IsFiniteSet(S \ {u})
      BY FS_RemoveElement DEF Apart
    <3>2. PICK t : S \ {u} = {t}
      BY <2>2, <3>1, FS_Singleton
    <3>3. t \in D
      BY <3>2
    <3>4. t \in Int /\ Ones(D) \in [D -> Int] /\ Ones(D)[t] = 1
      BY <3>3 DEF Ones
    <3> QED
      BY <3>2, <3>3, <3>4, DividedOnPoint
  <2>3. Cong(Divided(Ones(D), S \ {v}), Divided(Ones(D), S \ {w}))
    BY <2>1, <2>2, CongSym, CongTrans
  <2> QED
    BY <2>1, <2>3, OnesWithoutAPoint
<1>3. ASSUME NEW n \in Nat, n \in T PROVE n + 1 \in T
  <2> SUFFICES ASSUME NEW S \in SUBSET D, Apart(S), Cardinality(S) = (n + 1) + 2
               PROVE  Cong(Divided(Ones(D), S), 0)
    OBVIOUS
  <2>1. PICK v \in S, w \in S :
           /\ v # w
           /\ Apart(S \ {v}) /\ Cardinality(S \ {v}) = n + 2
           /\ Apart(S \ {w}) /\ Cardinality(S \ {w}) = n + 2
    <3>1. PICK v \in S, w \in S :
             /\ v # w
             /\ Apart(S \ {v}) /\ Cardinality(S \ {v}) = (n + 1) + 1
             /\ Apart(S \ {w}) /\ Cardinality(S \ {w}) = (n + 1) + 1
      <4>1. n + 1 \in Nat
        OBVIOUS
      <4> QED
        BY <1>1, <4>1
    <3>2. (n + 1) + 1 = n + 2
      OBVIOUS
    <3> QED
      BY <3>1, <3>2
  <2>2. Cong(Divided(Ones(D), S \ {v}), 0) /\ Cong(Divided(Ones(D), S \ {w}), 0)
    BY <1>3, <2>1
  <2>3. Cong(Divided(Ones(D), S \ {v}), Divided(Ones(D), S \ {w}))
    BY <2>2, CongSym, CongTrans
  <2> QED
    BY <2>1, <2>3, OnesWithoutAPoint
<1>4. Nat \subseteq T
  <2> HIDE DEF T
  <2> QED
    BY <1>2, <1>3, Induction
<1> SUFFICES ASSUME NEW S \in SUBSET D, Apart(S), Cardinality(S) >= 2
             PROVE  Cong(Divided(Ones(D), S), 0)
  OBVIOUS
<1>5. Cardinality(S) - 2 \in T
  <2>1. Cardinality(S) \in Nat
    BY FS_CardinalityType DEF Apart
  <2>2. Cardinality(S) - 2 \in Nat
    BY <2>1
  <2> QED
    BY <1>4, <2>2
<1>6. Cardinality(S) = (Cardinality(S) - 2) + 2
  BY FS_CardinalityType DEF Apart
<1> QED
  BY <1>5, <1>6

\* Divided differences of a linear combination.
LEMMA DividedIsLinear ==
  ASSUME NEW S, Apart(S), NEW D, S \subseteq D, NEW k \in Int, NEW l \in Int,
         NEW f \in [D -> Int], NEW g \in [D -> Int], NEW h \in [D -> Int],
         \A t \in S : Cong(f[t], k * g[t] + l * h[t])
  PROVE  /\ Divided(f, S) \in Int /\ Divided(g, S) \in Int /\ Divided(h, S) \in Int
         /\ Cong(Divided(f, S), k * Divided(g, S) + l * Divided(h, S))
<1> DEFINE a == [t \in S |-> f[t] * Weight(S, t)]
           b == [t \in S |-> g[t] * Weight(S, t)]
           c == [t \in S |-> h[t] * Weight(S, t)]
<1>1. IsFiniteSet(S) /\ S \in SUBSET S
  BY DEF Apart
<1>2. \A t \in S : Weight(S, t) \in Int /\ f[t] \in Int /\ g[t] \in Int /\ h[t] \in Int
  BY WeightOfPoint
<1>3. a \in [S -> Int] /\ b \in [S -> Int] /\ c \in [S -> Int]
  BY <1>2
<1>4. ASSUME NEW t \in S PROVE Cong(a[t], k * b[t] + l * c[t])
  <2> DEFINE x == f[t]
             y == g[t]
             z == h[t]
             w == Weight(S, t)
             e == k * y + l * z
  <2>1. /\ x \in Int /\ y \in Int /\ z \in Int /\ w \in Int /\ Cong(x, e)
        /\ a[t] = x * w /\ b[t] = y * w /\ c[t] = z * w
    BY <1>2
  <2> HIDE DEF x, y, z, w, a, b, c
  <2>2. e \in Int /\ k * (y * w) + l * (z * w) = e * w
    BY <2>1
  <2> HIDE DEF e
  <2>3. Cong(x * w, e * w)
    BY <2>1, <2>2, CongRefl, CongTimes
  <2> QED
    BY <2>1, <2>2, <2>3
<1>5. Divided(f, S) = ModSum(a, S) /\ Divided(g, S) = ModSum(b, S) /\ Divided(h, S) = ModSum(c, S)
  BY DEF Divided
<1> HIDE DEF a, b, c
<1>6. Cong(ModSum(a, S), k * ModSum(b, S) + l * ModSum(c, S))
  BY <1>1, <1>3, <1>4, SumIsLinear
<1>7. ModSum(a, S) \in Int /\ ModSum(b, S) \in Int /\ ModSum(c, S) \in Int
  BY <1>1, <1>3, SumIsInt
<1> QED
  BY <1>5, <1>6, <1>7

-----------------------------------------------------------------------------
(* The polynomial.                                                          *)

Steps == 0..Threshold
Registers == [result : Field, power : Field]

\* What the registers of EvaluatePolynomial(x) hold after i coefficients.
Evaluates(f, x) ==
  f = [i \in Steps |->
        IF i = 0 THEN [result |-> 0, power |-> 1]
        ELSE [result |-> ScalarMod(f[i - 1].result + Coefficients[i] * f[i - 1].power),
              power  |-> ScalarMod(f[i - 1].power * x)]]
After(x) == CHOOSE f : Evaluates(f, x)

LEMMA CoefficientsAreScalars ==
  /\ Threshold \in Nat /\ Threshold >= 2
  /\ \A i \in 1..Threshold : Coefficients[i] \in Field /\ Coefficients[i] \in Int
<1>1. Coefficients \in Seq(Field) /\ Threshold \in 2..Trustees /\ Trustees \in Nat
  BY SetupAssumption
<1>2. Threshold \in Nat /\ Threshold >= 2
  BY <1>1
<1>3. \A i \in 1..Threshold : Coefficients[i] \in Field
  <2>1. \A i \in 1..Len(Coefficients) : Coefficients[i] \in Field
    BY <1>1
  <2> QED
    BY <2>1 DEF Threshold
<1> QED
  BY <1>2, <1>3, FieldIsSmall

LEMMA EvaluationExists ==
  ASSUME NEW x \in Int
  PROVE  /\ Evaluates(After(x), x) /\ After(x) \in [Steps -> Registers]
         /\ EvaluatePolynomial(x) = After(x)[Threshold].result
<1> DEFINE first == [result |-> 0, power |-> 1]
           step == [i \in 0..Threshold |-> [r \in Registers |->
                      IF i = 0 THEN first
                      ELSE [result |-> ScalarMod(r.result + Coefficients[i] * r.power),
                            power  |-> ScalarMod(r.power * x)]]]
<1>1. first \in Registers /\ 0 \in Int /\ Threshold \in Int
  BY ZeroInField, CoefficientsAreScalars DEF Registers
<1>2. step \in [0..Threshold -> [Registers -> Registers]]
  <2> SUFFICES ASSUME NEW i \in 0..Threshold, i # 0, NEW r \in Registers
               PROVE  [result |-> ScalarMod(r.result + Coefficients[i] * r.power),
                       power  |-> ScalarMod(r.power * x)] \in Registers
    BY <1>1
  <2> DEFINE a == r.result
             b == r.power
             c == Coefficients[i]
  <2>1. i \in 1..Threshold
    BY CoefficientsAreScalars
  <2>2. a \in Int /\ b \in Int /\ c \in Int
    BY <2>1, FieldIsSmall, CoefficientsAreScalars DEF Registers
  <2> HIDE DEF a, b, c
  <2>3. a + c * b \in Int /\ b * x \in Int
    BY <2>2
  <2>4. ScalarMod(a + c * b) \in Field /\ ScalarMod(b * x) \in Field
    BY <2>3, ModOfInt
  <2> QED
    BY <2>4 DEF a, b, c, Registers
<1> HIDE DEF first, step
<1>3. SolvableUp(0, Threshold, Registers, first, step)
  BY <1>1, <1>2, RecursionUp
<1>4. PICK f \in [0..Threshold -> Registers] :
         \A i \in 0..Threshold : f[i] = IF i = 0 THEN first ELSE step[i][f[i - 1]]
  BY <1>3 DEF SolvableUp
<1>5. ASSUME NEW i \in 0..Threshold, i # 0
      PROVE  f[i] = [result |-> ScalarMod(f[i - 1].result + Coefficients[i] * f[i - 1].power),
                     power  |-> ScalarMod(f[i - 1].power * x)]
  <2>1. i - 1 \in 0..Threshold
    BY <1>1, <1>5
  <2>2. f[i - 1] \in Registers /\ f[i] = step[i][f[i - 1]]
    BY <1>4, <1>5, <2>1
  <2> QED
    BY <1>5, <2>2 DEF step
<1>6. Evaluates(f, x)
  BY <1>4, <1>5 DEF Evaluates, Steps, first
<1>7. Evaluates(After(x), x)
  BY <1>6 DEF After
<1>8. After(x) = f
  <2> DEFINE g == After(x)
             T == {i \in Nat : i <= Threshold => g[i] = f[i]}
  <2>1. 0 \in T
    BY <1>1, <1>6, <1>7 DEF Evaluates, Steps
  <2>2. ASSUME NEW i \in Nat, i \in T PROVE i + 1 \in T
    <3> SUFFICES ASSUME i + 1 <= Threshold PROVE g[i + 1] = f[i + 1]
      OBVIOUS
    <3>1. i + 1 \in Steps /\ i + 1 # 0 /\ (i + 1) - 1 = i
      BY <1>1 DEF Steps
    <3>2. g[i] = f[i]
      BY <1>1, <2>2
    <3>3. f[i + 1] = [result |-> ScalarMod(f[i].result + Coefficients[i + 1] * f[i].power),
                      power  |-> ScalarMod(f[i].power * x)]
      BY <1>6, <3>1 DEF Evaluates
    <3>4. g[i + 1] = [result |-> ScalarMod(g[i].result + Coefficients[i + 1] * g[i].power),
                      power  |-> ScalarMod(g[i].power * x)]
      <4> HIDE DEF g
      <4>1. Evaluates(g, x)
        BY <1>7 DEF g
      <4> QED
        BY <3>1, <4>1 DEF Evaluates
    <3> QED
      BY <3>2, <3>3, <3>4
  <2>3. Nat \subseteq T
    <3> HIDE DEF T
    <3> QED
      BY <2>1, <2>2, Induction
  <2>4. \A i \in Steps : g[i] = f[i]
    BY <1>1, <2>3 DEF Steps
  <2>5. g = [i \in Steps |-> g[i]] /\ f = [i \in Steps |-> f[i]]
    BY <1>6, <1>7 DEF Evaluates
  <2> QED
    BY <2>4, <2>5
<1>9. EvaluatePolynomial(x) = After(x)[Threshold].result
  BY DEF EvaluatePolynomial, After, Evaluates, Steps
<1> QED
  BY <1>4, <1>7, <1>8, <1>9 DEF Steps

\* One turn of EvaluatePolynomial's loop.
LEMMA EvaluationTurns ==
  ASSUME NEW x \in Int, NEW i \in Nat, i < Threshold
  PROVE  /\ After(x)[0].result = 0 /\ After(x)[0].power = 1
         /\ After(x)[i].result \in Int /\ After(x)[i].power \in Int
         /\ After(x)[i + 1].result =
              ScalarMod(After(x)[i].result + Coefficients[i + 1] * After(x)[i].power)
         /\ After(x)[i + 1].power = ScalarMod(After(x)[i].power * x)
         /\ After(x)[i + 1].result \in Int /\ After(x)[i + 1].power \in Int
<1> DEFINE f == After(x)
<1>1. Evaluates(f, x) /\ f \in [Steps -> Registers]
  BY EvaluationExists
<1> HIDE DEF f
<1>2. 0 \in Steps /\ i \in Steps /\ i + 1 \in Steps /\ i + 1 # 0 /\ (i + 1) - 1 = i
  BY CoefficientsAreScalars DEF Steps
<1>3. f[0] = [result |-> 0, power |-> 1]
  BY <1>1, <1>2 DEF Evaluates
<1>4. f[i + 1] = [result |-> ScalarMod(f[i].result + Coefficients[i + 1] * f[i].power),
                  power  |-> ScalarMod(f[i].power * x)]
  BY <1>1, <1>2 DEF Evaluates
<1>5. f[i] \in Registers /\ f[i + 1] \in Registers
  BY <1>1, <1>2
<1>6. /\ f[i].result \in Int /\ f[i].power \in Int
      /\ f[i + 1].result \in Int /\ f[i + 1].power \in Int
  BY <1>5, FieldIsSmall DEF Registers
<1> QED
  BY <1>3, <1>4, <1>6 DEF f

\* The polynomial at 0 is its first coefficient.
LEMMA EvaluationAtZero == EvaluatePolynomial(0) = CommitteeSecret
<1> DEFINE f == After(0)
           c == Coefficients[1]
           T == {i \in Nat : i + 1 <= Threshold => f[i + 1].result = c /\ f[i + 1].power = 0}
<1>1. Threshold \in Nat /\ Threshold >= 2 /\ c \in Field /\ c \in Int
  BY CoefficientsAreScalars
<1>2. ScalarMod(c) = c /\ ScalarMod(0) = 0
  BY <1>1, FieldIsSmall, ZeroInField
<1>3. 0 \in T
  <2>1. 0 \in Int /\ 0 \in Nat /\ 0 < Threshold /\ 0 + 1 = 1
    BY <1>1
  <2>2. /\ f[0].result = 0 /\ f[0].power = 1
        /\ f[0 + 1].result = ScalarMod(f[0].result + Coefficients[0 + 1] * f[0].power)
        /\ f[0 + 1].power = ScalarMod(f[0].power * 0)
    BY <2>1, EvaluationTurns
  <2> HIDE DEF f, c
  <2>3. 0 + c * 1 = c /\ 1 * 0 = 0
    BY <1>1
  <2>4. f[1].result = ScalarMod(0 + c * 1) /\ f[1].power = ScalarMod(1 * 0)
    BY <2>1, <2>2 DEF c
  <2> QED
    BY <1>2, <2>1, <2>3, <2>4
<1>4. ASSUME NEW i \in Nat, i \in T PROVE i + 1 \in T
  <2> SUFFICES ASSUME (i + 1) + 1 <= Threshold
               PROVE  f[(i + 1) + 1].result = c /\ f[(i + 1) + 1].power = 0
    OBVIOUS
  <2> DEFINE n == i + 1
  <2>1. n \in Nat /\ n < Threshold /\ n + 1 \in 1..Threshold
    BY <1>1
  <2>2. f[n].result = c /\ f[n].power = 0
    BY <1>1, <1>4, <2>1
  <2> DEFINE d == Coefficients[n + 1]
  <2>3. d \in Int
    BY <2>1, CoefficientsAreScalars
  <2> HIDE DEF n
  <2>4. /\ f[n + 1].result = ScalarMod(f[n].result + d * f[n].power)
        /\ f[n + 1].power = ScalarMod(f[n].power * 0)
    <3>1. 0 \in Int
      OBVIOUS
    <3> QED
      BY <2>1, <3>1, EvaluationTurns
  <2> HIDE DEF f, c, d
  <2>5. c + d * 0 = c /\ 0 * 0 = 0
    BY <1>1, <2>3
  <2> QED
    BY <1>2, <2>2, <2>4, <2>5 DEF n
<1>5. Nat \subseteq T
  <2> HIDE DEF T
  <2> QED
    BY <1>3, <1>4, Induction
<1>6. Threshold - 1 \in T /\ (Threshold - 1) + 1 = Threshold
  BY <1>1, <1>5
<1>7. f[Threshold].result = c
  BY <1>1, <1>6
<1>8. EvaluatePolynomial(0) = f[Threshold].result
  BY EvaluationExists
<1> QED
  BY <1>7, <1>8 DEF CommitteeSecret

\* What the registers hold at each point, and their divided differences.
ResultsAfter(i, D) == [x \in D |-> After(x)[i].result]
PowersAfter(i, D) == [x \in D |-> After(x)[i].power]

LEMMA PowersDivide ==
  ASSUME NEW D, D \subseteq Int, NEW i \in Nat, i < Threshold,
         NEW S \in SUBSET D, Apart(S), S # {},
         Cong(Divided(PowersAfter(i, D), S), 0),
         \A v \in S : Cong(Divided(PowersAfter(i, D), S \ {v}), 0)
  PROVE  Cong(Divided(PowersAfter(i + 1, D), S), 0)
<1> DEFINE r == PowersAfter(i, D)
           xr == PowersAfter(i + 1, D)
           a == Divided(r, S)
           b == Divided(xr, S)
<1>1. r \in [D -> Int] /\ xr \in [D -> Int]
  BY EvaluationTurns DEF PowersAfter
<1>2. ASSUME NEW t \in D PROVE Cong(xr[t], t * r[t])
  <2>1. t \in Int /\ r[t] \in Int /\ xr[t] = ScalarMod(r[t] * t)
    BY <1>1, EvaluationTurns DEF PowersAfter
  <2> HIDE DEF r, xr
  <2>2. r[t] * t \in Int /\ r[t] * t = t * r[t]
    BY <2>1
  <2> QED
    BY <2>1, <2>2, CongMod
<1>3. PICK v \in S : TRUE
  OBVIOUS
<1> DEFINE c == Divided(r, S \ {v})
           e == -v
<1>4. /\ v \in Int /\ a \in Int /\ b \in Int /\ c \in Int
      /\ Cong(c, b + e * a)
  <2> HIDE DEF r, xr
  <2>1. v \in Int
    OBVIOUS
  <2>2. /\ Divided(r, S) \in Int /\ Divided(xr, S) \in Int
        /\ Divided(r, S \ {v}) \in Int
        /\ Cong(Divided(r, S \ {v}), Divided(xr, S) + (-v) * Divided(r, S))
    BY <1>1, <1>2, DividedShrinks
  <2> QED
    BY <2>1, <2>2
<1>5. Cong(c, 0) /\ Cong(a, 0) /\ e \in Int
  BY <1>4
<1> HIDE DEF r, xr, a, b, c, e
<1> DEFINE z == 0
           g == e * a
<1>6. z \in Int /\ g \in Int /\ Cong(a, z) /\ Cong(e, e) /\ e * z = 0
  BY <1>4, <1>5, CongRefl
<1> HIDE DEF z
<1>7. Cong(e * a, e * z)
  BY <1>4, <1>5, <1>6, CongTimes
<1>8. Cong(g, 0)
  BY <1>6, <1>7
<1> DEFINE h == -g
<1>9. h \in Int /\ (b + g) + h = b /\ b + g \in Int
  BY <1>4, <1>6
<1>10. Cong(h, 0)
  <2> HIDE DEF g
  <2>1. Cong(g + h, 0 + h) /\ g + h = 0 /\ 0 + h = h
    <3>1. 0 \in Int
      OBVIOUS
    <3> HIDE DEF h
    <3>2. Cong(g + h, 0 + h)
      BY <1>6, <1>8, <1>9, <3>1, CongRefl, CongAdd
    <3>3. g + h = 0 /\ 0 + h = h
      BY <1>6 DEF h
    <3> QED
      BY <3>2, <3>3
  <2> QED
    BY <2>1, CongSym
<1>11. Cong(b + g, 0)
  BY <1>4, <1>5, CongSym, CongTrans
<1> HIDE DEF g, h
<1>12. Cong((b + g) + h, 0 + 0)
  <2>1. 0 \in Int
    OBVIOUS
  <2> QED
    BY <1>9, <1>10, <1>11, <2>1, CongAdd
<1>13. Cong(b, 0)
  BY <1>9, <1>12
<1> QED
  BY <1>13 DEF b, xr

\* A combination of two things that vanish vanishes.
LEMMA ZeroCombination ==
  ASSUME NEW k \in Int, NEW l \in Int, NEW a \in Int, NEW b \in Int, Cong(a, 0), Cong(b, 0)
  PROVE  Cong(k * a + l * b, 0)
<1> DEFINE z == 0
           x == k * a
           y == l * b
<1>1. z \in Int /\ x \in Int /\ y \in Int /\ k * z = z /\ l * z = z /\ z + z = z
      /\ Cong(a, z) /\ Cong(b, z)
  OBVIOUS
<1> HIDE DEF z
<1>2. Cong(k * a, k * z) /\ Cong(l * b, l * z)
  BY <1>1, CongRefl, CongTimes
<1>3. Cong(x, z) /\ Cong(y, z)
  BY <1>1, <1>2
<1> HIDE DEF x, y
<1>4. Cong(x + y, z + z)
  BY <1>1, <1>3, CongAdd
<1> QED
  BY <1>1, <1>4 DEF x, y, z

\* The divided difference of a polynomial on more points than its degree + 1 is 0.
Flat(i, D) ==
  \A S \in SUBSET D : Apart(S) =>
    /\ Cardinality(S) >= i + 1 => Cong(Divided(ResultsAfter(i, D), S), 0)
    /\ Cardinality(S) >= i + 2 => Cong(Divided(PowersAfter(i, D), S), 0)

LEMMA FlatAtFirst == ASSUME NEW D, D \subseteq Int PROVE Flat(0, D)
<1> SUFFICES ASSUME NEW S \in SUBSET D, Apart(S)
             PROVE  /\ Cong(Divided(ResultsAfter(0, D), S), 0)
                    /\ Cardinality(S) >= 2 => Cong(Divided(PowersAfter(0, D), S), 0)
  BY DEF Flat
<1>1. 0 \in Nat /\ 0 < Threshold
  BY CoefficientsAreScalars
<1>2. \A x \in D : After(x)[0].result = 0 /\ After(x)[0].power = 1
  BY <1>1, EvaluationTurns
<1>3. PowersAfter(0, D) = Ones(D)
  BY <1>2 DEF PowersAfter, Ones
<1> DEFINE f == ResultsAfter(0, D)
           k == 0
<1>4. f \in [D -> Int] /\ k \in Int /\ \A t \in S : f[t] = 0
  BY <1>2 DEF ResultsAfter
<1> HIDE DEF f
<1>5. \A t \in S : Cong(f[t], k * f[t] + k * f[t])
  <2>1. ASSUME NEW t \in S PROVE f[t] = k * f[t] + k * f[t]
    BY <1>4
  <2> QED
    BY <2>1, CongRefl
<1> DEFINE a == Divided(f, S)
<1>6. a \in Int /\ Cong(a, k * a + k * a)
  <2> HIDE DEF k
  <2> QED
    BY <1>4, <1>5, DividedIsLinear
<1> HIDE DEF a
<1>7. k * a + k * a = 0
  BY <1>6
<1>8. Cong(Divided(f, S), 0)
  BY <1>6, <1>7 DEF a
<1> QED
  BY <1>3, <1>8, OnesCancel DEF f

LEMMA FlatAfterTurn ==
  ASSUME NEW D, D \subseteq Int, NEW i \in Nat, i < Threshold, Flat(i, D)
  PROVE  Flat(i + 1, D)
<1> SUFFICES ASSUME NEW S \in SUBSET D, Apart(S), Cardinality(S) >= i + 2
             PROVE  /\ Cong(Divided(ResultsAfter(i + 1, D), S), 0)
                    /\ Cardinality(S) >= i + 3 => Cong(Divided(PowersAfter(i + 1, D), S), 0)
  <2>1. (i + 1) + 1 = i + 2 /\ (i + 1) + 2 = i + 3
    OBVIOUS
  <2>2. ASSUME NEW S \in SUBSET D, Apart(S)
        PROVE  /\ Cardinality(S) >= i + 2 => Cong(Divided(ResultsAfter(i + 1, D), S), 0)
               /\ Cardinality(S) >= i + 3 => Cong(Divided(PowersAfter(i + 1, D), S), 0)
    <3>1. Cardinality(S) \in Nat
      BY <2>2, FS_CardinalityType DEF Apart
    <3>2. Cardinality(S) >= i + 3 => Cardinality(S) >= i + 2
      BY <3>1
    <3> QED
      BY <2>2, <3>2
  <2> QED
    BY <2>1, <2>2 DEF Flat
<1>1. IsFiniteSet(S) /\ Cardinality(S) \in Nat /\ S # {}
  <2>1. IsFiniteSet(S)
    BY DEF Apart
  <2>2. Cardinality(S) \in Nat
    BY <2>1, FS_CardinalityType
  <2>3. Cardinality(S) # 0
    BY <2>2
  <2> QED
    BY <2>1, <2>2, <2>3, FS_EmptySet
<1>2. /\ Cong(Divided(ResultsAfter(i, D), S), 0)
      /\ Cong(Divided(PowersAfter(i, D), S), 0)
  <2>1. Cardinality(S) >= i + 1
    BY <1>1
  <2>2. Cardinality(S) >= i + 1 => Cong(Divided(ResultsAfter(i, D), S), 0)
    BY DEF Flat
  <2>3. Cardinality(S) >= i + 2 => Cong(Divided(PowersAfter(i, D), S), 0)
    BY DEF Flat
  <2> QED
    BY <2>1, <2>2, <2>3
<1>3. Cong(Divided(ResultsAfter(i + 1, D), S), 0)
  <2> DEFINE f == ResultsAfter(i + 1, D)
             g == ResultsAfter(i, D)
             h == PowersAfter(i, D)
             k == 1
             l == Coefficients[i + 1]
  <2>1. f \in [D -> Int] /\ g \in [D -> Int] /\ h \in [D -> Int]
    BY EvaluationTurns DEF ResultsAfter, PowersAfter
  <2>2. k \in Int /\ l \in Int
    <3>1. i + 1 \in 1..Threshold
      BY CoefficientsAreScalars
    <3> QED
      BY <3>1, CoefficientsAreScalars
  <2>3. ASSUME NEW t \in D PROVE Cong(f[t], k * g[t] + l * h[t])
    <3>1. t \in Int /\ f[t] = ScalarMod(g[t] + l * h[t]) /\ g[t] \in Int /\ h[t] \in Int
      BY <2>1, EvaluationTurns DEF ResultsAfter, PowersAfter
    <3> HIDE DEF f, g, h, l
    <3>2. g[t] + l * h[t] \in Int /\ k * g[t] + l * h[t] = g[t] + l * h[t]
      BY <2>2, <3>1
    <3> QED
      BY <3>1, <3>2, CongMod
  <2> HIDE DEF f, g, h, k, l
  <2>4. /\ Divided(f, S) \in Int /\ Divided(g, S) \in Int /\ Divided(h, S) \in Int
        /\ Cong(Divided(f, S), k * Divided(g, S) + l * Divided(h, S))
    BY <2>1, <2>2, <2>3, DividedIsLinear
  <2>5. Cong(Divided(g, S), 0) /\ Cong(Divided(h, S), 0)
    BY <1>2 DEF g, h
  <2>6. Cong(k * Divided(g, S) + l * Divided(h, S), 0)
    BY <2>2, <2>4, <2>5, ZeroCombination
  <2>7. Cong(Divided(f, S), 0)
    BY <2>4, <2>6, CongTrans
  <2> QED
    BY <2>7 DEF f
<1>4. ASSUME Cardinality(S) >= i + 3 PROVE Cong(Divided(PowersAfter(i + 1, D), S), 0)
  <2>1. ASSUME NEW v \in S PROVE Cong(Divided(PowersAfter(i, D), S \ {v}), 0)
    <3>1. Cardinality(S \ {v}) = Cardinality(S) - 1
      BY <1>1, FS_RemoveElement
    <3>2. Cardinality(S \ {v}) >= i + 2 /\ S \ {v} \in SUBSET D
      BY <1>1, <1>4, <3>1
    <3>3. Apart(S \ {v})
      BY FewerApart
    <3> QED
      BY <3>2, <3>3 DEF Flat
  <2> QED
    BY <1>1, <1>2, <2>1, PowersDivide
<1> QED
  BY <1>3, <1>4

LEMMA SecretPolynomialIsFlat ==
  ASSUME NEW D, D \subseteq Int, NEW S \in SUBSET D, Apart(S), Cardinality(S) >= Threshold + 1
  PROVE  Cong(Divided([x \in D |-> EvaluatePolynomial(x)], S), 0)
<1> DEFINE T == {i \in Nat : i <= Threshold => Flat(i, D)}
<1>1. Threshold \in Nat
  BY CoefficientsAreScalars
<1>2. 0 \in T
  BY FlatAtFirst
<1>3. ASSUME NEW i \in Nat, i \in T PROVE i + 1 \in T
  <2> SUFFICES ASSUME i + 1 <= Threshold PROVE Flat(i + 1, D)
    OBVIOUS
  <2>1. i < Threshold /\ Flat(i, D)
    BY <1>1, <1>3
  <2> QED
    BY <2>1, FlatAfterTurn
<1>4. Nat \subseteq T
  <2> HIDE DEF T
  <2> QED
    BY <1>2, <1>3, Induction
<1>5. Flat(Threshold, D)
  BY <1>1, <1>4
<1>6. [x \in D |-> EvaluatePolynomial(x)] = ResultsAfter(Threshold, D)
  BY EvaluationExists DEF ResultsAfter
<1> QED
  BY <1>5, <1>6 DEF Flat

-----------------------------------------------------------------------------
(* Interpolation at 0.                                                      *)

TrusteeQuorums == {ids \in SUBSET TrusteeIds : Cardinality(ids) = Threshold}

LEMMA PointsAreApart ==
  ASSUME NEW ids \in SUBSET TrusteeIds
  PROVE  /\ Apart(ids \cup {0}) /\ IsFiniteSet(ids)
         /\ (ids \cup {0}) \ {0} = ids /\ ids \subseteq Int /\ 0 \notin ids
<1>1. Trustees \in Nat /\ SubgroupOrder \in Nat /\ SubgroupOrder > Trustees
  BY SetupAssumption
<1>2. IsFiniteSet(TrusteeIds) /\ IsFiniteSet(ids)
  <2>1. IsFiniteSet(1..Trustees)
    BY <1>1, FS_Interval
  <2> QED
    BY <2>1, FS_Subset DEF TrusteeIds
<1>3. IsFiniteSet(ids \cup {0})
  BY <1>2, FS_AddElement
<1>4. \A t \in ids \cup {0} : t \in 0..Trustees
  BY <1>1 DEF TrusteeIds
<1>5. ASSUME NEW t \in ids \cup {0}, NEW u \in ids \cup {0}, t # u PROVE ~Cong(t - u, 0)
  <2> SUFFICES ASSUME Cong(t - u, 0) PROVE FALSE
    OBVIOUS
  <2> DEFINE d == t - u
             q == SubgroupOrder
  <2>1. d \in Int /\ d # 0 /\ -q < d /\ d < q /\ q \in Nat /\ q > 0
    BY <1>1, <1>4, <1>5
  <2>2. PICK k \in Int : d = 0 + k * q
    <3>1. 0 \in Int
      OBVIOUS
    <3> HIDE DEF d
    <3>2. Cong(d, 0)
      BY DEF d
    <3> QED
      BY <2>1, <3>1, <3>2, CongDiffers
  <2> HIDE DEF d, q
  <2>3. CASE k = 0
    BY <2>1, <2>2, <2>3
  <2>4. CASE k >= 1
    <3>1. k * q >= q
      BY <2>1, <2>4
    <3> QED
      BY <2>1, <2>2, <3>1
  <2>5. CASE k <= -1
    <3>1. k * q <= -q
      BY <2>1, <2>5
    <3> QED
      BY <2>1, <2>2, <3>1
  <2> QED
    BY <2>2, <2>3, <2>4, <2>5
<1>6. ids \cup {0} \subseteq Int /\ (ids \cup {0}) \ {0} = ids /\ ids \subseteq Int /\ 0 \notin ids
  BY <1>1, <1>4 DEF TrusteeIds
<1> QED
  BY <1>2, <1>3, <1>5, <1>6 DEF Apart

\* The product of the negated ids.
Negated(ids) == ModProduct([t \in ids |-> -t], ids)

LEMMA CoefficientIsWeight ==
  ASSUME NEW ids \in SUBSET TrusteeIds, NEW t \in ids
  PROVE  /\ LagrangeCoefficientAtZero(ids, t) \in Int
         /\ Negated(ids) \in Int /\ Weight(ids \cup {0}, t) \in Int
         /\ Cong(LagrangeCoefficientAtZero(ids, t), (-Negated(ids)) * Weight(ids \cup {0}, t))
<1> DEFINE P == ids \cup {0}
           R == ids \ {t}
           w == [u \in ids |-> -u]
           v == [u \in R |-> -u]
           n == ModProduct(v, R)
           N == Negated(ids)
           W == Weight(P, t)
           V == Weight(ids, t)
<1>1. /\ Apart(P) /\ Apart(ids) /\ IsFiniteSet(ids) /\ IsFiniteSet(R) /\ ids \subseteq Int
      /\ t \in P /\ 0 \in P /\ t # 0 /\ P \ {0} = ids /\ t \in Int
  <2>1. /\ Apart(P) /\ IsFiniteSet(ids) /\ P \ {0} = ids /\ ids \subseteq Int /\ 0 \notin ids
    BY PointsAreApart
  <2>2. Apart(ids)
    BY <2>1, FewerApart
  <2>3. IsFiniteSet(R)
    BY <2>1, FS_RemoveElement
  <2> QED
    BY <2>1, <2>2, <2>3
<1>2. /\ w \in [ids -> Int] /\ v \in [R -> Int] /\ w[t] = -t /\ (\A u \in R : w[u] = v[u])
      /\ ids \in SUBSET ids /\ R \in SUBSET R /\ R \subseteq ids /\ R \in SUBSET ids
  BY <1>1
<1>3. V \in Int /\ W \in Int
  BY <1>1, WeightOfPoint
<1>4. Cong(V, t * W)
  <2>1. Cong(Weight(P \ {0}, t), (t - 0) * Weight(P, t))
    BY <1>1, WeightShrinks
  <2>2. t - 0 = t
    BY <1>1
  <2> QED
    BY <1>1, <2>1, <2>2
<1>5. LagrangeCoefficientAtZero(ids, t) = ScalarMod(n * V)
  BY DEF LagrangeCoefficientAtZero, Weight, Spread
<1>6. N = ModProduct(w, ids)
  BY DEF Negated
<1> HIDE DEF P, R, w, v, n, N, W, V
<1>7. /\ N \in Int /\ n \in Int /\ ModProduct(w, R) \in Int
      /\ Cong(N, (-t) * n)
  <2>1. N \in Int /\ n \in Int /\ ModProduct(w, R) \in Int
    BY <1>1, <1>2, <1>6, ProductIsInt DEF n
  <2>2. Cong(N, w[t] * ModProduct(w, ids \ {t}))
    BY <1>1, <1>2, <1>6, ProductTakes
  <2>3. Cong(ModProduct(w, R), n)
    BY <1>1, <1>2, CongRefl, ProductsAgree DEF n
  <2> DEFINE e == -t
             m == ModProduct(w, R)
  <2>4. e \in Int /\ m \in Int /\ Cong(m, n) /\ Cong(e, e) /\ Cong(N, e * m)
    <3>1. e \in Int
      BY <1>1
    <3>2. Cong(N, e * m)
      <4>1. w[t] = e /\ ids \ {t} = R
        BY <1>2 DEF R
      <4> HIDE DEF e
      <4> QED
        BY <2>2, <4>1
    <3> QED
      BY <2>1, <2>3, <3>1, <3>2, CongRefl
  <2> HIDE DEF e, m
  <2>5. Cong(e * m, e * n)
    BY <2>1, <2>4, CongTimes
  <2>6. Cong(N, e * n)
    BY <2>4, <2>5, CongTrans
  <2> QED
    BY <2>1, <2>6 DEF e, m
<1>8. n * V \in Int /\ ScalarMod(n * V) \in Int
  <2>1. n * V \in Int
    BY <1>3, <1>7
  <2> QED
    BY <2>1, ModOfInt, FieldIsSmall
<1>9. Cong(ScalarMod(n * V), n * V)
  BY <1>8, CongMod
<1> DEFINE x == t * W
           y == (-t) * n
           z == -W
<1>10. x \in Int /\ y \in Int /\ z \in Int /\ n * x = y * z /\ N * z = (-N) * W /\ Cong(V, x) /\ Cong(N, y)
  BY <1>1, <1>3, <1>4, <1>7
<1> HIDE DEF x, y, z
<1>11. Cong(n * V, n * x)
  BY <1>3, <1>7, <1>10, CongRefl, CongTimes
<1>12. Cong(N * z, y * z)
  BY <1>7, <1>10, CongRefl, CongTimes
<1>13. Cong(ScalarMod(n * V), N * z)
  BY <1>9, <1>10, <1>11, <1>12, CongSym, CongTrans
<1> QED
  BY <1>3, <1>5, <1>7, <1>8, <1>10, <1>13 DEF N, W, P

LEMMA SharesSumToSecret ==
  ASSUME NEW ids \in TrusteeQuorums,
         NEW w \in [ids -> Int], NEW k \in Int,
         \A t \in ids : Cong(w[t], SecretShare(t) * k)
  PROVE  LET parts == [t \in ids |-> LagrangeCoefficientAtZero(ids, t) * w[t]]
         IN  ModSum(parts, ids) \in Int /\ Cong(ModSum(parts, ids), CommitteeSecret * k)
<1> DEFINE P == ids \cup {0}
           D == P
           s == [x \in D |-> EvaluatePolynomial(x)]
           a == [x \in P |-> s[x] * Weight(P, x)]
           b == [t \in ids |-> LagrangeCoefficientAtZero(ids, t) * w[t]]
           N == Negated(ids)
           m == -N
           mk == m * k
           W == Weight(P, 0)
           A == ModSum(a, ids)
           B == ModSum(b, ids)
<1>1. /\ ids \in SUBSET TrusteeIds /\ Cardinality(ids) = Threshold
      /\ Apart(P) /\ IsFiniteSet(ids) /\ IsFiniteSet(P) /\ P \ {0} = ids /\ ids \subseteq Int
      /\ P \subseteq Int /\ 0 \in P /\ 0 \notin ids /\ ids \in SUBSET P /\ ids \in SUBSET ids
      /\ P \in SUBSET P /\ ids \subseteq P
  <2>1. ids \in SUBSET TrusteeIds /\ Cardinality(ids) = Threshold
    BY DEF TrusteeQuorums
  <2>2. Apart(P) /\ IsFiniteSet(ids) /\ P \ {0} = ids /\ ids \subseteq Int /\ 0 \notin ids
    BY <2>1, PointsAreApart
  <2> QED
    BY <2>1, <2>2 DEF Apart
<1>2. s \in [D -> Int] /\ s[0] = CommitteeSecret
  <2>1. \A x \in D : EvaluatePolynomial(x) \in Int
    <3> SUFFICES ASSUME NEW x \in D PROVE EvaluatePolynomial(x) \in Int
      OBVIOUS
    <3>1. After(x) \in [Steps -> Registers] /\ EvaluatePolynomial(x) = After(x)[Threshold].result
      BY <1>1, EvaluationExists
    <3>2. Threshold \in Steps
      BY CoefficientsAreScalars DEF Steps
    <3> QED
      BY <3>1, <3>2, FieldIsSmall DEF Registers
  <2> QED
    BY <1>1, <2>1, EvaluationAtZero
<1>3. Cong(Divided(s, P), 0)
  <2>1. Cardinality(P) = Threshold + 1
    BY <1>1, FS_AddElement
  <2>2. Cardinality(P) >= Threshold + 1
    BY <2>1, CoefficientsAreScalars
  <2> QED
    BY <1>1, <2>2, SecretPolynomialIsFlat
<1>4. /\ \A x \in P : s[x] \in Int /\ Weight(P, x) \in Int
      /\ W \in Int /\ N \in Int /\ m \in Int /\ mk \in Int
  <2>1. \A x \in P : Weight(P, x) \in Int
    BY <1>1, WeightOfPoint
  <2>2. N \in Int
    <3>1. [t \in ids |-> -t] \in [ids -> Int]
      BY <1>1
    <3> QED
      BY <1>1, <3>1, ProductIsInt DEF Negated
  <2>3. m \in Int
    BY <2>2
  <2>4. mk \in Int
    <3> HIDE DEF m
    <3> QED
      BY <2>3
  <2> QED
    BY <1>1, <1>2, <2>1, <2>2, <2>3, <2>4
<1>5. Cong(N * W, 1)
  <2>1. Cong(Spread(P, 0) * Weight(P, 0), 1)
    BY <1>1, WeightOfPoint
  <2>2. Spread(P, 0) = N
    <3>1. [u \in P \ {0} |-> 0 - u] = [t \in ids |-> -t]
      BY <1>1
    <3> QED
      BY <1>1, <3>1 DEF Spread, Negated
  <2> QED
    BY <2>1, <2>2
<1>6. a \in [P -> Int] /\ a[0] = CommitteeSecret * W /\ CommitteeSecret \in Int
  <2>1. ASSUME NEW x \in P PROVE s[x] * Weight(P, x) \in Int
    <3> DEFINE u == s[x]
               v == Weight(P, x)
    <3>1. u \in Int /\ v \in Int
      BY <1>4
    <3> HIDE DEF u, v
    <3>2. u * v \in Int
      BY <3>1
    <3> QED
      BY <3>2 DEF u, v
  <2>2. a \in [P -> Int]
    <3> HIDE DEF s, P
    <3> QED
      BY <2>1
  <2>3. a[0] = s[0] * W
    BY <1>1
  <2>4. s[0] = CommitteeSecret /\ s[0] \in Int
    BY <1>1, <1>2
  <2> QED
    BY <2>2, <2>3, <2>4
<1>7. \A t \in ids : LagrangeCoefficientAtZero(ids, t) \in Int
  BY <1>1, CoefficientIsWeight
<1>8. b \in [ids -> Int]
  BY <1>7
<1>9. ASSUME NEW t \in ids PROVE Cong(b[t], mk * a[t])
  <2> DEFINE l == LagrangeCoefficientAtZero(ids, t)
             x == Weight(P, t)
             y == SecretShare(t)
             z == w[t]
             e == m * x
             f == y * k
  <2>1. l \in Int /\ x \in Int /\ y \in Int /\ z \in Int /\ Cong(l, e) /\ Cong(z, f)
    <3>1. Cong(l, e)
      BY <1>1, CoefficientIsWeight
    <3>2. y = s[t] /\ t \in P
      BY <1>1 DEF SecretShare
    <3> HIDE DEF s
    <3>3. y \in Int
      BY <1>4, <3>2
    <3> HIDE DEF P, y
    <3> QED
      BY <1>1, <1>4, <1>7, <3>1, <3>3 DEF P, y
  <2>2. b[t] = l * z /\ a[t] = y * x
    BY <1>1 DEF SecretShare
  <2> HIDE DEF l, x, y, z, a, b, m, P
  <2>3. e \in Int /\ f \in Int /\ e * f = mk * (y * x)
    BY <1>4, <2>1
  <2> HIDE DEF e, f, mk
  <2>4. Cong(l * z, e * f)
    BY <2>1, <2>3, CongTimes
  <2> QED
    BY <2>2, <2>3, <2>4
<1> HIDE DEF s, a, b, D
<1>10. /\ A \in Int /\ B \in Int
       /\ Cong(B, mk * A)
       /\ Cong(ModSum(a, P), a[0] + A)
       /\ ModSum(a, P) = Divided(s, P) /\ ModSum(a, P) \in Int
  <2> HIDE DEF mk, P
  <2>1. A \in Int /\ B \in Int /\ ModSum(a, P) \in Int
    BY <1>1, <1>6, <1>8, SumIsInt
  <2>2. Cong(B, mk * A)
    BY <1>1, <1>4, <1>6, <1>8, <1>9, SumScales
  <2>3. Cong(ModSum(a, P), a[0] + ModSum(a, P \ {0}))
    BY <1>1, <1>6, SumTakes
  <2>4. ModSum(a, P) = Divided(s, P)
    BY DEF a, Divided
  <2> QED
    BY <1>1, <2>1, <2>2, <2>3, <2>4
<1> HIDE DEF P, W, N, A, B
<1> DEFINE c == CommitteeSecret
           c0 == c * W
           s0 == c0 + A
<1>11. Cong(s0, 0) /\ c0 \in Int /\ s0 \in Int /\ c \in Int
  <2>1. c \in Int /\ W \in Int
    BY <1>4, <1>6
  <2>2. c0 \in Int /\ s0 \in Int
    <3> HIDE DEF c
    <3>1. c0 \in Int
      BY <2>1
    <3> HIDE DEF c0
    <3> QED
      BY <1>10, <3>1
  <2>3. a[0] + A = s0
    BY <1>6
  <2> HIDE DEF c, c0, s0
  <2>4. Cong(s0, 0)
    BY <1>3, <1>10, <2>3, CongSym, CongTrans
  <2> QED
    BY <2>1, <2>2, <2>4
<1>12. mk * A = (N * W) * (c * k) + mk * s0
  <2> HIDE DEF c
  <2> QED
    BY <1>4, <1>10, <1>11
<1> DEFINE ck == c * k
           NW == N * W
           zero == 0
           one == 1
<1>13. /\ ck \in Int /\ NW \in Int /\ zero \in Int /\ one \in Int
       /\ Cong(NW, one) /\ Cong(s0, zero) /\ one * ck + mk * zero = ck
  <2> HIDE DEF c
  <2>1. ck \in Int /\ NW \in Int
    BY <1>4, <1>11
  <2> HIDE DEF ck, NW, s0, mk
  <2>2. one * ck + mk * zero = ck
    BY <1>4, <2>1
  <2> QED
    BY <1>5, <1>11, <2>1, <2>2 DEF NW
<1> HIDE DEF ck, NW, zero, one, mk, s0
<1>14. Cong(NW * ck, one * ck) /\ Cong(mk * s0, mk * zero)
  BY <1>4, <1>11, <1>13, CongRefl, CongTimes
<1> DEFINE p == NW * ck
           q == mk * s0
           u == one * ck
           v == mk * zero
<1>15. p \in Int /\ q \in Int /\ u \in Int /\ v \in Int /\ Cong(p, u) /\ Cong(q, v)
  BY <1>4, <1>11, <1>13, <1>14
<1>16. mk * A = p + q /\ u + v = ck
  BY <1>12, <1>13 DEF NW, ck
<1> HIDE DEF p, q, u, v
<1>17. Cong(p + q, u + v)
  BY <1>15, CongAdd
<1>18. Cong(B, ck)
  BY <1>10, <1>16, <1>17, CongTrans
<1> QED
  BY <1>10, <1>18 DEF B, b, ck, c

\* Threshold decryption: from the partial decryptions of any quorum of trustees,
\* Combine opens what a ciphertext encrypts.
THEOREM QuorumsDecrypt ==
  ASSUME NEW c \in Ciphertexts, NEW ids \in TrusteeQuorums
  PROVE  Combine(c, [t \in ids |-> PartialDecryption(t, c)], ids) = Plaintext(c)
<1> DEFINE w == [t \in ids |-> PartialDecryption(t, c)]
           k == c.R
           m == c.S
           parts == [t \in ids |-> LagrangeCoefficientAtZero(ids, t) * w[t]]
           x == ModSum(parts, ids)
           y == CommitteeSecret * k
<1>1. k \in Int /\ m \in Int
  BY FieldIsSmall DEF Ciphertexts
<1>2. ASSUME NEW t \in ids PROVE w[t] \in Int /\ Cong(w[t], SecretShare(t) * k)
  <2> DEFINE s == SecretShare(t)
  <2>1. s \in Int
    <3>1. t \in Int
      BY PointsAreApart DEF TrusteeQuorums
    <3>2. After(t) \in [Steps -> Registers] /\ s = After(t)[Threshold].result
      BY <3>1, EvaluationExists DEF SecretShare
    <3>3. Threshold \in Steps
      BY CoefficientsAreScalars DEF Steps
    <3> QED
      BY <3>2, <3>3, FieldIsSmall DEF Registers
  <2>2. w[t] = ScalarMod(s * k)
    BY DEF PartialDecryption
  <2> HIDE DEF s, k
  <2>3. s * k \in Int
    BY <1>1, <2>1
  <2>4. ScalarMod(s * k) \in Int /\ Cong(ScalarMod(s * k), s * k)
    BY <2>3, ModOfInt, FieldIsSmall, CongMod
  <2> QED
    BY <2>2, <2>4 DEF s
<1>3. w \in [ids -> Int]
  BY <1>2
<1> HIDE DEF w, k
<1>4. x \in Int /\ Cong(x, y)
  BY <1>1, <1>2, <1>3, SharesSumToSecret
<1>5. y \in Int
  <2>1. CommitteeSecret \in Int
    BY CoefficientsAreScalars DEF CommitteeSecret
  <2> QED
    BY <1>1, <2>1
<1>6. Combine(c, w, ids) = ScalarMod(m - x) /\ Plaintext(c) = ScalarMod(m - y)
  BY DEF Combine, Plaintext, k
<1> HIDE DEF m, x, y
<1> DEFINE e == -1
<1>7. e \in Int /\ m - x = m + e * x /\ m - y = m + e * y
  BY <1>1, <1>4, <1>5
<1> HIDE DEF e
<1>8. Cong(e * x, e * y)
  BY <1>4, <1>5, <1>7, CongRefl, CongTimes
<1> DEFINE ex == e * x
           ey == e * y
<1>9. ex \in Int /\ ey \in Int /\ Cong(ex, ey)
  BY <1>4, <1>5, <1>7, <1>8
<1> HIDE DEF ex, ey
<1>10. Cong(m + ex, m + ey)
  BY <1>1, <1>9, CongRefl, CongAdd
<1> QED
  BY <1>6, <1>7, <1>10 DEF Cong, ex, ey, w

-----------------------------------------------------------------------------
(* Folds over sequences: the last element of a prefix is taken first.       *)

LEMMA MaxExists ==
  ASSUME NEW n \in Nat, NEW s \in SUBSET (1..n), s # {}
  PROVE  Max(s) \in s /\ \A y \in s : Max(s) >= y
<1> DEFINE T == {n - x : x \in s}
<1>1. T \subseteq Nat /\ T # {}
  <2>1. \A x \in s : n - x \in Nat
    OBVIOUS
  <2> QED
    BY <2>1
<1>2. PICK m \in T : \A k \in T : m <= k
  <2> HIDE DEF T
  <2> QED
    BY <1>1, LeastElement
<1>3. PICK x \in s : m = n - x
  BY <1>2
<1>4. ASSUME NEW y \in s PROVE x >= y
  <2>1. n - y \in T
    OBVIOUS
  <2> HIDE DEF T
  <2>2. n - x <= n - y /\ x \in Int /\ y \in Int
    BY <1>2, <1>3, <2>1
  <2> QED
    BY <2>2
<1> HIDE DEF T
<1> QED
  BY <1>3, <1>4 DEF Max

LEMMA LastOfPrefix ==
  ASSUME NEW n \in Nat, NEW k \in 1..n
  PROVE  /\ 1..k # {} /\ Max(1..k) = k /\ (1..k) \ {k} = 1..(k - 1)
         /\ 1..k \in SUBSET (1..n) /\ 1..(k - 1) \in SUBSET (1..n)
<1>1. k \in Nat /\ k \in 1..k /\ 1..k \in SUBSET (1..k)
  OBVIOUS
<1>2. Max(1..k) \in 1..k /\ \A y \in 1..k : Max(1..k) >= y
  BY <1>1, MaxExists
<1>3. Max(1..k) = k
  BY <1>1, <1>2
<1>4. (1..k) \ {k} = 1..(k - 1)
  OBVIOUS
<1>5. 1..k \in SUBSET (1..n) /\ 1..(k - 1) \in SUBSET (1..n)
  OBVIOUS
<1>6. 1..k # {}
  BY <1>1
<1> QED
  BY <1>3, <1>4, <1>5, <1>6

SequenceFold(g, n, base, step) ==
  \A s \in SUBSET (1..n) : g[s] = IF s = {} THEN base ELSE step[Max(s)][g[s \ {Max(s)}]]

LEMMA SequenceFoldExists ==
  ASSUME NEW n \in Nat, NEW V, NEW base \in V, NEW step, \A x \in 1..n : step[x] \in [V -> V]
  PROVE  \E g \in [SUBSET (1..n) -> V] : SequenceFold(g, n, base, step)
<1> DEFINE S == 1..n
           pick == [s \in (SUBSET S) \ {{}} |-> Max(s)]
<1>1. IsFiniteSet(S)
  BY FS_Interval
<1>2. Chooses(pick, S)
  BY MaxExists DEF Chooses
<1> HIDE DEF S, pick
<1>3. PICK g \in [SUBSET S -> V] : FoldEquation(g, S, base, step, pick)
  BY <1>1, <1>2, FoldExists DEF S
<1>4. \A s \in SUBSET S : s # {} => pick[s] = Max(s)
  BY DEF pick
<1>5. \A s \in SUBSET S : g[s] = IF s = {} THEN base ELSE step[Max(s)][g[s \ {Max(s)}]]
  BY <1>3, <1>4 DEF FoldEquation
<1> QED
  BY <1>5 DEF S, SequenceFold

LEMMA AddIsCiphertext ==
  ASSUME NEW a \in Ciphertexts, NEW b \in Ciphertexts
  PROVE  AddCiphertexts(a, b) \in Ciphertexts
<1>1. a.R \in Int /\ a.S \in Int /\ b.R \in Int /\ b.S \in Int
  BY FieldIsSmall DEF Ciphertexts
<1>2. a.R + b.R \in Int /\ a.S + b.S \in Int
  BY <1>1
<1>3. ScalarMod(a.R + b.R) \in Field /\ ScalarMod(a.S + b.S) \in Field
  BY <1>2, ModOfInt
<1> QED
  BY <1>3 DEF AddCiphertexts, Cipher, Ciphertexts

\* What a rerandomization passes through, one contribution after the other.
LEMMA RerandomizationTurns ==
  ASSUME NEW c \in Ciphertexts, NEW zeros \in Seq(Ciphertexts)
  PROVE  \E g \in [0..Len(zeros) -> Ciphertexts] :
            /\ g[0] = c
            /\ \A k \in 1..Len(zeros) : g[k] = AddCiphertexts(g[k - 1], zeros[k])
            /\ Rerandomized(c, zeros) = g[Len(zeros)]
<1> DEFINE n == Len(zeros)
           Equation(g) == g = [s \in SUBSET DOMAIN zeros |->
              IF s = {} THEN c
              ELSE LET x == Max(s) IN AddCiphertexts(g[s \ {x}], zeros[x])]
           chosen == CHOOSE g : Equation(g)
           step == [x \in 1..n |-> [v \in Ciphertexts |-> AddCiphertexts(v, zeros[x])]]
           turns == [k \in 0..n |-> chosen[1..k]]
<1>1. n \in Nat /\ DOMAIN zeros = 1..n /\ \A x \in 1..n : zeros[x] \in Ciphertexts
  OBVIOUS
<1>2. \A x \in 1..n : step[x] \in [Ciphertexts -> Ciphertexts]
  BY <1>1, AddIsCiphertext
<1> HIDE DEF n
<1>3. PICK f \in [SUBSET (1..n) -> Ciphertexts] : SequenceFold(f, n, c, step)
  <2> HIDE DEF step
  <2> QED
    BY <1>1, <1>2, SequenceFoldExists
<1>4. Equation(f)
  <2>1. ASSUME NEW s \in SUBSET (1..n), s # {}
        PROVE  step[Max(s)][f[s \ {Max(s)}]] = AddCiphertexts(f[s \ {Max(s)}], zeros[Max(s)])
    <3>1. Max(s) \in 1..n /\ f[s \ {Max(s)}] \in Ciphertexts
      BY <1>1, <2>1, MaxExists
    <3> QED
      BY <3>1
  <2> HIDE DEF step
  <2> QED
    BY <1>1, <1>3, <2>1 DEF SequenceFold
<1>5. Equation(chosen)
  <2> HIDE DEF Equation
  <2> QED
    BY <1>4, Zenon
<1>6. Rerandomized(c, zeros) = chosen[1..n]
  <2>1. Rerandomized(c, zeros) = chosen[DOMAIN zeros]
    BY Zenon DEF Rerandomized, FoldLeft, MapThenFoldSet
  <2> QED
    BY <1>1, <2>1
<1>7. ASSUME NEW s \in SUBSET (1..n)
      PROVE  chosen[s] = IF s = {} THEN c
                         ELSE LET x == Max(s) IN AddCiphertexts(chosen[s \ {x}], zeros[x])
  <2> HIDE DEF chosen
  <2> QED
    BY <1>1, <1>5
<1> HIDE DEF chosen, Equation, step
<1>8. turns[0] = c
  <2>1. 0 \in 0..n /\ 1..0 = {} /\ {} \in SUBSET (1..n)
    BY <1>1
  <2> QED
    BY <1>7, <2>1
<1>9. ASSUME NEW k \in 1..n PROVE turns[k] = AddCiphertexts(turns[k - 1], zeros[k])
  <2>1. k \in 0..n /\ k - 1 \in 0..n
    BY <1>1
  <2> DEFINE s == 1..k
  <2>2. s # {} /\ Max(s) = k /\ s \ {k} = 1..(k - 1) /\ s \in SUBSET (1..n)
    BY <1>1, LastOfPrefix
  <2> HIDE DEF s
  <2>3. chosen[s] = AddCiphertexts(chosen[s \ {k}], zeros[k])
    BY <1>7, <2>2
  <2> QED
    BY <2>1, <2>2, <2>3 DEF s
<1>10. Rerandomized(c, zeros) = turns[n]
  BY <1>1, <1>6
<1> HIDE DEF turns
<1>11. \A k \in 0..n : turns[k] \in Ciphertexts
  <2> DEFINE T == {k \in Nat : k <= n => turns[k] \in Ciphertexts}
  <2>1. 0 \in T
    BY <1>8
  <2>2. ASSUME NEW k \in Nat, k \in T PROVE k + 1 \in T
    <3> SUFFICES ASSUME k + 1 <= n PROVE turns[k + 1] \in Ciphertexts
      OBVIOUS
    <3>1. k + 1 \in 1..n /\ (k + 1) - 1 = k /\ turns[k] \in Ciphertexts
      BY <1>1, <2>2
    <3> QED
      BY <1>1, <1>9, <3>1, AddIsCiphertext
  <2>3. Nat \subseteq T
    <3> HIDE DEF T
    <3> QED
      BY <2>1, <2>2, Induction
  <2> QED
    BY <1>1, <2>3
<1>12. turns = [k \in 0..n |-> turns[k]]
  BY DEF turns
<1>13. turns \in [0..n -> Ciphertexts]
  BY <1>11, <1>12
<1> QED
  BY <1>8, <1>9, <1>10, <1>13 DEF n

\* A plaintext is that of the parts.
LEMMA PlaintextOfSum ==
  ASSUME NEW a \in Ciphertexts, NEW b \in Ciphertexts
  PROVE  /\ Plaintext(a) \in Int /\ Plaintext(b) \in Int
         /\ Cong(Plaintext(AddCiphertexts(a, b)), Plaintext(a) + Plaintext(b))
<1> DEFINE aR == a.R
           aS == a.S
           bR == b.R
           bS == b.S
           c == CommitteeSecret
           x == aS - c * aR
           y == bS - c * bR
           r == aR + bR
           s == aS + bS
           e == -c
           R == ScalarMod(r)
           S == ScalarMod(s)
<1>1. aR \in Int /\ aS \in Int /\ bR \in Int /\ bS \in Int
  BY FieldIsSmall DEF Ciphertexts
<1>2. c \in Int
  BY CoefficientsAreScalars DEF CommitteeSecret
<1>3. /\ Plaintext(a) = ScalarMod(x) /\ Plaintext(b) = ScalarMod(y)
      /\ Plaintext(AddCiphertexts(a, b)) = ScalarMod(S - c * R)
  BY DEF Plaintext, AddCiphertexts, Cipher
<1> HIDE DEF aR, aS, bR, bS, c
<1>4. x \in Int /\ y \in Int /\ r \in Int /\ s \in Int /\ e \in Int /\ s + e * r = x + y
  <2> DEFINE u == c * aR
             v == c * bR
  <2>1. u \in Int /\ v \in Int /\ e \in Int /\ r \in Int /\ s \in Int
    BY <1>1, <1>2
  <2>2. e * r = -(u + v)
    BY <1>1, <1>2
  <2> HIDE DEF u, v
  <2>3. \A i, j, m, n \in Int : (i + j) + -(m + n) = (i - m) + (j - n) /\ i - m \in Int /\ j - n \in Int
    OBVIOUS
  <2>4. (aS + bS) + -(u + v) = (aS - u) + (bS - v) /\ aS - u \in Int /\ bS - v \in Int
    <3>1. aS \in Int /\ bS \in Int /\ u \in Int /\ v \in Int
      BY <1>1, <2>1
    <3> QED
      BY ONLY <2>3, <3>1
  <2> QED
    BY <2>1, <2>2, <2>4 DEF u, v
<1> HIDE DEF x, y, r, s
<1>5. R \in Int /\ S \in Int /\ Cong(R, r) /\ Cong(S, s)
  BY <1>4, ModOfInt, FieldIsSmall, CongMod
<1>6. S - c * R = S + e * R
  <2> HIDE DEF R, S
  <2> QED
    BY <1>2, <1>5
<1> HIDE DEF R, S, e
<1>7. Cong(e * R, e * r)
  BY <1>4, <1>5, CongRefl, CongTimes
<1> DEFINE eR == e * R
           er == e * r
<1>8. eR \in Int /\ er \in Int /\ Cong(eR, er)
  BY <1>4, <1>5, <1>7
<1> HIDE DEF eR, er
<1>9. Cong(S + eR, s + er) /\ S + eR \in Int
  BY <1>4, <1>5, <1>8, CongAdd
<1>10. Cong(ScalarMod(S + eR), S + eR)
  BY <1>9, CongMod
<1>11. /\ ScalarMod(x) \in Int /\ ScalarMod(y) \in Int
       /\ Cong(ScalarMod(x), x) /\ Cong(ScalarMod(y), y)
  BY <1>4, ModOfInt, FieldIsSmall, CongMod
<1> DEFINE px == ScalarMod(x)
           py == ScalarMod(y)
<1> HIDE DEF px, py
<1>12. px \in Int /\ py \in Int /\ Cong(px, x) /\ Cong(py, y)
  BY <1>11 DEF px, py
<1>13. Cong(px + py, x + y)
  BY <1>4, <1>12, CongAdd
<1>14. s + er = x + y
  BY <1>4 DEF er
<1>15. Cong(ScalarMod(S + eR), px + py)
  BY <1>9, <1>10, <1>13, <1>14, CongSym, CongTrans
<1> QED
  BY <1>3, <1>6, <1>11, <1>15 DEF px, py, eR

LEMMA PlaintextOfScaled ==
  ASSUME NEW a \in Ciphertexts, NEW k \in Int
  PROVE  /\ Plaintext(a) \in Int
         /\ ScaleCiphertext(a, k) \in Ciphertexts
         /\ Cong(Plaintext(ScaleCiphertext(a, k)), k * Plaintext(a))
<1> DEFINE aR == a.R
           aS == a.S
           c == CommitteeSecret
           x == aS - c * aR
           r == k * aR
           s == k * aS
           e == -c
           R == ScalarMod(r)
           S == ScalarMod(s)
           p == ScalarMod(x)
<1>1. aR \in Int /\ aS \in Int
  BY FieldIsSmall DEF Ciphertexts
<1>2. c \in Int
  BY CoefficientsAreScalars DEF CommitteeSecret
<1>3. /\ Plaintext(a) = p
      /\ ScaleCiphertext(a, k) = [R |-> R, S |-> S]
      /\ Plaintext(ScaleCiphertext(a, k)) = ScalarMod(S - c * R)
  BY DEF Plaintext, ScaleCiphertext, Cipher
<1> HIDE DEF aR, aS, c
<1>4. x \in Int /\ r \in Int /\ s \in Int /\ e \in Int /\ s + e * r = k * x
  <2> DEFINE u == c * aR
             v == k * u
             w == k * aS
  <2>1. u \in Int /\ e \in Int
    BY <1>1, <1>2
  <2>2. r \in Int /\ s \in Int /\ v \in Int /\ w \in Int
    <3> HIDE DEF u
    <3> QED
      BY <1>1, <2>1
  <2>3. e * r = -v
    BY <1>1, <1>2
  <2> HIDE DEF u
  <2>4. k * (aS - u) = w + -v /\ aS - u \in Int
    <3>1. \A i, j \in Int : k * (i - j) = k * i + -(k * j) /\ i - j \in Int
      OBVIOUS
    <3> QED
      BY <1>1, <2>1, <3>1
  <2> QED
    BY <2>1, <2>2, <2>3, <2>4 DEF u
<1> HIDE DEF x, r, s
<1>5. R \in Int /\ S \in Int /\ R \in Field /\ S \in Field /\ Cong(R, r) /\ Cong(S, s)
  BY <1>4, ModOfInt, FieldIsSmall, CongMod
<1>6. ScaleCiphertext(a, k) \in Ciphertexts
  BY <1>3, <1>5 DEF Ciphertexts
<1>7. p \in Int /\ Cong(p, x)
  BY <1>4, ModOfInt, FieldIsSmall, CongMod
<1>8. S - c * R = S + e * R
  <2> HIDE DEF R, S
  <2> QED
    BY <1>2, <1>5
<1> HIDE DEF R, S, e, p
<1>9. Cong(e * R, e * r) /\ Cong(k * p, k * x)
  BY <1>4, <1>5, <1>7, CongRefl, CongTimes
<1> DEFINE eR == e * R
           er == e * r
<1>10. eR \in Int /\ er \in Int /\ Cong(eR, er)
  BY <1>4, <1>5, <1>9
<1> HIDE DEF eR, er
<1>11. Cong(S + eR, s + er) /\ S + eR \in Int
  BY <1>4, <1>5, <1>10, CongAdd
<1>12. Cong(ScalarMod(S + eR), S + eR)
  BY <1>11, CongMod
<1>13. s + er = k * x
  BY <1>4 DEF er
<1>14. Cong(ScalarMod(S + eR), k * p)
  BY <1>9, <1>11, <1>12, <1>13, CongSym, CongTrans
<1> QED
  BY <1>3, <1>6, <1>7, <1>8, <1>14 DEF eR

LEMMA PublicPlaintext ==
  ASSUME NEW m \in Int
  PROVE  PublicValue(m) \in Ciphertexts /\ Cong(Plaintext(PublicValue(m)), m)
<1> DEFINE S == ScalarMod(m)
           c == CommitteeSecret
<1>1. S \in Int /\ S \in Field /\ Cong(S, m) /\ ScalarMod(0) = 0 /\ 0 \in Field
  BY ModOfInt, FieldIsSmall, CongMod, ZeroInField
<1>2. c \in Int
  BY CoefficientsAreScalars DEF CommitteeSecret
<1>3. PublicValue(m) = [R |-> 0, S |-> S]
  BY <1>1 DEF PublicValue, Cipher
<1>4. Plaintext(PublicValue(m)) = ScalarMod(S - c * 0)
  BY <1>3 DEF Plaintext
<1>5. PublicValue(m) \in Ciphertexts
  BY <1>1, <1>3 DEF Ciphertexts
<1> HIDE DEF S, c
<1>6. S - c * 0 = S
  BY <1>1, <1>2
<1>7. Cong(ScalarMod(S), S)
  BY <1>1, CongMod
<1> QED
  BY <1>1, <1>4, <1>5, <1>6, <1>7, CongTrans

LEMMA EncryptionDecrypts ==
  ASSUME NEW m \in Int, NEW r \in Int
  PROVE  EncryptScalar(m, r) \in Ciphertexts /\ Cong(Plaintext(EncryptScalar(m, r)), m)
<1> DEFINE c == CommitteeSecret
           s == m + c * r
           e == -c
           R == ScalarMod(r)
           S == ScalarMod(s)
<1>1. c \in Int
  BY CoefficientsAreScalars DEF CommitteeSecret
<1>2. EncryptScalar(m, r) = [R |-> R, S |-> S] /\ Plaintext(EncryptScalar(m, r)) = ScalarMod(S - c * R)
  BY DEF EncryptScalar, Plaintext, Cipher
<1> HIDE DEF c
<1>3. s \in Int /\ e \in Int /\ s + e * r = m
  BY <1>1
<1> HIDE DEF s
<1>4. R \in Int /\ S \in Int /\ R \in Field /\ S \in Field /\ Cong(R, r) /\ Cong(S, s)
  BY <1>3, ModOfInt, FieldIsSmall, CongMod
<1>5. EncryptScalar(m, r) \in Ciphertexts
  BY <1>2, <1>4 DEF Ciphertexts
<1>6. S - c * R = S + e * R
  <2> HIDE DEF R, S
  <2> QED
    BY <1>1, <1>4
<1> HIDE DEF R, S, e
<1>7. Cong(e * R, e * r)
  BY <1>3, <1>4, CongRefl, CongTimes
<1> DEFINE eR == e * R
           er == e * r
<1>8. eR \in Int /\ er \in Int /\ Cong(eR, er)
  BY <1>3, <1>4, <1>7
<1> HIDE DEF eR, er
<1>9. Cong(S + eR, s + er) /\ S + eR \in Int
  BY <1>3, <1>4, <1>8, CongAdd
<1>10. Cong(ScalarMod(S + eR), S + eR)
  BY <1>9, CongMod
<1>11. s + er = m
  BY <1>3 DEF er
<1>12. Cong(ScalarMod(S + eR), m)
  BY <1>9, <1>10, <1>11, CongTrans
<1> QED
  BY <1>2, <1>5, <1>6, <1>12 DEF eR

LEMMA PlaintextIsScalar == ASSUME NEW c \in Ciphertexts PROVE Plaintext(c) \in Field
<1> DEFINE x == c.S - CommitteeSecret * c.R
<1>1. c.S \in Int /\ c.R \in Int /\ CommitteeSecret \in Int
  <2>1. c.S \in Int /\ c.R \in Int
    BY FieldIsSmall DEF Ciphertexts
  <2>2. CommitteeSecret \in Int
    BY CoefficientsAreScalars DEF CommitteeSecret
  <2> QED
    BY <2>1, <2>2
<1>2. x \in Int
  BY <1>1
<1>3. Plaintext(c) = ScalarMod(x)
  BY DEF Plaintext
<1> HIDE DEF x
<1> QED
  BY <1>2, <1>3, ModOfInt

\* Rerandomization keeps the plaintext.
LEMMA RerandomizationKeepsPlaintext ==
  ASSUME NEW c \in Ciphertexts, NEW zeros \in Seq(Ciphertexts),
         \A t \in 1..Len(zeros) : EncryptsZero(zeros[t])
  PROVE  Rerandomized(c, zeros) \in Ciphertexts /\ Plaintext(Rerandomized(c, zeros)) = Plaintext(c)
<1> DEFINE n == Len(zeros)
           p == Plaintext(c)
<1>1. PICK g \in [0..n -> Ciphertexts] :
         /\ g[0] = c
         /\ \A k \in 1..n : g[k] = AddCiphertexts(g[k - 1], zeros[k])
         /\ Rerandomized(c, zeros) = g[n]
  BY RerandomizationTurns
<1>2. n \in Nat /\ \A t \in 1..n : zeros[t] \in Ciphertexts /\ EncryptsZero(zeros[t])
  OBVIOUS
<1> HIDE DEF n
<1> DEFINE T == {k \in Nat : k <= n => Plaintext(g[k]) = p}
<1>3. 0 \in T
  BY <1>1
<1>4. ASSUME NEW k \in Nat, k \in T PROVE k + 1 \in T
  <2> SUFFICES ASSUME k + 1 <= n PROVE Plaintext(g[k + 1]) = p
    OBVIOUS
  <2>1. k + 1 \in 1..n /\ (k + 1) - 1 = k /\ k \in 0..n
    BY <1>2
  <2> DEFINE a == g[k]
             z == zeros[k + 1]
  <2>2. a \in Ciphertexts /\ z \in Ciphertexts /\ g[k + 1] = AddCiphertexts(a, z) /\ Plaintext(z) = 0
        /\ Plaintext(a) = p
    BY <1>1, <1>2, <1>4, <2>1 DEF EncryptsZero
  <2> HIDE DEF a, z, p
  <2>3. Cong(Plaintext(AddCiphertexts(a, z)), p + 0) /\ p \in Int
    BY <2>2, PlaintextOfSum
  <2>4. p + 0 = p
    BY <2>3
  <2>5. AddCiphertexts(a, z) \in Ciphertexts
    BY <2>2, AddIsCiphertext
  <2>6. Plaintext(AddCiphertexts(a, z)) \in Field /\ p \in Field
    BY <2>2, <2>5, PlaintextIsScalar
  <2> QED
    BY <2>2, <2>3, <2>4, <2>6, CongEqual
<1>5. Nat \subseteq T
  <2> HIDE DEF T
  <2> QED
    BY <1>3, <1>4, Induction
<1>6. Plaintext(g[n]) = p /\ g[n] \in Ciphertexts
  BY <1>1, <1>2, <1>5
<1> QED
  BY <1>1, <1>6

LEMMA EncZeroEncryptsZero ==
  ASSUME NEW r \in Int PROVE EncZero(r) \in Ciphertexts /\ EncryptsZero(EncZero(r))
<1>1. 0 \in Int
  OBVIOUS
<1>2. EncZero(r) \in Ciphertexts /\ Cong(Plaintext(EncZero(r)), 0)
  BY <1>1, EncryptionDecrypts DEF EncZero
<1> QED
  BY <1>2, PlaintextIsScalar, ZeroInField, CongEqual DEF EncryptsZero

\* The order is odd, and 2 has an inverse.
LEMMA TwoHasInverse ==
  InverseTwo \in Int /\ Cong(2 * InverseTwo, 1) /\ ~Cong(2, 0)
<1> DEFINE q == SubgroupOrder
<1>1. q \in Nat /\ q > 2
  BY OrderIsLarge
<1>2. 2 \in Field \ {0}
  BY <1>1 DEF Field
<1>3. ~Cong(2, 0)
  BY <1>2, ZeroInField, FieldIsSmall DEF Cong
<1>4. PICK b \in Field : Cong(2 * b, 1)
  BY <1>3, InverseExists
<1> DEFINE d == 2 * b
<1>5. b \in Int /\ d \in Int /\ Cong(d, 1)
  BY <1>4, FieldIsSmall
<1>6. PICK k \in Int : d = 1 + k * q
  <2> HIDE DEF d
  <2>1. 1 \in Int
    OBVIOUS
  <2> QED
    BY <1>5, <2>1, CongDiffers
<1>7. q % 2 = 1
  <2> SUFFICES ASSUME q % 2 # 1 PROVE FALSE
    OBVIOUS
  <2> HIDE DEF q
  <2> DEFINE h == q \div 2
  <2>1. h \in Int /\ q = 2 * h
    BY <1>1
  <2> HIDE DEF h
  <2> DEFINE kh == k * h
  <2>2. kh \in Int /\ k * q = 2 * kh
    BY <1>6, <2>1
  <2> HIDE DEF kh
  <2>3. 2 * b = 1 + 2 * kh
    BY <1>6, <2>2
  <2> QED
    BY <1>5, <2>2, <2>3
<1>8. InverseTwo \in Int /\ 2 * InverseTwo = 1 + q
  <2> HIDE DEF q
  <2>1. InverseTwo = (q + 1) \div 2
    BY DEF InverseTwo, q
  <2> QED
    BY <1>1, <1>7, <2>1
<1>9. Cong(1 + q, 1)
  <2> DEFINE x == 1 + q
             one == 1
  <2>1. x \in Int /\ one \in Int /\ x = one + one * SubgroupOrder
    BY <1>1
  <2> HIDE DEF x, one
  <2>2. Cong(x, one)
    BY <2>1, MultiplesVanish
  <2> QED
    BY <2>2 DEF x, one
<1> QED
  BY <1>3, <1>8, <1>9

\* A verifier that adds up the contributions of a vector rerandomizes.
LEMMA VectorRerandomizes ==
  ASSUME NEW c, NEW n \in Nat, NEW vector, DOMAIN vector = 1..n
  PROVE  FoldLeft(LAMBDA d, e : AddCiphertexts(d, e.contribution), c, vector)
           = Rerandomized(c, [t \in 1..n |-> vector[t].contribution])
<1> DEFINE zeros == [t \in 1..n |-> vector[t].contribution]
           OfVector(g) == g = [s \in SUBSET DOMAIN vector |->
              IF s = {} THEN c
              ELSE LET x == Max(s) IN AddCiphertexts(g[s \ {x}], vector[x].contribution)]
           OfZeros(g) == g = [s \in SUBSET DOMAIN zeros |->
              IF s = {} THEN c
              ELSE LET x == Max(s) IN AddCiphertexts(g[s \ {x}], zeros[x])]
<1>1. DOMAIN zeros = 1..n /\ \A x \in 1..n : zeros[x] = vector[x].contribution
  OBVIOUS
<1> HIDE DEF zeros
<1>2. ASSUME NEW g PROVE OfVector(g) <=> OfZeros(g)
  <2>1. ASSUME NEW s \in SUBSET (1..n), s # {} PROVE zeros[Max(s)] = vector[Max(s)].contribution
    <3>1. Max(s) \in 1..n
      BY <2>1, MaxExists
    <3> QED
      BY <1>1, <3>1
  <2> QED
    BY <1>1, <2>1
<1> HIDE DEF OfVector, OfZeros
<1>3. (CHOOSE g : OfVector(g)) = (CHOOSE g : OfZeros(g))
  BY <1>2
<1>4. FoldLeft(LAMBDA d, e : AddCiphertexts(d, e.contribution), c, vector)
        = (CHOOSE g : OfVector(g))[DOMAIN vector]
  BY Zenon DEF FoldLeft, MapThenFoldSet, OfVector
<1>5. Rerandomized(c, zeros) = (CHOOSE g : OfZeros(g))[DOMAIN zeros]
  BY Zenon DEF Rerandomized, FoldLeft, MapThenFoldSet, OfZeros
<1> QED
  BY <1>1, <1>3, <1>4, <1>5 DEF zeros

LEMMA FunctionIsSequence ==
  ASSUME NEW n \in Nat, NEW S, NEW f \in [1..n -> S] PROVE f \in Seq(S) /\ Len(f) = n
<1>1. f = [i \in 1..n |-> f[i]] /\ \A i \in 1..n : f[i] \in S
  OBVIOUS
<1>2. [i \in 1..n |-> f[i]] \in Seq(S)
  BY <1>1
<1>3. f \in Seq(S) /\ DOMAIN f = 1..n
  BY <1>1, <1>2
<1> QED
  BY <1>3

\* A rerandomization that verifies keeps the plaintext, whoever contributed.
LEMMA RerandomizationIsRight ==
  ASSUME NEW r, NEW input \in Ciphertexts, NEW sessions, NEW S, r.vector \in Seq(S),
         \A e \in S : e.contribution \in Ciphertexts,
         RerandomizationVerifies(r, input, sessions)
  PROVE  r.output \in Ciphertexts /\ Plaintext(r.output) = Plaintext(input)
<1> DEFINE v == r.vector
           n == Len(v)
           z == [t \in 1..n |-> v[t].contribution]
<1>1. /\ n = Trustees /\ n \in Nat /\ DOMAIN v = 1..n /\ r.input = input
      /\ \A t \in TrusteeIds : EncryptsZero(v[t].contribution)
      /\ r.output = FoldLeft(LAMBDA c, e : AddCiphertexts(c, e.contribution), input, v)
  <2>1. n \in Nat /\ DOMAIN v = 1..n
    OBVIOUS
  <2>2. /\ n = Trustees /\ r.input = input
        /\ \A t \in TrusteeIds : EncryptsZero(v[t].contribution)
    BY DEF RerandomizationVerifies
  <2>3. r.output = FoldLeft(LAMBDA c, e : AddCiphertexts(c, e.contribution), r.input, v)
    BY Zenon DEF RerandomizationVerifies
  <2> QED
    BY <2>1, <2>2, <2>3
<1> HIDE DEF n
<1>2. \A t \in 1..n : v[t].contribution \in Ciphertexts /\ EncryptsZero(v[t].contribution)
  <2>1. \A t \in 1..n : v[t] \in S
    <3>1. v \in Seq(S) /\ n = Len(v)
      BY DEF n
    <3> HIDE DEF v
    <3> QED
      BY <3>1
  <2>2. 1..n = TrusteeIds
    BY <1>1 DEF TrusteeIds
  <2> QED
    BY <1>1, <2>1, <2>2
<1> HIDE DEF v
<1>3. r.output = Rerandomized(input, z)
  BY <1>1, VectorRerandomizes
<1>4. z \in Seq(Ciphertexts) /\ Len(z) = n /\ \A t \in 1..n : EncryptsZero(z[t])
  <2>1. z \in [1..n -> Ciphertexts]
    BY <1>2
  <2>2. z \in Seq(Ciphertexts) /\ Len(z) = n
    BY <1>1, <2>1, FunctionIsSequence
  <2> QED
    BY <1>2, <2>2
<1> HIDE DEF z
<1> QED
  BY <1>3, <1>4, RerandomizationKeepsPlaintext

-----------------------------------------------------------------------------
(* Shares in any order.                                                     *)

LEMMA FirstIds ==
  /\ 1..Threshold \in TrusteeQuorums /\ 1..Threshold \subseteq TrusteeIds
  /\ IsFiniteSet(1..Threshold)
<1>1. Threshold \in Nat /\ Threshold <= Trustees /\ Trustees \in Nat /\ Threshold >= 1
  <2>1. Threshold \in 2..Trustees /\ Trustees \in Nat
    BY SetupAssumption
  <2> HIDE DEF Threshold
  <2> QED
    BY <2>1
<1> HIDE DEF Threshold
<1>2. 1..Threshold \in SUBSET TrusteeIds
  BY <1>1 DEF TrusteeIds
<1>3. Cardinality(1..Threshold) = Threshold /\ IsFiniteSet(1..Threshold)
  <2>1. 1 \in Int /\ Threshold \in Int
    BY <1>1
  <2>2. /\ IsFiniteSet(1..Threshold)
        /\ Cardinality(1..Threshold) = IF 1 > Threshold THEN 0 ELSE Threshold - 1 + 1
    BY <2>1, FS_Interval
  <2> QED
    BY <1>1, <2>2
<1> QED
  BY <1>2, <1>3 DEF TrusteeQuorums

\* A sum does not depend on the order of its terms.
LEMMA SumOfPermuted ==
  ASSUME NEW S, IsFiniteSet(S), NEW w \in [S -> Int], NEW p \in [S -> S],
         \A i, j \in S : p[i] = p[j] => i = j
  PROVE  Cong(ModSum([i \in S |-> w[p[i]]], S), ModSum(w, {p[i] : i \in S}))
<1> DEFINE v == [i \in S |-> w[p[i]]]
           Image(s) == {p[i] : i \in s}
           T == {s \in SUBSET S : Cong(ModSum(v, s), ModSum(w, Image(s)))}
<1>1. v \in [S -> Int] /\ \A i \in S : v[i] = w[p[i]]
  OBVIOUS
<1> HIDE DEF v
<1>2. {} \in T
  <2>1. Image({}) = {}
    OBVIOUS
  <2>2. ModSum(v, {}) = 0 /\ ModSum(w, {}) = 0
    BY <1>1, SumSplits
  <2> QED
    BY <2>1, <2>2, CongRefl
<1>3. ASSUME NEW s \in SUBSET S, NEW x \in S, s \in T, x \notin s PROVE s \cup {x} \in T
  <2> DEFINE n == s \cup {x}
             a == ModSum(v, s)
             b == ModSum(w, Image(s))
  <2>1. n \in SUBSET S /\ x \in n /\ n \ {x} = s /\ IsFiniteSet(n) /\ IsFiniteSet(s)
    BY <1>3, FS_Subset
  <2>2. /\ Image(n) \in SUBSET S /\ Image(s) \in SUBSET S /\ p[x] \in Image(n)
        /\ Image(n) \ {p[x]} = Image(s)
    BY <1>3
  <2>3. IsFiniteSet(Image(n)) /\ IsFiniteSet(Image(s))
    BY <2>2, FS_Subset
  <2> HIDE DEF n, Image
  <2>4. a \in Int /\ b \in Int /\ v[x] \in Int /\ w[p[x]] = v[x]
    BY <1>1, <2>1, <2>2, <2>3, SumIsInt
  <2>5. Cong(ModSum(v, n), v[x] + a) /\ Cong(ModSum(w, Image(n)), v[x] + b)
    BY <1>1, <2>1, <2>2, <2>3, <2>4, SumTakes
  <2>6. Cong(a, b)
    BY <1>3
  <2> HIDE DEF a, b
  <2>7. Cong(v[x] + a, v[x] + b)
    BY <2>4, <2>6, CongRefl, CongAdd
  <2>8. Cong(ModSum(v, n), ModSum(w, Image(n)))
    BY <2>5, <2>7, CongSym, CongTrans
  <2> QED
    BY <2>1, <2>8 DEF n
<1> HIDE DEF T
<1>4. \A s \in SUBSET S : s \in T
  BY <1>2, <1>3, SubsetInduction
<1> QED
  BY <1>4 DEF T, v

LEMMA ShareIsScalar ==
  ASSUME NEW c \in Ciphertexts, NEW t \in Int
  PROVE  PartialDecryption(t, c) \in Field
<1> DEFINE s == SecretShare(t)
           k == c.R
<1>1. k \in Int
  BY FieldIsSmall DEF Ciphertexts
<1>2. s \in Int
  <2>1. After(t) \in [Steps -> Registers] /\ s = After(t)[Threshold].result
    BY EvaluationExists DEF SecretShare
  <2>2. Threshold \in Steps
    BY CoefficientsAreScalars DEF Steps
  <2> QED
    BY <2>1, <2>2, FieldIsSmall DEF Registers
<1>3. PartialDecryption(t, c) = ScalarMod(s * k)
  BY DEF PartialDecryption
<1> HIDE DEF s, k
<1>4. s * k \in Int
  BY <1>1, <1>2
<1> QED
  BY <1>3, <1>4, ModOfInt

\* A quorum opens a ciphertext whatever the order of its shares, each weighed as
\* its own trustee's.
LEMMA PermutedQuorumOpens ==
  ASSUME NEW c \in Ciphertexts, NEW ids \in TrusteeQuorums, NEW who,
         {who[i] : i \in ids} = ids
  PROVE  ScalarMod(c.S - ModSum([i \in ids |-> LagrangeCoefficientAtZero(ids, who[i])
                                                 * PartialDecryption(who[i], c)], ids))
           = Plaintext(c)
<1> DEFINE w == [t \in ids |-> LagrangeCoefficientAtZero(ids, t) * PartialDecryption(t, c)]
           p == [i \in ids |-> who[i]]
           v == [i \in ids |-> LagrangeCoefficientAtZero(ids, who[i]) * PartialDecryption(who[i], c)]
<1>1. IsFiniteSet(ids) /\ ids \subseteq TrusteeIds
  BY PointsAreApart DEF TrusteeQuorums
<1>2. w \in [ids -> Int]
  <2> SUFFICES ASSUME NEW t \in ids
               PROVE  LagrangeCoefficientAtZero(ids, t) * PartialDecryption(t, c) \in Int
    OBVIOUS
  <2>1. LagrangeCoefficientAtZero(ids, t) \in Int
    BY <1>1, CoefficientIsWeight
  <2>2. PartialDecryption(t, c) \in Int
    <3>1. t \in Int
      BY <1>1, PointsAreApart
    <3> QED
      BY <3>1, ShareIsScalar, FieldIsSmall
  <2> DEFINE a == LagrangeCoefficientAtZero(ids, t)
             b == PartialDecryption(t, c)
  <2> HIDE DEF a, b
  <2>3. a \in Int /\ b \in Int
    BY <2>1, <2>2 DEF a, b
  <2>4. a * b \in Int
    BY <2>3
  <2> QED
    BY <2>4 DEF a, b
<1>3. v = [i \in ids |-> w[p[i]]]
  OBVIOUS
<1>4. p \in [ids -> ids] /\ {p[i] : i \in ids} = ids
  OBVIOUS
<1>5. \A i, j \in ids : p[i] = p[j] => i = j
  <2>1. p \in Surjection(ids, ids)
    BY <1>4 DEF Surjection
  <2>2. p \in Injection(ids, ids)
    BY <1>1, <2>1, FS_SurjSameCardinalityImpliesInj
  <2> HIDE DEF p
  <2>3. \A i, j \in ids : p[i] = p[j] => i = j
    BY ONLY <2>2 DEF Injection, IsInjective
  <2> QED
    BY <2>3
<1>6. Combine(c, [t \in ids |-> PartialDecryption(t, c)], ids) = Plaintext(c)
  BY QuorumsDecrypt
<1>7. Combine(c, [t \in ids |-> PartialDecryption(t, c)], ids) = ScalarMod(c.S - ModSum(w, ids))
  <2>1. w = [t \in ids |-> LagrangeCoefficientAtZero(ids, t)
                             * [u \in ids |-> PartialDecryption(u, c)][t]]
    OBVIOUS
  <2> QED
    BY <2>1 DEF Combine
<1> HIDE DEF w, p, v
<1> DEFINE x == ModSum(v, ids)
           y == ModSum(w, ids)
<1>8. Cong(x, y) /\ x \in Int /\ y \in Int
  <2>1. Cong(ModSum([i \in ids |-> w[p[i]]], ids), ModSum(w, {p[i] : i \in ids}))
    BY ONLY <1>1, <1>2, <1>4, <1>5, SumOfPermuted
  <2>2. v \in [ids -> Int]
    BY <1>2, <1>3, <1>4
  <2> QED
    BY <1>1, <1>2, <1>3, <1>4, <2>1, <2>2, SumIsInt
<1> HIDE DEF x, y
<1> DEFINE m == c.S
           e == -1
<1>9. m \in Int /\ e \in Int /\ m - x = m + e * x /\ m - y = m + e * y
  <2>1. m \in Int
    BY FieldIsSmall DEF Ciphertexts
  <2> HIDE DEF m
  <2> QED
    BY <1>8, <2>1
<1> HIDE DEF m, e
<1> DEFINE ex == e * x
           ey == e * y
<1>10. ex \in Int /\ ey \in Int /\ Cong(ex, ey)
  <2>1. ex \in Int /\ ey \in Int
    BY <1>8, <1>9
  <2>2. Cong(e, e)
    BY CongRefl
  <2>3. Cong(e * x, e * y)
    BY ONLY <1>8, <1>9, <2>2, CongTimes
  <2> QED
    BY <2>1, <2>3
<1> HIDE DEF ex, ey
<1>11. Cong(m + ex, m + ey)
  BY <1>9, <1>10, CongRefl, CongAdd
<1> QED
  BY <1>6, <1>7, <1>9, <1>11 DEF Cong, ex, ey, x, y, v, m
=============================================================================

----------------------- MODULE TallyTranscript_proofs -----------------------
(***************************************************************************)
(* The tally, from the circuits up: what the adder and the comparison      *)
(* compute; how the workers number their gates; that the tally decides the *)
(* weighted vote; and that the public replay of its journal is sound and   *)
(* complete.  For any number of voters that is a power of two, any width   *)
(* of their vectors, any odd subgroup order and any order the workers run  *)
(* in.  Every part states its argument where it begins.                    *)
(***************************************************************************)
EXTENDS TallyTranscript, Foundations, TLAPS

-----------------------------------------------------------------------------
(***************************************************************************)
(* What the circuits compute, for every width and every odd subgroup       *)
(* order: fed with the products their gate calls ask for, the adder's      *)
(* output is the sum, the comparison's borrow tells whether the left       *)
(* number is the smaller one, and every selector on the way is a bit.      *)
(***************************************************************************)

-----------------------------------------------------------------------------
(* Numbers and their bits.                                                  *)

\* v[b] is the number that the bits from b on stand for.
IsValue(v, bits, width) ==
  /\ v \in [1..(width + 1) -> Nat]
  /\ v[width + 1] = 0
  /\ \A b \in 1..width : v[b] = bits[b] + 2 * v[b + 1]

\* ValueOf is the first of them.
LEMMA ValueOfBits ==
  ASSUME NEW width \in Nat, NEW bits \in [1..width -> Bits]
  PROVE  \E v : IsValue(v, bits, width) /\ ValueOf(bits) = v[1]
<1> DEFINE Equation(v) ==
      v = [b \in 1..(width + 1) |-> IF b = width + 1 THEN 0 ELSE bits[b] + 2 * v[b + 1]]
    chosen == CHOOSE v : Equation(v)
<1>1. Len(bits) = width
  OBVIOUS
<1>2. \E v : Equation(v)
  <2> DEFINE step == [b \in 1..(width + 1) |-> [x \in Nat |-> IF b \in 1..width THEN bits[b] + 2 * x ELSE 0]]
  <2>1. step \in [1..(width + 1) -> [Nat -> Nat]]
    BY DEF Bits
  <2>2. SolvableDown(width + 1, Nat, 0, step)
    <3> HIDE DEF step
    <3>1. width + 1 \in Nat /\ 0 \in Nat
      OBVIOUS
    <3> QED
      BY <2>1, <3>1, RecursionDown
  <2>3. PICK v \in [1..(width + 1) -> Nat] :
          \A b \in 1..(width + 1) : v[b] = IF b = width + 1 THEN 0 ELSE step[b][v[b + 1]]
    BY <2>2, Zenon DEF SolvableDown
  <2>4. ASSUME NEW b \in 1..(width + 1), b # width + 1
        PROVE  v[b] = bits[b] + 2 * v[b + 1]
    <3>1. b \in 1..width /\ v[b + 1] \in Nat
      BY <2>4
    <3>2. step[b][v[b + 1]] = bits[b] + 2 * v[b + 1]
      BY <3>1
    <3> QED
      BY <2>3, <2>4, <3>2
  <2>5. v[width + 1] = 0
    <3> HIDE DEF step
    <3>1. width + 1 \in 1..(width + 1)
      OBVIOUS
    <3> QED
      BY <2>3, <3>1
  <2> QED
    BY <2>4, <2>5
<1>3. Equation(chosen)
  <2> HIDE DEF Equation
  <2> QED
    BY <1>2, Zenon
<1>4. ValueOf(bits) = chosen[1]
  BY <1>1, Zenon DEF ValueOf
<1> HIDE DEF chosen
<1>5. chosen[width + 1] = 0 /\ DOMAIN chosen = 1..(width + 1)
  BY <1>3
<1>6. \A b \in 1..width : chosen[b] = bits[b] + 2 * chosen[b + 1]
  BY <1>3
<1>7. \A b \in 1..(width + 1) : chosen[b] \in Nat
  <2> DEFINE T == {b \in 1..(width + 1) : chosen[b] \in Nat}
  <2>1. width + 1 \in T
    BY <1>5
  <2>2. \A b \in 1..(width + 1) : b \in T /\ b > 1 => b - 1 \in T
    <3> SUFFICES ASSUME NEW b \in 1..(width + 1), b \in T, b > 1 PROVE chosen[b - 1] \in Nat
      OBVIOUS
    <3>1. b - 1 \in 1..width /\ (b - 1) + 1 = b /\ bits[b - 1] \in Bits
      OBVIOUS
    <3> QED
      BY <1>6, <3>1 DEF Bits
  <2>3. 1..(width + 1) \subseteq T
    <3> HIDE DEF T
    <3> QED
      BY <2>1, <2>2, InductionDown
  <2> QED
    BY <2>3
<1> QED
  <2>1. chosen = [b \in 1..(width + 1) |-> chosen[b]]
    BY <1>3
  <2>2. chosen \in [1..(width + 1) -> Nat]
    BY <1>7, <2>1
  <2> QED
    BY <1>4, <1>5, <1>6, <2>2 DEF IsValue

\* There is only one such value.
LEMMA ValuesAgree ==
  ASSUME NEW width \in Nat, NEW bits, NEW v, NEW u,
         IsValue(v, bits, width), IsValue(u, bits, width)
  PROVE  \A b \in 1..(width + 1) : v[b] = u[b]
<1> DEFINE T == {b \in 1..(width + 1) : v[b] = u[b]}
<1>1. width + 1 \in T
  BY DEF IsValue
<1>2. \A b \in 1..(width + 1) : b \in T /\ b > 1 => b - 1 \in T
  <2> SUFFICES ASSUME NEW b \in 1..(width + 1), b \in T, b > 1 PROVE v[b - 1] = u[b - 1]
    OBVIOUS
  <2>1. b - 1 \in 1..width /\ (b - 1) + 1 = b
    OBVIOUS
  <2>2. v[b - 1] = bits[b - 1] + 2 * v[b] /\ u[b - 1] = bits[b - 1] + 2 * u[b]
    BY <2>1 DEF IsValue
  <2> QED
    BY <2>2
<1>3. 1..(width + 1) \subseteq T
  <2> HIDE DEF T
  <2> QED
    BY <1>1, <1>2, InductionDown
<1> QED
  BY <1>3

\* The value of bits is any function that satisfies the equations.
LEMMA ValueIs ==
  ASSUME NEW width \in Nat, NEW bits \in [1..width -> Bits], NEW v, IsValue(v, bits, width)
  PROVE  ValueOf(bits) = v[1] /\ ValueOf(bits) \in Nat
<1>1. PICK u : IsValue(u, bits, width) /\ ValueOf(bits) = u[1]
  BY ValueOfBits
<1>2. u[1] = v[1] /\ u[1] \in Nat
  <2>1. 1 \in 1..(width + 1)
    OBVIOUS
  <2> QED
    <3>1. \A b \in 1..(width + 1) : v[b] = u[b]
      BY <1>1, ValuesAgree
    <3>2. u[1] \in Nat
      BY <1>1, <2>1 DEF IsValue
    <3> QED
      BY <2>1, <3>1, <3>2
<1> QED
  BY <1>1, <1>2

\* A vector of ones, with one more of them.
LEMMA OneMoreOne ==
  ASSUME NEW width \in Nat
  PROVE  /\ ValueOf([b \in 1..width |-> 1]) \in Nat
         /\ ValueOf([b \in 1..(width + 1) |-> 1]) = 1 + 2 * ValueOf([b \in 1..width |-> 1])
<1> DEFINE few == [b \in 1..width |-> 1]
           more == [b \in 1..(width + 1) |-> 1]
<1>1. few \in [1..width -> Bits] /\ more \in [1..(width + 1) -> Bits]
  BY DEF Bits
<1>2. PICK v : IsValue(v, few, width) /\ ValueOf(few) = v[1]
  BY <1>1, ValueOfBits
<1> DEFINE u == [b \in 1..((width + 1) + 1) |-> IF b = 1 THEN 1 + 2 * v[1] ELSE v[b - 1]]
<1>3. IsValue(u, more, width + 1)
  <2>1. v \in [1..(width + 1) -> Nat] /\ v[1] \in Nat /\ v[width + 1] = 0
    BY <1>2 DEF IsValue
  <2>2. u \in [1..((width + 1) + 1) -> Nat]
    BY <2>1
  <2>3. u[(width + 1) + 1] = 0
    BY <2>1
  <2>4. ASSUME NEW b \in 1..(width + 1) PROVE u[b] = more[b] + 2 * u[b + 1]
    <3>1. u[b + 1] = v[b]
      OBVIOUS
    <3>2. CASE b = 1
      BY <3>1, <3>2
    <3>3. CASE b # 1
      <4>1. b - 1 \in 1..width /\ (b - 1) + 1 = b
        BY <3>3
      <4>2. v[b - 1] = few[b - 1] + 2 * v[b]
        BY <1>2, <4>1 DEF IsValue
      <4> QED
        BY <3>1, <3>3, <4>1, <4>2
    <3> QED
      BY <3>2, <3>3
  <2> HIDE DEF u, more, few
  <2> QED
    BY <2>2, <2>3, <2>4 DEF IsValue
<1>4. ValueOf(more) = u[1] /\ ValueOf(few) = v[1] /\ v[1] \in Nat
  <2>1. ValueOf(more) = u[1]
    <3> HIDE DEF u, more, few
    <3> QED
      BY <1>1, <1>3, ValueIs
  <2>2. v[1] \in Nat
    BY <1>2 DEF IsValue
  <2> QED
    BY <1>2, <2>1, <2>2
<1> HIDE DEF more, few
<1>5. u[1] = 1 + 2 * v[1]
  OBVIOUS
<1> HIDE DEF u
<1>6. ValueOf(few) \in Nat /\ ValueOf(more) = 1 + 2 * ValueOf(few)
  BY <1>4, <1>5
<1> QED
  BY <1>6 DEF more, few

-----------------------------------------------------------------------------
(* The bits of a public number.                                             *)

LEMMA ShiftedBits ==
  ASSUME NEW n \in Nat, NEW width \in Nat
  PROVE  /\ Shifted(n, width) \in [1..width -> Nat]
         /\ \A b \in 1..width :
              Shifted(n, width)[b] = IF b = 1 THEN n ELSE Shifted(n, width)[b - 1] \div 2
<1> DEFINE Equation(f) == f = [b \in 1..width |-> IF b = 1 THEN n ELSE f[b - 1] \div 2]
    chosen == CHOOSE f : Equation(f)
<1>1. \E f : Equation(f)
  <2> DEFINE step == [b \in 1..width |-> [x \in Nat |-> x \div 2]]
  <2>1. step \in [1..width -> [Nat -> Nat]]
    OBVIOUS
  <2>2. SolvableUp(1, width, Nat, n, step)
    <3> HIDE DEF step
    <3>1. 1 \in Int /\ width \in Int /\ n \in Nat
      OBVIOUS
    <3> QED
      BY <2>1, <3>1, RecursionUp
  <2>3. PICK f \in [1..width -> Nat] :
          \A b \in 1..width : f[b] = IF b = 1 THEN n ELSE step[b][f[b - 1]]
    BY <2>2, Zenon DEF SolvableUp
  <2>4. ASSUME NEW b \in 1..width, b # 1 PROVE step[b][f[b - 1]] = f[b - 1] \div 2
    <3>1. b - 1 \in 1..width
      BY <2>4
    <3> QED
      BY <3>1
  <2> HIDE DEF step
  <2>5. \A b \in 1..width : f[b] = IF b = 1 THEN n ELSE f[b - 1] \div 2
    BY <2>3, <2>4
  <2>6. Equation(f)
    BY <2>5
  <2> QED
    BY <2>6
<1>2. Equation(chosen)
  <2> HIDE DEF Equation
  <2> QED
    BY <1>1, Zenon
<1>3. Shifted(n, width) = chosen
  BY Zenon DEF Shifted
<1> HIDE DEF chosen
<1>4. \A b \in 1..width : chosen[b] = IF b = 1 THEN n ELSE chosen[b - 1] \div 2
  BY <1>2
<1>5. \A b \in 1..width : chosen[b] \in Nat
  <2> DEFINE T == {b \in 1..width : chosen[b] \in Nat}
  <2>1. width > 0 => 1 \in T
    BY <1>4
  <2>2. \A b \in 1..width : b \in T /\ b < width => b + 1 \in T
    <3> SUFFICES ASSUME NEW b \in 1..width, b \in T, b < width PROVE chosen[b + 1] \in Nat
      OBVIOUS
    <3>1. b + 1 \in 1..width /\ b + 1 # 1 /\ (b + 1) - 1 = b
      OBVIOUS
    <3> QED
      BY <1>4, <3>1
  <2>3. 1..width \subseteq T
    <3> HIDE DEF T
    <3> QED
      BY <2>1, <2>2, InductionUp
  <2> QED
    BY <2>3
<1>6. chosen = [b \in 1..width |-> chosen[b]]
  BY <1>2
<1>7. chosen \in [1..width -> Nat]
  BY <1>5, <1>6
<1> QED
  BY <1>3, <1>4, <1>7

\* The first bits of a number that fits are the number.
LEMMA PublicBitsValue ==
  ASSUME NEW n \in Nat, NEW width \in Nat \ {0},
         n <= ValueOf([b \in 1..width |-> 1])
  PROVE  /\ PublicBits(n, width) \in [1..width -> Bits]
         /\ ValueOf(PublicBits(n, width)) = n
<1> DEFINE ones == [b \in 1..width |-> 1]
           bits == PublicBits(n, width)
           s == Shifted(n, width)
           v == [b \in 1..(width + 1) |-> IF b = width + 1 THEN 0 ELSE s[b]]
<1>1. /\ s \in [1..width -> Nat]
      /\ \A b \in 1..width : s[b] = IF b = 1 THEN n ELSE s[b - 1] \div 2
  <2> HIDE DEF ones, bits, v
  <2> QED
    BY ShiftedBits
<1>2. bits = [b \in 1..width |-> s[b] % 2]
  BY DEF PublicBits
<1> HIDE DEF s, bits
<1>3. bits \in [1..width -> Bits]
  <2>1. ASSUME NEW b \in 1..width PROVE s[b] % 2 \in Bits
    <3>1. s[b] \in Nat
      BY <1>1
    <3> QED
      BY <3>1 DEF Bits
  <2> QED
    BY <1>2, <2>1
<1>4. PICK u : IsValue(u, ones, width) /\ ValueOf(ones) = u[1]
  <2>1. ones \in [1..width -> Bits]
    BY DEF Bits
  <2> HIDE DEF ones
  <2> QED
    BY <2>1, ValueOfBits
<1>5. \A b \in 1..width : u[b] \in Nat /\ u[b + 1] \in Nat /\ u[b] = 1 + 2 * u[b + 1]
  <2> SUFFICES ASSUME NEW b \in 1..width
               PROVE  u[b] \in Nat /\ u[b + 1] \in Nat /\ u[b] = 1 + 2 * u[b + 1]
    OBVIOUS
  <2>1. b \in 1..(width + 1) /\ b + 1 \in 1..(width + 1)
    OBVIOUS
  <2> QED
    BY <1>4, <2>1 DEF IsValue
<1>6. \A b \in 1..width : s[b] <= u[b]
  <2> DEFINE T == {b \in 1..width : s[b] <= u[b]}
  <2>1. width > 0 => 1 \in T
    BY <1>1, <1>4
  <2>2. \A b \in 1..width : b \in T /\ b < width => b + 1 \in T
    <3> SUFFICES ASSUME NEW b \in 1..width, b \in T, b < width PROVE s[b + 1] <= u[b + 1]
      OBVIOUS
    <3>1. b + 1 \in 1..width /\ b + 1 # 1 /\ (b + 1) - 1 = b
      OBVIOUS
    <3>2. s[b + 1] = s[b] \div 2 /\ s[b] \in Nat
      BY <1>1, <3>1
    <3>3. u[b] \in Nat /\ u[b + 1] \in Nat /\ u[b] = 1 + 2 * u[b + 1] /\ s[b] <= u[b]
      BY <1>5
    <3> QED
      BY <3>2, <3>3
  <2>3. 1..width \subseteq T
    <3> HIDE DEF T
    <3> QED
      BY <2>1, <2>2, InductionUp
  <2> QED
    BY <2>3
<1>7. IsValue(v, bits, width)
  <2>1. v \in [1..(width + 1) -> Nat]
    <3>1. \A b \in 1..(width + 1) : b # width + 1 => s[b] \in Nat
      <4> SUFFICES ASSUME NEW b \in 1..(width + 1), b # width + 1 PROVE s[b] \in Nat
        OBVIOUS
      <4>1. b \in 1..width
        OBVIOUS
      <4> QED
        BY <1>1, <4>1
    <3> QED
      BY <3>1
  <2>2. v[width + 1] = 0
    OBVIOUS
  <2>3. ASSUME NEW b \in 1..width PROVE v[b] = bits[b] + 2 * v[b + 1]
    <3>1. v[b] = s[b] /\ bits[b] = s[b] % 2 /\ s[b] \in Nat
      BY <1>1, <1>2
    <3>2. v[b + 1] = s[b] \div 2
      <4>1. CASE b = width
        <5>1. u[width + 1] = 0 /\ s[b] <= 1 + 2 * u[b + 1]
          BY <1>4, <1>5, <1>6 DEF IsValue
        <5> QED
          BY <3>1, <4>1, <5>1
      <4>2. CASE b # width
        <5>1. b + 1 \in 1..width /\ b + 1 # 1 /\ (b + 1) - 1 = b
          BY <4>2
        <5>2. s[b + 1] = s[b] \div 2
          BY <1>1, <5>1
        <5> QED
          BY <5>1, <5>2
      <4> QED
        BY <4>1, <4>2
    <3> QED
      BY <3>1, <3>2
  <2> HIDE DEF v
  <2> QED
    BY <2>1, <2>2, <2>3 DEF IsValue
<1>8. v[1] = n
  BY <1>1
<1>9. ValueOf(bits) = n
  <2> HIDE DEF v
  <2> QED
    BY <1>3, <1>7, <1>8, ValueIs
<1> QED
  BY <1>3, <1>9 DEF bits

-----------------------------------------------------------------------------
(* Arithmetic modulo the subgroup order, on bits.                           *)

And(x, y) == IF x = 1 /\ y = 1 THEN 1 ELSE 0
Xor(x, y) == IF x = y THEN 0 ELSE 1
Majority(x, y, z) == IF x + y + z >= 2 THEN 1 ELSE 0
Borrowed(x, y, z) == IF x < y + z THEN 1 ELSE 0

LEMMA SmallModulo ==
  /\ 0 % SubgroupOrder = 0 /\ 1 % SubgroupOrder = 1
  /\ (SubgroupOrder + 1) % SubgroupOrder = 1
<1>1. \A p \in Nat : p > 2 => 0 % p = 0 /\ 1 % p = 1 /\ (p + 1) % p = 1
  OBVIOUS
<1> QED
  BY <1>1, OddOrder

LEMMA HalfOfTwo == InverseTwo \in Nat /\ InverseTwo * 2 = SubgroupOrder + 1
  BY OddOrder DEF InverseTwo

LEMMA IntegerModulo == \A x \in Int : x % SubgroupOrder \in Int
  BY OddOrder

\* What gates and wires make of integers, and of bits.
LEMMA WiresAreIntegers ==
  ASSUME NEW x \in Int, NEW y \in Int, NEW z \in Int
  PROVE  XorWithProduct(x, y, z) \in Int /\ AffineSubtract(x, y) \in Int
  BY IntegerModulo DEF XorWithProduct, AffineSubtract

LEMMA BitWires ==
  ASSUME NEW x \in Bits, NEW y \in Bits
  PROVE  /\ And(x, y) \in Bits /\ Xor(x, y) \in Bits
         /\ GateOutput(x, y) = And(x, y)
         /\ XorWithProduct(x, y, And(x, y)) = Xor(x, y)
<1>1. x * y = And(x, y) /\ x + y - 2 * And(x, y) = Xor(x, y)
  BY DEF Bits, And, Xor
<1>2. And(x, y) \in Bits /\ Xor(x, y) \in Bits
  BY DEF Bits, And, Xor
<1>3. \A z \in Bits : z % SubgroupOrder = z
  BY SmallModulo DEF Bits
<1>4. GateOutput(x, y) = And(x, y)
  BY <1>1, <1>2, <1>3 DEF GateOutput
<1>5. XorWithProduct(x, y, And(x, y)) = Xor(x, y)
  BY <1>1, <1>2, <1>3 DEF XorWithProduct
<1> QED
  BY <1>2, <1>4, <1>5

LEMMA CarryWire ==
  ASSUME NEW x \in Bits, NEW y \in Bits, NEW z \in Bits
  PROVE  /\ (InverseTwo * (x + y + z - Xor(Xor(x, y), z))) % SubgroupOrder = Majority(x, y, z)
         /\ Majority(x, y, z) \in Bits
<1>1. x + y + z - Xor(Xor(x, y), z) = IF Majority(x, y, z) = 1 THEN 2 ELSE 0
  BY DEF Bits, Xor, Majority
<1>2. Majority(x, y, z) \in Bits
  BY DEF Bits, Majority
<1>3. InverseTwo * 0 = 0 /\ (InverseTwo * 2) % SubgroupOrder = 1
  BY HalfOfTwo, SmallModulo
<1> QED
  BY <1>1, <1>2, <1>3, SmallModulo DEF Bits

LEMMA SmallDifference ==
  ASSUME NEW x \in Int, NEW y \in Int, x - y \in Bits
  PROVE  AffineSubtract(x, y) = x - y
<1> DEFINE d == x - y
<1>1. d \in Bits /\ AffineSubtract(x, y) = d % SubgroupOrder
  BY DEF AffineSubtract
<1> HIDE DEF d
<1>2. d % SubgroupOrder = d
  BY <1>1, SmallModulo DEF Bits
<1> QED
  BY <1>1, <1>2 DEF d

LEMMA BorrowWire ==
  ASSUME NEW x \in Bits, NEW y \in Bits, NEW z \in Bits
  PROVE  /\ AffineSubtract(AffineSubtract(y + z, And(y, z)), And(x, Xor(y, z))) = Borrowed(x, y, z)
         /\ AffineSubtract(y, And(x, y)) = Borrowed(x, y, 0)
         /\ Borrowed(x, y, z) \in Bits
<1> DEFINE v == y + z - And(y, z)
<1>1. /\ v \in Bits /\ y + z \in Int /\ And(y, z) \in Int /\ And(x, Xor(y, z)) \in Int
      /\ And(x, y) \in Int /\ y \in Int
      /\ v - And(x, Xor(y, z)) = Borrowed(x, y, z)
      /\ y - And(x, y) = Borrowed(x, y, 0)
      /\ Borrowed(x, y, z) \in Bits /\ Borrowed(x, y, 0) \in Bits
  BY DEF Bits, And, Xor, Borrowed
<1>2. AffineSubtract(y + z, And(y, z)) = v
  BY <1>1, SmallDifference
<1> HIDE DEF v
<1>3. AffineSubtract(v, And(x, Xor(y, z))) = Borrowed(x, y, z)
  <2>1. v \in Int
    BY <1>1 DEF Bits
  <2> QED
    BY <1>1, <2>1, SmallDifference
<1>4. AffineSubtract(y, And(x, y)) = Borrowed(x, y, 0)
  BY <1>1, SmallDifference
<1> QED
  BY <1>1, <1>2, <1>3, <1>4

-----------------------------------------------------------------------------
(* The adder.                                                               *)

\* c[b] is the carry out of bit b of a sum.
IsCarry(c, left, right, width) ==
  /\ c \in [0..width -> Bits]
  /\ c[0] = 0
  /\ \A b \in 1..width : c[b] = Majority(left[b], right[b], c[b - 1])

\* What the k-th gate of the adder then answers.
SumAnswer(c, left, right, k) ==
  LET b == k \div 2 + 1 IN
  IF k = 1 THEN And(left[1], right[1])
  ELSE IF k % 2 = 0 THEN And(left[b], right[b])
  ELSE And(Xor(left[b], right[b]), c[b - 1])

LEMMA CarriesExist ==
  ASSUME NEW width \in Nat, NEW left \in [1..width -> Bits], NEW right \in [1..width -> Bits]
  PROVE  \E c : IsCarry(c, left, right, width)
<1> DEFINE step == [b \in 0..width |-> [z \in Bits |->
                      IF b \in 1..width THEN Majority(left[b], right[b], z) ELSE 0]]
<1>1. step \in [0..width -> [Bits -> Bits]]
  <2>1. ASSUME NEW b \in 0..width, NEW z \in Bits
        PROVE  (IF b \in 1..width THEN Majority(left[b], right[b], z) ELSE 0) \in Bits
    BY CarryWire DEF Bits
  <2> QED
    BY <2>1
<1>2. SolvableUp(0, width, Bits, 0, step)
  <2> HIDE DEF step
  <2>1. 0 \in Int /\ width \in Int /\ 0 \in Bits
    BY DEF Bits
  <2> QED
    BY <1>1, <2>1, RecursionUp
<1>3. PICK c \in [0..width -> Bits] :
        \A b \in 0..width : c[b] = IF b = 0 THEN 0 ELSE step[b][c[b - 1]]
  BY <1>2, Zenon DEF SolvableUp
<1>4. ASSUME NEW b \in 1..width PROVE c[b] = Majority(left[b], right[b], c[b - 1])
  <2>1. b \in 0..width /\ b # 0 /\ b - 1 \in 0..width
    OBVIOUS
  <2>2. c[b - 1] \in Bits
    BY <2>1
  <2>3. step[b][c[b - 1]] = Majority(left[b], right[b], c[b - 1])
    BY <2>1, <2>2
  <2> QED
    BY <1>3, <2>1, <2>3
<1>5. c[0] = 0
  <2> HIDE DEF step
  <2>1. 0 \in 0..width
    OBVIOUS
  <2> QED
    BY <1>3, <2>1
<1> QED
  BY <1>4, <1>5 DEF IsCarry

\* The sum bit b of the adder, given its carry in.
SumWire(left, right, outs, b, carry) ==
  XorWithProduct(XorWithProduct(left[b], right[b], Answer(outs, 2 * b - 2)),
                 carry, Answer(outs, 2 * b - 1))

\* carry[b] is what the adder computes for its carry out of bit b.
IsCarryWire(carry, left, right, outs, width) ==
  \A b \in 1..width :
    carry[b] = IF b = 1 THEN Answer(outs, 1)
               ELSE (InverseTwo * (left[b] + right[b] + carry[b - 1]
                                   - SumWire(left, right, outs, b, carry[b - 1]))) % SubgroupOrder

\* The adder's circuit, given its carries.
AdderWithCarry(left, right, outs, carry) ==
  LET width == Len(left)
      call(k) ==
        LET b == k \div 2 + 1 IN
        IF k = 1 THEN Gate(1, "CARRY", left[1], right[1])
        ELSE IF k % 2 = 0 THEN Gate(b, "PAIR_PRODUCT", left[b], right[b])
        ELSE Gate(b, "CARRY_PRODUCT",
                  XorWithProduct(left[b], right[b], Answer(outs, 2 * b - 2)), carry[b - 1])
  IN [calls  |-> [k \in 1..GateCount(width) |-> call(k)],
      output |-> [b \in 1..(width + 1) |->
                    IF b = 1 THEN XorWithProduct(left[1], right[1], Answer(outs, 1))
                    ELSE IF b <= width THEN SumWire(left, right, outs, b, carry[b - 1])
                    ELSE carry[width]]]

LEMMA AnswersAreIntegers ==
  ASSUME NEW outs \in Seq(Int)
  PROVE  \A k \in Int : Answer(outs, k) \in Int
  BY DEF Answer

LEMMA AdderHasCarries ==
  ASSUME NEW width \in Nat, NEW left \in [1..width -> Bits], NEW right \in [1..width -> Bits],
         NEW outs \in Seq(Int)
  PROVE  \E carry : /\ IsCarryWire(carry, left, right, outs, width)
                    /\ AddBits(left, right, outs) = AdderWithCarry(left, right, outs, carry)
<1> DEFINE Out(b, in) == (InverseTwo * (left[b] + right[b] + in - SumWire(left, right, outs, b, in)))
                         % SubgroupOrder
    Equation(f) == f = [b \in 1..Len(left) |-> IF b = 1 THEN Answer(outs, 1) ELSE Out(b, f[b - 1])]
    chosen == CHOOSE f : Equation(f)
<1>1. ASSUME NEW b \in 1..width, NEW in \in Int PROVE Out(b, in) \in Int
  <2>1. left[b] \in Int /\ right[b] \in Int
    BY DEF Bits
  <2>2. SumWire(left, right, outs, b, in) \in Int
    <3>1. Answer(outs, 2 * b - 2) \in Int /\ Answer(outs, 2 * b - 1) \in Int
      BY AnswersAreIntegers
    <3>2. XorWithProduct(left[b], right[b], Answer(outs, 2 * b - 2)) \in Int
      BY <2>1, <3>1, WiresAreIntegers
    <3> QED
      BY <3>1, <3>2, WiresAreIntegers DEF SumWire
  <2>3. InverseTwo * (left[b] + right[b] + in - SumWire(left, right, outs, b, in)) \in Int
    BY <2>1, <2>2, HalfOfTwo
  <2> QED
    BY <2>3, IntegerModulo
<1>2. \E f : Equation(f)
  <2> DEFINE step == [b \in 1..width |-> [x \in Int |-> Out(b, x)]]
  <2>1. step \in [1..width -> [Int -> Int]]
    <3> HIDE DEF Out
    <3> QED
      BY <1>1
  <2>2. SolvableUp(1, width, Int, Answer(outs, 1), step)
    <3> HIDE DEF step
    <3>1. 1 \in Int /\ width \in Int /\ Answer(outs, 1) \in Int
      BY AnswersAreIntegers
    <3> QED
      BY <2>1, <3>1, RecursionUp
  <2>3. PICK f \in [1..width -> Int] :
          \A b \in 1..width : f[b] = IF b = 1 THEN Answer(outs, 1) ELSE step[b][f[b - 1]]
    BY <2>2, Zenon DEF SolvableUp
  <2> HIDE DEF Out
  <2>4. ASSUME NEW b \in 1..width, b # 1 PROVE step[b][f[b - 1]] = Out(b, f[b - 1])
    <3>1. b - 1 \in 1..width
      BY <2>4
    <3> QED
      BY <3>1
  <2> HIDE DEF step
  <2>5. \A b \in 1..width : f[b] = IF b = 1 THEN Answer(outs, 1) ELSE Out(b, f[b - 1])
    BY <2>3, <2>4
  <2>6. Equation(f)
    BY <2>5
  <2> QED
    BY <2>6
<1>3. Equation(chosen)
  <2> HIDE DEF Equation
  <2> QED
    BY <1>2, Zenon
<1>5. AddBits(left, right, outs) = AdderWithCarry(left, right, outs, chosen)
  BY Zenon DEF AddBits, AdderWithCarry, SumWire
<1>6. IsCarryWire(chosen, left, right, outs, width)
  <2> HIDE DEF Out, chosen
  <2>1. \A b \in 1..width : chosen[b] = IF b = 1 THEN Answer(outs, 1) ELSE Out(b, chosen[b - 1])
    <3>1. Len(left) = width
      OBVIOUS
    <3>2. chosen = [b \in 1..Len(left) |-> IF b = 1 THEN Answer(outs, 1) ELSE Out(b, chosen[b - 1])]
      BY <1>3
    <3>3. ASSUME NEW b \in 1..width
          PROVE  chosen[b] = IF b = 1 THEN Answer(outs, 1) ELSE Out(b, chosen[b - 1])
      BY <3>1, <3>2, Zenon
    <3> QED
      BY <3>3, Zenon
  <2> QED
    BY <2>1, Zenon DEF IsCarryWire, Out
<1> QED
  BY <1>5, <1>6

\* The first n answers are the products that the gates were to find.
SumAnswered(outs, n, c, left, right) ==
  /\ outs \in Seq(Int) /\ n \in 0..Len(outs)
  /\ \A k \in 1..n : outs[k] = SumAnswer(c, left, right, k)

LEMMA SumAnswers ==
  ASSUME NEW left, NEW right, NEW c, NEW outs, NEW n \in Nat, SumAnswered(outs, n, c, left, right)
  PROVE  /\ n \in Nat
         /\ \A b \in Nat : b > 1 =>
              /\ 2 * b - 2 <= n => Answer(outs, 2 * b - 2) = And(left[b], right[b])
              /\ 2 * b - 1 <= n =>
                   Answer(outs, 2 * b - 1) = And(Xor(left[b], right[b]), c[b - 1])
         /\ 1 <= n => Answer(outs, 1) = And(left[1], right[1])
<1>1. n \in Nat /\ \A k \in 1..n : k \in DOMAIN outs
  BY DEF SumAnswered
<1>2. \A k \in 1..n : Answer(outs, k) = SumAnswer(c, left, right, k)
  BY <1>1 DEF SumAnswered, Answer
<1>3. ASSUME NEW b \in Nat, b > 1
      PROVE  /\ SumAnswer(c, left, right, 2 * b - 2) = And(left[b], right[b])
             /\ SumAnswer(c, left, right, 2 * b - 1) = And(Xor(left[b], right[b]), c[b - 1])
  <2>1. /\ (2 * b - 2) \div 2 + 1 = b /\ (2 * b - 2) % 2 = 0 /\ 2 * b - 2 # 1
        /\ (2 * b - 1) \div 2 + 1 = b /\ (2 * b - 1) % 2 = 1 /\ 2 * b - 1 # 1
    BY <1>3
  <2> QED
    BY <2>1 DEF SumAnswer
<1>4. SumAnswer(c, left, right, 1) = And(left[1], right[1])
  BY DEF SumAnswer
<1>5. ASSUME NEW b \in Nat, b > 1
      PROVE  /\ 2 * b - 2 <= n => Answer(outs, 2 * b - 2) = And(left[b], right[b])
             /\ 2 * b - 1 <= n =>
                  Answer(outs, 2 * b - 1) = And(Xor(left[b], right[b]), c[b - 1])
  <2>1. /\ 2 * b - 2 <= n => 2 * b - 2 \in 1..n
        /\ 2 * b - 1 <= n => 2 * b - 1 \in 1..n
    BY <1>1, <1>5
  <2> QED
    BY <1>2, <1>3, <1>5, <2>1
<1> QED
  BY <1>1, <1>2, <1>4, <1>5

\* The wires of a bit whose gates have answered.
SumWiresAreRight(left, right, outs, n, c, b) ==
  /\ left[b] \in Bits /\ right[b] \in Bits /\ c[b - 1] \in Bits
  /\ 2 * b - 2 <= n =>
       XorWithProduct(left[b], right[b], Answer(outs, 2 * b - 2)) = Xor(left[b], right[b])
  /\ 2 * b - 1 <= n =>
       SumWire(left, right, outs, b, c[b - 1]) = Xor(Xor(left[b], right[b]), c[b - 1])

LEMMA SumWires ==
  ASSUME NEW width \in Nat, NEW left \in [1..width -> Bits], NEW right \in [1..width -> Bits],
         NEW c, IsCarry(c, left, right, width),
         NEW outs, NEW n \in Nat, SumAnswered(outs, n, c, left, right),
         NEW b \in 2..width
  PROVE  SumWiresAreRight(left, right, outs, n, c, b)
<1>1. left[b] \in Bits /\ right[b] \in Bits /\ c[b - 1] \in Bits
  <2>1. b \in 1..width /\ b - 1 \in 0..width
    OBVIOUS
  <2> QED
    BY <2>1 DEF IsCarry
<1>2. Xor(left[b], right[b]) \in Bits
  BY <1>1, BitWires
<1>3. ASSUME 2 * b - 2 <= n
      PROVE  XorWithProduct(left[b], right[b], Answer(outs, 2 * b - 2)) = Xor(left[b], right[b])
  BY <1>1, <1>3, SumAnswers, BitWires
<1>4. ASSUME 2 * b - 1 <= n
      PROVE  SumWire(left, right, outs, b, c[b - 1]) = Xor(Xor(left[b], right[b]), c[b - 1])
  <2>1. 2 * b - 2 <= n
    BY <1>4, SumAnswers
  <2>2. Answer(outs, 2 * b - 1) = And(Xor(left[b], right[b]), c[b - 1])
    BY <1>4, SumAnswers
  <2>3. XorWithProduct(Xor(left[b], right[b]), c[b - 1], And(Xor(left[b], right[b]), c[b - 1]))
          = Xor(Xor(left[b], right[b]), c[b - 1])
    BY <1>1, <1>2, BitWires
  <2> QED
    BY <1>3, <2>1, <2>2, <2>3 DEF SumWire
<1> QED
  BY <1>1, <1>3, <1>4 DEF SumWiresAreRight

\* The carries that the adder computes are the carries of the sum.
LEMMA CarriesAreRight ==
  ASSUME NEW width \in Nat, NEW left \in [1..width -> Bits], NEW right \in [1..width -> Bits],
         NEW c, IsCarry(c, left, right, width),
         NEW outs, NEW n \in Nat, SumAnswered(outs, n, c, left, right),
         NEW carry, IsCarryWire(carry, left, right, outs, width)
  PROVE  \A b \in 1..width : 2 * b - 1 <= n => carry[b] = c[b]
<1> DEFINE T == {b \in 1..width : 2 * b - 1 <= n => carry[b] = c[b]}
<1>0. n \in Nat
  BY SumAnswers
<1>1. width > 0 => 1 \in T
  <2> SUFFICES ASSUME width > 0, 1 <= n PROVE carry[1] = c[1]
    OBVIOUS
  <2>1. 1 \in 1..width /\ left[1] \in Bits /\ right[1] \in Bits
    OBVIOUS
  <2>2. carry[1] = And(left[1], right[1])
    BY <2>1, SumAnswers DEF IsCarryWire
  <2>3. c[1] = Majority(left[1], right[1], 0)
    <3>1. c[1] = Majority(left[1], right[1], c[1 - 1])
      BY <2>1 DEF IsCarry
    <3> QED
      BY <3>1 DEF IsCarry
  <2> QED
    BY <2>1, <2>2, <2>3 DEF And, Majority, Bits
<1>2. \A b \in 1..width : b \in T /\ b < width => b + 1 \in T
  <2> SUFFICES ASSUME NEW a \in 1..width, a \in T, a < width, 2 * (a + 1) - 1 <= n
               PROVE  carry[a + 1] = c[a + 1]
    OBVIOUS
  <2> DEFINE b == a + 1
  <2>1. b \in 2..width /\ b \in 1..width /\ b # 1 /\ b - 1 = a /\ 2 * b - 1 <= n
    OBVIOUS
  <2>2. carry[b - 1] = c[b - 1]
    BY <1>0, <2>1
  <2> HIDE DEF b
  <2>9. SumWiresAreRight(left, right, outs, n, c, b)
    BY <2>1, SumWires
  <2>3. SumWire(left, right, outs, b, c[b - 1]) = Xor(Xor(left[b], right[b]), c[b - 1])
    BY <2>1, <2>9 DEF SumWiresAreRight
  <2>4. left[b] \in Bits /\ right[b] \in Bits /\ c[b - 1] \in Bits
    BY <2>9 DEF SumWiresAreRight
  <2>5. carry[b] = (InverseTwo * (left[b] + right[b] + carry[b - 1]
                                  - SumWire(left, right, outs, b, carry[b - 1]))) % SubgroupOrder
    BY <2>1 DEF IsCarryWire
  <2>6. carry[b] = (InverseTwo * (left[b] + right[b] + c[b - 1]
                                  - Xor(Xor(left[b], right[b]), c[b - 1]))) % SubgroupOrder
    BY <2>2, <2>3, <2>5, Zenon
  <2>7. carry[b] = Majority(left[b], right[b], c[b - 1])
    BY <2>4, <2>6, CarryWire
  <2>8. c[b] = Majority(left[b], right[b], c[b - 1])
    BY <2>1 DEF IsCarry
  <2> QED
    BY <2>7, <2>8 DEF b
<1>3. 1..width \subseteq T
  <2> HIDE DEF T
  <2> QED
    BY <1>1, <1>2, InductionUp
<1> QED
  BY <1>3

\* A gate call that multiplies by a bit, and what it will be answered.
Asks(call, answer) ==
  call.x \in Bits /\ call.y \in Bits /\ GateOutput(call.x, call.y) = answer

\* The next gate the adder calls has a bit for its selector, and is answered
\* as it should be.
LEMMA AdderAsks ==
  ASSUME NEW width \in Nat \ {0}, NEW left \in [1..width -> Bits], NEW right \in [1..width -> Bits],
         NEW c, IsCarry(c, left, right, width),
         NEW outs, NEW n \in Nat, SumAnswered(outs, n, c, left, right), n < GateCount(width)
  PROVE  Asks(AddBits(left, right, outs).calls[n + 1],
              SumAnswer(c, left, right, n + 1))
<1> DEFINE k == n + 1
           b == k \div 2 + 1
<1>1. PICK carry : /\ IsCarryWire(carry, left, right, outs, width)
                   /\ AddBits(left, right, outs) = AdderWithCarry(left, right, outs, carry)
  BY AdderHasCarries DEF SumAnswered
<1>2. \A a \in 1..width : 2 * a - 1 <= n => carry[a] = c[a]
  BY <1>1, CarriesAreRight
<1>3. k \in 1..GateCount(width) /\ k = n + 1 /\ k <= 2 * width - 1
  BY SumAnswers DEF GateCount
<1> DEFINE call == AddBits(left, right, outs).calls[k]
<1>4. Len(left) = width /\ 1 \in 1..width
  OBVIOUS
<1> HIDE DEF k
<1>5. call = IF k = 1 THEN Gate(1, "CARRY", left[1], right[1])
             ELSE IF k % 2 = 0 THEN Gate(b, "PAIR_PRODUCT", left[b], right[b])
             ELSE Gate(b, "CARRY_PRODUCT",
                       XorWithProduct(left[b], right[b], Answer(outs, 2 * b - 2)), carry[b - 1])
  BY <1>1, <1>3, <1>4 DEF AdderWithCarry
<1> HIDE DEF call
<1>6. CASE k = 1
  <2>1. call.x = left[1] /\ call.y = right[1]
    BY <1>5, <1>6 DEF Gate
  <2>2. SumAnswer(c, left, right, k) = And(left[1], right[1])
    BY <1>6 DEF SumAnswer
  <2>3. left[1] \in Bits /\ right[1] \in Bits
    BY <1>4
  <2>4. Asks(call, SumAnswer(c, left, right, k))
    BY <2>1, <2>2, <2>3, BitWires DEF Asks
  <2> QED
    BY <2>4 DEF call, k
<1>7. CASE k # 1
  <2>1. b \in 2..width /\ (k % 2 = 0 => k = 2 * b - 2) /\ (k % 2 # 0 => k = 2 * b - 1)
    BY <1>3, <1>7
  <2>2. SumWiresAreRight(left, right, outs, n, c, b)
    <3> HIDE DEF b
    <3> QED
      BY <2>1, SumWires
  <2>3. SumAnswer(c, left, right, k) = IF k % 2 = 0 THEN And(left[b], right[b])
                                       ELSE And(Xor(left[b], right[b]), c[b - 1])
    BY <1>7 DEF SumAnswer
  <2> HIDE DEF b
  <2>4. left[b] \in Bits /\ right[b] \in Bits /\ c[b - 1] \in Bits
    BY <2>2 DEF SumWiresAreRight
  <2>5. CASE k % 2 = 0
    <3>1. call.x = left[b] /\ call.y = right[b]
      BY <1>5, <1>7, <2>5 DEF Gate
    <3>2. Asks(call, SumAnswer(c, left, right, k))
      BY <2>3, <2>4, <2>5, <3>1, BitWires DEF Asks
    <3> QED
      BY <3>2 DEF call, k
  <2>6. CASE k % 2 # 0
    <3>1. 2 * b - 2 <= n /\ b - 1 \in 1..width /\ 2 * (b - 1) - 1 <= n
      BY <1>3, <2>1, <2>6, SumAnswers
    <3>2. call.x = Xor(left[b], right[b]) /\ call.y = c[b - 1]
      <4>1. call.x = XorWithProduct(left[b], right[b], Answer(outs, 2 * b - 2)) /\ call.y = carry[b - 1]
        BY <1>5, <1>7, <2>6 DEF Gate
      <4>2. XorWithProduct(left[b], right[b], Answer(outs, 2 * b - 2)) = Xor(left[b], right[b])
        BY <2>2, <3>1 DEF SumWiresAreRight
      <4>3. carry[b - 1] = c[b - 1]
        BY <1>2, <3>1
      <4> QED
        BY <4>1, <4>2, <4>3
    <3>3. Xor(left[b], right[b]) \in Bits
      BY <2>4, BitWires
    <3>4. Asks(call, SumAnswer(c, left, right, k))
      BY <2>3, <2>4, <2>6, <3>2, <3>3, BitWires DEF Asks
    <3> QED
      BY <3>4 DEF call, k
  <2> QED
    BY <2>5, <2>6
<1> QED
  BY <1>6, <1>7

\* One bit of a sum, and one bit of a comparison.
LEMMA FullAdder ==
  ASSUME NEW l \in Bits, NEW r \in Bits, NEW i \in Bits
  PROVE  l + r + i = Xor(Xor(l, r), i) + 2 * Majority(l, r, i)
<1>1. CASE i = 0
  BY <1>1 DEF Bits, Xor, Majority
<1>2. CASE i = 1
  BY <1>2 DEF Bits, Xor, Majority
<1> QED
  BY <1>1, <1>2 DEF Bits

LEMMA FullComparison ==
  ASSUME NEW l \in Bits, NEW r \in Bits, NEW i \in Bits, NEW vs \in Nat, NEW us \in Nat
  PROVE  l + 2 * vs < r + 2 * us + i <=> vs < us + Borrowed(l, r, i)
<1>1. CASE l < r + i
  <2>1. Borrowed(l, r, i) = 1
    BY <1>1 DEF Borrowed
  <2> QED
    BY <1>1, <2>1 DEF Bits
<1>2. CASE ~(l < r + i)
  <2>1. Borrowed(l, r, i) = 0
    BY <1>2 DEF Borrowed
  <2> QED
    BY <1>2, <2>1 DEF Bits
<1> QED
  BY <1>1, <1>2

\* When all its gates have answered, the adder's output is the sum.
Adds(output, left, right, width) ==
  /\ output \in [1..(width + 1) -> Bits]
  /\ ValueOf(output) = ValueOf(left) + ValueOf(right)

LEMMA AdderAdds ==
  ASSUME NEW width \in Nat \ {0}, NEW left \in [1..width -> Bits], NEW right \in [1..width -> Bits],
         NEW c, IsCarry(c, left, right, width),
         NEW outs, NEW n \in Nat, SumAnswered(outs, n, c, left, right), n = GateCount(width)
  PROVE  Adds(AddBits(left, right, outs).output, left, right, width)
<1> DEFINE output == AddBits(left, right, outs).output
<1>1. PICK carry : /\ IsCarryWire(carry, left, right, outs, width)
                   /\ AddBits(left, right, outs) = AdderWithCarry(left, right, outs, carry)
  BY AdderHasCarries DEF SumAnswered
<1>2. \A b \in 1..width : carry[b] = c[b]
  <2>1. \A b \in 1..width : 2 * b - 1 <= n
    BY DEF GateCount
  <2>2. \A b \in 1..width : 2 * b - 1 <= n => carry[b] = c[b]
    BY <1>1, CarriesAreRight
  <2> QED
    BY <2>1, <2>2
<1>3. Len(left) = width
  OBVIOUS
<1>4. output = [b \in 1..(width + 1) |->
                 IF b = 1 THEN XorWithProduct(left[1], right[1], Answer(outs, 1))
                 ELSE IF b <= width THEN SumWire(left, right, outs, b, carry[b - 1])
                 ELSE carry[width]]
  BY <1>1, <1>3 DEF AdderWithCarry
<1> HIDE DEF output
<1>5. c \in [0..width -> Bits] /\ c[0] = 0 /\ 0 \in 0..width
  BY DEF IsCarry
<1>6. ASSUME NEW b \in 1..width
      PROVE  /\ left[b] \in Bits /\ right[b] \in Bits /\ c[b - 1] \in Bits /\ c[b] \in Bits
             /\ output[b] = Xor(Xor(left[b], right[b]), c[b - 1])
             /\ c[b] = Majority(left[b], right[b], c[b - 1])
  <2>1. left[b] \in Bits /\ right[b] \in Bits /\ c[b - 1] \in Bits /\ c[b] \in Bits
    BY <1>5
  <2>2. b \in 1..(width + 1) /\ b <= width
    OBVIOUS
  <2>3. CASE b = 1
    <3>1. output[b] = XorWithProduct(left[1], right[1], Answer(outs, 1))
      BY <1>4, <2>2, <2>3
    <3>2. Answer(outs, 1) = And(left[1], right[1])
      BY SumAnswers DEF GateCount
    <3>3. output[b] = Xor(left[1], right[1])
      BY <2>1, <2>3, <3>1, <3>2, BitWires
    <3>4. c[b - 1] = 0
      BY <1>5, <2>3
    <3>5. Xor(Xor(left[1], right[1]), 0) = Xor(left[1], right[1])
      BY DEF Xor
    <3> QED
      BY <2>1, <2>3, <3>3, <3>4, <3>5 DEF IsCarry
  <2>4. CASE b # 1
    <3>1. b \in 2..width /\ 2 * b - 1 <= n /\ b - 1 \in 1..width
      BY <2>4 DEF GateCount
    <3>2. SumWiresAreRight(left, right, outs, n, c, b)
      BY <3>1, SumWires
    <3>3. output[b] = SumWire(left, right, outs, b, c[b - 1])
      BY <1>2, <1>4, <2>2, <2>4, <3>1
    <3> QED
      BY <2>1, <3>1, <3>2, <3>3 DEF SumWiresAreRight, IsCarry
  <2> QED
    BY <2>3, <2>4
<1>7. output[width + 1] = c[width] /\ c[width] \in Bits
  <2>1. width + 1 \in 1..(width + 1) /\ width + 1 # 1 /\ ~(width + 1 <= width) /\ width \in 1..width
    OBVIOUS
  <2> QED
    BY <1>2, <1>4, <1>5, <2>1
<1>8. output \in [1..(width + 1) -> Bits]
  <2>1. ASSUME NEW b \in 1..width PROVE output[b] \in Bits
    <3>1. /\ left[b] \in Bits /\ right[b] \in Bits /\ c[b - 1] \in Bits
          /\ output[b] = Xor(Xor(left[b], right[b]), c[b - 1])
      BY <1>6
    <3> QED
      BY <3>1 DEF Xor, Bits
  <2>2. \A b \in 1..(width + 1) : output[b] \in Bits
    BY <1>7, <2>1
  <2> QED
    BY <1>4, <2>2
<1>9. PICK v : IsValue(v, left, width) /\ ValueOf(left) = v[1]
  BY ValueOfBits
<1>10. PICK u : IsValue(u, right, width) /\ ValueOf(right) = u[1]
  BY ValueOfBits
<1> DEFINE s == [b \in 1..((width + 1) + 1) |-> IF b = (width + 1) + 1 THEN 0 ELSE v[b] + u[b] + c[b - 1]]
<1>11. IsValue(s, output, width + 1)
  <2>1. s \in [1..((width + 1) + 1) -> Nat]
    <3>1. ASSUME NEW b \in 1..((width + 1) + 1), b # (width + 1) + 1
          PROVE  v[b] + u[b] + c[b - 1] \in Nat
      <4>1. b \in 1..(width + 1) /\ b - 1 \in 0..width
        BY <3>1
      <4>2. v[b] \in Nat /\ u[b] \in Nat /\ c[b - 1] \in Bits
        BY <1>5, <1>9, <1>10, <4>1 DEF IsValue
      <4> QED
        BY <4>2 DEF Bits
    <3> QED
      BY <3>1
  <2>2. s[(width + 1) + 1] = 0
    OBVIOUS
  <2>3. ASSUME NEW b \in 1..(width + 1) PROVE s[b] = output[b] + 2 * s[b + 1]
    <3>1. CASE b = width + 1
      <4>1. s[b] = v[width + 1] + u[width + 1] + c[width] /\ s[b + 1] = 0
        BY <3>1
      <4>2. v[width + 1] = 0 /\ u[width + 1] = 0
        BY <1>9, <1>10 DEF IsValue
      <4> HIDE DEF s
      <4> QED
        BY <1>7, <3>1, <4>1, <4>2 DEF Bits
    <3>2. CASE b # width + 1
      <4>1. b \in 1..width /\ (b + 1) - 1 = b
        BY <3>2
      <4>2. s[b] = v[b] + u[b] + c[b - 1] /\ s[b + 1] = v[b + 1] + u[b + 1] + c[b]
        BY <3>2, <4>1
      <4>3. /\ v[b] = left[b] + 2 * v[b + 1] /\ u[b] = right[b] + 2 * u[b + 1]
            /\ v[b + 1] \in Nat /\ u[b + 1] \in Nat
        <5>1. b + 1 \in 1..(width + 1)
          BY <4>1
        <5> QED
          BY <1>9, <1>10, <4>1, <5>1 DEF IsValue
      <4>5. left[b] \in Bits /\ right[b] \in Bits /\ c[b - 1] \in Bits /\ c[b] \in Bits /\ output[b] \in Bits
        BY <1>6, <1>8, <4>1
      <4>4. left[b] + right[b] + c[b - 1] = output[b] + 2 * c[b]
        <5>1. /\ output[b] = Xor(Xor(left[b], right[b]), c[b - 1])
              /\ c[b] = Majority(left[b], right[b], c[b - 1])
          BY <1>6, <4>1
        <5>2. left[b] + right[b] + c[b - 1] = Xor(Xor(left[b], right[b]), c[b - 1])
                                              + 2 * Majority(left[b], right[b], c[b - 1])
          BY <4>5, FullAdder
        <5> QED
          BY <5>1, <5>2, Zenon
      <4> DEFINE l == left[b]
                 r == right[b]
                 vs == v[b + 1]
                 us == u[b + 1]
                 o == output[b]
                 i == c[b - 1]
                 d == c[b]
      <4>6. /\ l \in Int /\ r \in Int /\ vs \in Int /\ us \in Int /\ o \in Int /\ i \in Int /\ d \in Int
            /\ l + r + i = o + 2 * d
            /\ s[b] = (l + 2 * vs) + (r + 2 * us) + i
            /\ s[b + 1] = vs + us + d
        <5> HIDE DEF s
        <5>1. /\ l \in Int /\ r \in Int /\ vs \in Int /\ us \in Int /\ o \in Int /\ i \in Int /\ d \in Int
          <6>1. Bits \subseteq Int /\ Nat \subseteq Int
            BY DEF Bits
          <6> QED
            BY <4>3, <4>5, <6>1, Zenon
        <5>2. /\ l + r + i = o + 2 * d
              /\ s[b] = (l + 2 * vs) + (r + 2 * us) + i
              /\ s[b + 1] = vs + us + d
          BY <4>2, <4>3, <4>4, Zenon
        <5> QED
          BY <5>1, <5>2
      <4> HIDE DEF l, r, vs, us, o, i, d, s
      <4>7. s[b] = o + 2 * s[b + 1]
        BY <4>6
      <4> QED
        BY <4>7 DEF o
    <3> QED
      BY <3>1, <3>2
  <2> HIDE DEF s
  <2> QED
    BY <2>1, <2>2, <2>3 DEF IsValue
<1>12. s[1] = v[1] + u[1] /\ v[1] \in Nat /\ u[1] \in Nat
  <2>1. 1 \in 1..(width + 1) /\ 1 # (width + 1) + 1 /\ 1 \in 1..((width + 1) + 1)
    OBVIOUS
  <2>2. s[1] = v[1] + u[1] + c[0]
    BY <2>1
  <2> HIDE DEF s
  <2> QED
    BY <1>5, <1>9, <1>10, <2>1, <2>2 DEF IsValue
<1>13. ValueOf(output) = ValueOf(left) + ValueOf(right)
  <2>1. ValueOf(output) = s[1]
    <3> HIDE DEF s
    <3>1. width + 1 \in Nat
      OBVIOUS
    <3> QED
      BY <1>8, <1>11, <3>1, ValueIs
  <2> QED
    BY <1>9, <1>10, <1>12, <2>1
<1> QED
  BY <1>8, <1>13 DEF Adds, output

-----------------------------------------------------------------------------
(* The comparison.                                                          *)

\* c[b] is the borrow out of bit b of a difference.
IsBorrow(c, left, right, width) ==
  /\ c \in [0..width -> Bits]
  /\ c[0] = 0
  /\ \A b \in 1..width : c[b] = Borrowed(left[b], right[b], c[b - 1])

\* What the k-th gate of the comparison then answers.
LessAnswer(c, left, right, k) ==
  LET b == k \div 2 + 1 IN
  IF k = 1 THEN And(left[1], right[1])
  ELSE IF k % 2 = 0 THEN And(right[b], c[b - 1])
  ELSE And(left[b], Xor(right[b], c[b - 1]))

LEMMA BorrowsExist ==
  ASSUME NEW width \in Nat, NEW left \in [1..width -> Bits], NEW right \in [1..width -> Bits]
  PROVE  \E c : IsBorrow(c, left, right, width)
<1> DEFINE step == [b \in 0..width |-> [z \in Bits |->
                      IF b \in 1..width THEN Borrowed(left[b], right[b], z) ELSE 0]]
<1>1. step \in [0..width -> [Bits -> Bits]]
  <2>1. ASSUME NEW b \in 0..width, NEW z \in Bits
        PROVE  (IF b \in 1..width THEN Borrowed(left[b], right[b], z) ELSE 0) \in Bits
    BY BorrowWire DEF Bits
  <2> QED
    BY <2>1
<1>2. SolvableUp(0, width, Bits, 0, step)
  <2> HIDE DEF step
  <2>1. 0 \in Int /\ width \in Int /\ 0 \in Bits
    BY DEF Bits
  <2> QED
    BY <1>1, <2>1, RecursionUp
<1>3. PICK c \in [0..width -> Bits] :
        \A b \in 0..width : c[b] = IF b = 0 THEN 0 ELSE step[b][c[b - 1]]
  BY <1>2, Zenon DEF SolvableUp
<1>4. ASSUME NEW b \in 1..width PROVE c[b] = Borrowed(left[b], right[b], c[b - 1])
  <2>1. b \in 0..width /\ b # 0 /\ b - 1 \in 0..width
    OBVIOUS
  <2>2. c[b - 1] \in Bits
    BY <2>1
  <2>3. step[b][c[b - 1]] = Borrowed(left[b], right[b], c[b - 1])
    BY <2>1, <2>2
  <2> QED
    BY <1>3, <2>1, <2>3
<1>5. c[0] = 0
  <2> HIDE DEF step
  <2>1. 0 \in 0..width
    OBVIOUS
  <2> QED
    BY <1>3, <2>1
<1> QED
  BY <1>4, <1>5 DEF IsBorrow

\* The borrow out of bit b of the circuit, given its borrow in.
BorrowOut(right, outs, b, in) ==
  AffineSubtract(AffineSubtract(right[b] + in, Answer(outs, 2 * b - 2)), Answer(outs, 2 * b - 1))

\* borrow[b] is what the comparison computes for its borrow out of bit b.
IsBorrowWire(borrow, right, outs, width) ==
  \A b \in 1..width :
    borrow[b] = IF b = 1 THEN AffineSubtract(right[1], Answer(outs, 1))
                ELSE BorrowOut(right, outs, b, borrow[b - 1])

\* The comparison's gates and its last borrow, given its borrows.
ComparisonWithBorrow(circuit, left, right, outs, borrow) ==
  LET width == Len(left)
      call(k) ==
        LET b == k \div 2 + 1 IN
        IF k = 1 THEN Gate(1, "PRODUCT", left[1], right[1])
        ELSE IF k % 2 = 0 THEN Gate(b, "Y_BORROW", right[b], borrow[b - 1])
        ELSE Gate(b, "X_PRODUCT", left[b],
                  XorWithProduct(right[b], borrow[b - 1], Answer(outs, 2 * b - 2)))
  IN /\ circuit.calls = [k \in 1..GateCount(width) |-> call(k)]
     /\ circuit.borrow = borrow[width]

LEMMA ComparisonHasBorrows ==
  ASSUME NEW width \in Nat, NEW left \in [1..width -> Bits], NEW right \in [1..width -> Bits],
         NEW outs \in Seq(Int)
  PROVE  \E borrow : /\ IsBorrowWire(borrow, right, outs, width)
                     /\ ComparisonWithBorrow(SubLTBits(left, right, outs), left, right, outs, borrow)
<1> DEFINE First == AffineSubtract(right[1], Answer(outs, 1))
    Equation(f) == f = [b \in 1..Len(left) |-> IF b = 1 THEN First ELSE BorrowOut(right, outs, b, f[b - 1])]
    chosen == CHOOSE f : Equation(f)
<1>1. ASSUME NEW b \in 1..width, NEW in \in Int PROVE BorrowOut(right, outs, b, in) \in Int
  <2>1. right[b] \in Int /\ right[b] + in \in Int
    <3>1. right[b] \in Bits
      OBVIOUS
    <3>2. in \in Int
      BY <1>1
    <3> QED
      BY ONLY <3>1, <3>2 DEF Bits
  <2>2. Answer(outs, 2 * b - 2) \in Int /\ Answer(outs, 2 * b - 1) \in Int
    BY AnswersAreIntegers
  <2>3. AffineSubtract(right[b] + in, Answer(outs, 2 * b - 2)) \in Int
    BY <2>1, <2>2, WiresAreIntegers
  <2> QED
    BY <2>2, <2>3, WiresAreIntegers DEF BorrowOut
<1>2. \E f : Equation(f)
  <2> DEFINE step == [b \in 1..width |-> [x \in Int |-> BorrowOut(right, outs, b, x)]]
  <2>0. width > 0 => First \in Int
    <3> SUFFICES ASSUME width > 0 PROVE First \in Int
      OBVIOUS
    <3>1. right[1] \in Int /\ Answer(outs, 1) \in Int
      BY AnswersAreIntegers DEF Bits
    <3> QED
      BY <3>1, WiresAreIntegers
  <2>1. step \in [1..width -> [Int -> Int]]
    BY <1>1
  <2> HIDE DEF First
  <2>2. CASE width > 0
    <3>1. SolvableUp(1, width, Int, First, step)
      <4> HIDE DEF step
      <4>1. 1 \in Int /\ width \in Int
        OBVIOUS
      <4> QED
        BY <2>0, <2>1, <2>2, <4>1, RecursionUp
    <3>2. PICK f \in [1..width -> Int] :
            \A b \in 1..width : f[b] = IF b = 1 THEN First ELSE step[b][f[b - 1]]
      BY <3>1, Zenon DEF SolvableUp
    <3>3. ASSUME NEW b \in 1..width, b # 1 PROVE step[b][f[b - 1]] = BorrowOut(right, outs, b, f[b - 1])
      <4>1. b - 1 \in 1..width
        BY <3>3
      <4> QED
        BY <4>1
    <3> HIDE DEF step
    <3>4. \A b \in 1..width : f[b] = IF b = 1 THEN First ELSE BorrowOut(right, outs, b, f[b - 1])
      BY <3>2, <3>3
    <3>5. Equation(f)
      BY <3>4
    <3> QED
      BY <3>5
  <2>3. CASE ~(width > 0)
    <3> DEFINE f == [b \in {} |-> First]
    <3>1. 1..Len(left) = {}
      BY <2>3
    <3>2. Equation(f)
      BY <3>1
    <3> HIDE DEF f, Equation
    <3> QED
      BY <3>2
  <2> QED
    BY <2>2, <2>3
<1>3. Equation(chosen)
  <2> HIDE DEF Equation
  <2> QED
    BY <1>2, Zenon
<1>4. ComparisonWithBorrow(SubLTBits(left, right, outs), left, right, outs, chosen)
  <2>1. SubLTBits(left, right, outs).calls =
          [k \in 1..GateCount(Len(left)) |->
             LET b == k \div 2 + 1 IN
             IF k = 1 THEN Gate(1, "PRODUCT", left[1], right[1])
             ELSE IF k % 2 = 0 THEN Gate(b, "Y_BORROW", right[b], chosen[b - 1])
             ELSE Gate(b, "X_PRODUCT", left[b],
                       XorWithProduct(right[b], chosen[b - 1], Answer(outs, 2 * b - 2)))]
    BY Zenon DEF SubLTBits, BorrowOut
  <2>2. SubLTBits(left, right, outs).borrow = chosen[Len(left)]
    BY Zenon DEF SubLTBits, BorrowOut
  <2> HIDE DEF chosen
  <2> QED
    BY <2>1, <2>2, Zenon DEF ComparisonWithBorrow
<1>5. IsBorrowWire(chosen, right, outs, width)
  <2> HIDE DEF First, chosen
  <2>1. Len(left) = width
    OBVIOUS
  <2>2. chosen = [b \in 1..Len(left) |-> IF b = 1 THEN First ELSE BorrowOut(right, outs, b, chosen[b - 1])]
    BY <1>3
  <2>3. ASSUME NEW b \in 1..width
        PROVE  chosen[b] = IF b = 1 THEN First ELSE BorrowOut(right, outs, b, chosen[b - 1])
    BY <2>1, <2>2, Zenon
  <2> QED
    BY <2>3, Zenon DEF IsBorrowWire, First
<1> QED
  BY <1>4, <1>5

\* The first n answers are the products that the gates were to find.
LessAnswered(outs, n, c, left, right) ==
  /\ outs \in Seq(Int) /\ n \in 0..Len(outs)
  /\ \A k \in 1..n : outs[k] = LessAnswer(c, left, right, k)

\* The two products that bit b asks for are right, if they have answered.
PairAnswered(left, right, c, outs, n, b) ==
  /\ 2 * b - 2 <= n => Answer(outs, 2 * b - 2) = And(right[b], c[b - 1])
  /\ 2 * b - 1 <= n => Answer(outs, 2 * b - 1) = And(left[b], Xor(right[b], c[b - 1]))

LEMMA LessAnswers ==
  ASSUME NEW left, NEW right, NEW c, NEW outs, NEW n \in Nat, LessAnswered(outs, n, c, left, right)
  PROVE  /\ n \in Nat
         /\ \A b \in Nat : b > 1 => PairAnswered(left, right, c, outs, n, b)
         /\ 1 <= n => Answer(outs, 1) = And(left[1], right[1])
<1>1. n \in Nat /\ \A k \in 1..n : k \in DOMAIN outs
  BY DEF LessAnswered
<1>2. \A k \in 1..n : Answer(outs, k) = LessAnswer(c, left, right, k)
  BY <1>1 DEF LessAnswered, Answer
<1>3. ASSUME NEW b \in Nat, b > 1
      PROVE  /\ LessAnswer(c, left, right, 2 * b - 2) = And(right[b], c[b - 1])
             /\ LessAnswer(c, left, right, 2 * b - 1) = And(left[b], Xor(right[b], c[b - 1]))
  <2>1. /\ (2 * b - 2) \div 2 + 1 = b /\ (2 * b - 2) % 2 = 0 /\ 2 * b - 2 # 1
        /\ (2 * b - 1) \div 2 + 1 = b /\ (2 * b - 1) % 2 = 1 /\ 2 * b - 1 # 1
    BY <1>3
  <2> QED
    BY <2>1 DEF LessAnswer
<1>4. LessAnswer(c, left, right, 1) = And(left[1], right[1])
  BY DEF LessAnswer
<1>5. ASSUME NEW b \in Nat, b > 1 PROVE PairAnswered(left, right, c, outs, n, b)
  <2>1. /\ 2 * b - 2 <= n => 2 * b - 2 \in 1..n
        /\ 2 * b - 1 <= n => 2 * b - 1 \in 1..n
    BY <1>1, <1>5
  <2> QED
    BY <1>2, <1>3, <1>5, <2>1 DEF PairAnswered
<1> QED
  BY <1>1, <1>2, <1>4, <1>5

\* The wires of a bit whose gates have answered.
LessWiresAreRight(left, right, outs, n, c, b) ==
  /\ left[b] \in Bits /\ right[b] \in Bits /\ c[b - 1] \in Bits
  /\ 2 * b - 2 <= n =>
       XorWithProduct(right[b], c[b - 1], Answer(outs, 2 * b - 2)) = Xor(right[b], c[b - 1])
  /\ 2 * b - 1 <= n =>
       BorrowOut(right, outs, b, c[b - 1]) = Borrowed(left[b], right[b], c[b - 1])

LEMMA LessWires ==
  ASSUME NEW width \in Nat, NEW left \in [1..width -> Bits], NEW right \in [1..width -> Bits],
         NEW c, IsBorrow(c, left, right, width),
         NEW outs, NEW n \in Nat, LessAnswered(outs, n, c, left, right),
         NEW b \in 2..width
  PROVE  LessWiresAreRight(left, right, outs, n, c, b)
<1>1. left[b] \in Bits /\ right[b] \in Bits /\ c[b - 1] \in Bits
  <2>1. b \in 1..width /\ b - 1 \in 0..width
    OBVIOUS
  <2> QED
    BY <2>1 DEF IsBorrow
<1>2. ASSUME 2 * b - 2 <= n
      PROVE  XorWithProduct(right[b], c[b - 1], Answer(outs, 2 * b - 2)) = Xor(right[b], c[b - 1])
  <2>1. b \in Nat /\ b > 1
    OBVIOUS
  <2>2. PairAnswered(left, right, c, outs, n, b)
    BY <2>1, LessAnswers
  <2> QED
    BY <1>1, <1>2, <2>2, BitWires DEF PairAnswered
<1>3. ASSUME 2 * b - 1 <= n
      PROVE  BorrowOut(right, outs, b, c[b - 1]) = Borrowed(left[b], right[b], c[b - 1])
  <2>1. 2 * b - 2 <= n
    <3>1. b \in Int /\ n \in Int
      OBVIOUS
    <3> QED
      BY ONLY <1>3, <3>1
  <2>2. /\ Answer(outs, 2 * b - 2) = And(right[b], c[b - 1])
        /\ Answer(outs, 2 * b - 1) = And(left[b], Xor(right[b], c[b - 1]))
    <3>1. b \in Nat /\ b > 1
      OBVIOUS
    <3>2. PairAnswered(left, right, c, outs, n, b)
      BY <3>1, LessAnswers
    <3> QED
      BY ONLY <1>3, <2>1, <3>2 DEF PairAnswered
  <2>3. AffineSubtract(AffineSubtract(right[b] + c[b - 1], And(right[b], c[b - 1])),
                       And(left[b], Xor(right[b], c[b - 1])))
          = Borrowed(left[b], right[b], c[b - 1])
    BY <1>1, BorrowWire
  <2> QED
    BY <2>2, <2>3 DEF BorrowOut
<1> QED
  BY <1>1, <1>2, <1>3 DEF LessWiresAreRight

\* The borrows that the comparison computes are those of the difference.
LEMMA BorrowsAreRight ==
  ASSUME NEW width \in Nat, NEW left \in [1..width -> Bits], NEW right \in [1..width -> Bits],
         NEW c, IsBorrow(c, left, right, width),
         NEW outs, NEW n \in Nat, LessAnswered(outs, n, c, left, right),
         NEW borrow, IsBorrowWire(borrow, right, outs, width)
  PROVE  \A b \in 1..width : 2 * b - 1 <= n => borrow[b] = c[b]
<1> DEFINE T == {b \in 1..width : 2 * b - 1 <= n => borrow[b] = c[b]}
<1>0. n \in Nat
  BY LessAnswers
<1>1. width > 0 => 1 \in T
  <2> SUFFICES ASSUME width > 0, 1 <= n PROVE borrow[1] = c[1]
    OBVIOUS
  <2>1. 1 \in 1..width /\ left[1] \in Bits /\ right[1] \in Bits
    OBVIOUS
  <2>2. borrow[1] = AffineSubtract(right[1], And(left[1], right[1]))
    BY <2>1, LessAnswers DEF IsBorrowWire
  <2>3. c[1] = Borrowed(left[1], right[1], 0)
    <3>1. c[1] = Borrowed(left[1], right[1], c[1 - 1])
      BY <2>1 DEF IsBorrow
    <3> QED
      BY <3>1 DEF IsBorrow
  <2> QED
    BY <2>1, <2>2, <2>3, BorrowWire
<1>2. \A b \in 1..width : b \in T /\ b < width => b + 1 \in T
  <2> SUFFICES ASSUME NEW a \in 1..width, a \in T, a < width, 2 * (a + 1) - 1 <= n
               PROVE  borrow[a + 1] = c[a + 1]
    OBVIOUS
  <2> DEFINE b == a + 1
  <2>1. b \in 2..width /\ b \in 1..width /\ b # 1 /\ b - 1 = a /\ 2 * b - 1 <= n
    OBVIOUS
  <2>2. borrow[b - 1] = c[b - 1]
    BY <1>0, <2>1
  <2> HIDE DEF b
  <2>3. LessWiresAreRight(left, right, outs, n, c, b)
    BY <2>1, LessWires
  <2>4. BorrowOut(right, outs, b, c[b - 1]) = Borrowed(left[b], right[b], c[b - 1])
    BY <2>1, <2>3 DEF LessWiresAreRight
  <2>5. borrow[b] = BorrowOut(right, outs, b, borrow[b - 1])
    BY <2>1 DEF IsBorrowWire
  <2>6. c[b] = Borrowed(left[b], right[b], c[b - 1])
    BY <2>1 DEF IsBorrow
  <2>7. borrow[b] = c[b]
    BY <2>2, <2>4, <2>5, <2>6, Zenon
  <2> QED
    BY <2>7 DEF b
<1>3. 1..width \subseteq T
  <2> HIDE DEF T
  <2> QED
    BY <1>1, <1>2, InductionUp
<1> QED
  BY <1>3

\* The next gate the comparison calls has a bit for its selector, and is
\* answered as it should be.
LEMMA ComparisonAsks ==
  ASSUME NEW width \in Nat \ {0}, NEW left \in [1..width -> Bits], NEW right \in [1..width -> Bits],
         NEW c, IsBorrow(c, left, right, width),
         NEW outs, NEW n \in Nat, LessAnswered(outs, n, c, left, right), n < GateCount(width)
  PROVE  Asks(SubLTBits(left, right, outs).calls[n + 1],
              LessAnswer(c, left, right, n + 1))
<1> DEFINE k == n + 1
           b == k \div 2 + 1
           call == SubLTBits(left, right, outs).calls[k]
<1>1. PICK borrow :
        /\ IsBorrowWire(borrow, right, outs, width)
        /\ ComparisonWithBorrow(SubLTBits(left, right, outs), left, right, outs, borrow)
  BY ComparisonHasBorrows DEF LessAnswered
<1>2. \A a \in 1..width : 2 * a - 1 <= n => borrow[a] = c[a]
  BY <1>1, BorrowsAreRight
<1>3. k \in 1..GateCount(width) /\ k = n + 1 /\ k <= 2 * width - 1
  BY LessAnswers DEF GateCount
<1>4. Len(left) = width /\ 1 \in 1..width
  OBVIOUS
<1> HIDE DEF k
<1>5. call = IF k = 1 THEN Gate(1, "PRODUCT", left[1], right[1])
             ELSE IF k % 2 = 0 THEN Gate(b, "Y_BORROW", right[b], borrow[b - 1])
             ELSE Gate(b, "X_PRODUCT", left[b],
                       XorWithProduct(right[b], borrow[b - 1], Answer(outs, 2 * b - 2)))
  BY <1>1, <1>3, <1>4 DEF ComparisonWithBorrow
<1> HIDE DEF call
<1>6. CASE k = 1
  <2>1. call.x = left[1] /\ call.y = right[1]
    BY <1>5, <1>6 DEF Gate
  <2>2. LessAnswer(c, left, right, k) = And(left[1], right[1])
    BY <1>6 DEF LessAnswer
  <2>3. left[1] \in Bits /\ right[1] \in Bits
    BY <1>4
  <2>4. Asks(call, LessAnswer(c, left, right, k))
    BY <2>1, <2>2, <2>3, BitWires DEF Asks
  <2> QED
    BY <2>4 DEF call, k
<1>7. CASE k # 1
  <2>1. /\ b \in 2..width /\ (k % 2 = 0 => k = 2 * b - 2) /\ (k % 2 # 0 => k = 2 * b - 1)
        /\ b - 1 \in 1..width /\ 2 * (b - 1) - 1 <= n
    BY <1>3, <1>7, LessAnswers
  <2>2. LessWiresAreRight(left, right, outs, n, c, b)
    <3> HIDE DEF b
    <3> QED
      BY <2>1, LessWires
  <2>3. LessAnswer(c, left, right, k) = IF k % 2 = 0 THEN And(right[b], c[b - 1])
                                        ELSE And(left[b], Xor(right[b], c[b - 1]))
    BY <1>7 DEF LessAnswer
  <2> HIDE DEF b
  <2>4. left[b] \in Bits /\ right[b] \in Bits /\ c[b - 1] \in Bits
    BY <2>2 DEF LessWiresAreRight
  <2>5. borrow[b - 1] = c[b - 1]
    BY <1>2, <2>1
  <2>6. CASE k % 2 = 0
    <3>1. call.x = right[b] /\ call.y = c[b - 1]
      BY <1>5, <1>7, <2>5, <2>6 DEF Gate
    <3>2. Asks(call, LessAnswer(c, left, right, k))
      BY <2>3, <2>4, <2>6, <3>1, BitWires DEF Asks
    <3> QED
      BY <3>2 DEF call, k
  <2>7. CASE k % 2 # 0
    <3>1. 2 * b - 2 <= n
      BY <1>3, <2>1, <2>7, LessAnswers
    <3>2. call.x = left[b] /\ call.y = Xor(right[b], c[b - 1])
      <4>1. /\ call.x = left[b]
            /\ call.y = XorWithProduct(right[b], borrow[b - 1], Answer(outs, 2 * b - 2))
        BY <1>5, <1>7, <2>7 DEF Gate
      <4>2. XorWithProduct(right[b], c[b - 1], Answer(outs, 2 * b - 2)) = Xor(right[b], c[b - 1])
        BY <2>2, <3>1 DEF LessWiresAreRight
      <4> QED
        BY <2>5, <4>1, <4>2
    <3>3. Xor(right[b], c[b - 1]) \in Bits
      BY <2>4, BitWires
    <3>4. Asks(call, LessAnswer(c, left, right, k))
      BY <2>3, <2>4, <2>7, <3>2, <3>3, BitWires DEF Asks
    <3> QED
      BY <3>4 DEF call, k
  <2> QED
    BY <2>6, <2>7
<1> QED
  BY <1>6, <1>7

\* When all its gates have answered, the last borrow tells which is less.
LEMMA ComparisonDecides ==
  ASSUME NEW width \in Nat \ {0}, NEW left \in [1..width -> Bits], NEW right \in [1..width -> Bits],
         NEW c, IsBorrow(c, left, right, width),
         NEW outs, NEW n \in Nat, LessAnswered(outs, n, c, left, right), n = GateCount(width)
  PROVE  SubLTBits(left, right, outs).borrow = IF ValueOf(left) < ValueOf(right) THEN 1 ELSE 0
<1>1. PICK borrow :
        /\ IsBorrowWire(borrow, right, outs, width)
        /\ ComparisonWithBorrow(SubLTBits(left, right, outs), left, right, outs, borrow)
  BY ComparisonHasBorrows DEF LessAnswered
<1>2. SubLTBits(left, right, outs).borrow = c[width]
  <2>1. Len(left) = width /\ width \in 1..width /\ 2 * width - 1 <= n
    BY DEF GateCount
  <2>2. \A b \in 1..width : 2 * b - 1 <= n => borrow[b] = c[b]
    BY <1>1, BorrowsAreRight
  <2> QED
    BY <1>1, <2>1, <2>2 DEF ComparisonWithBorrow
<1>3. PICK v : IsValue(v, left, width) /\ ValueOf(left) = v[1]
  BY ValueOfBits
<1>4. PICK u : IsValue(u, right, width) /\ ValueOf(right) = u[1]
  BY ValueOfBits
<1>5. c \in [0..width -> Bits] /\ c[0] = 0 /\ c[width] \in Bits
  <2>1. width \in 0..width
    OBVIOUS
  <2> QED
    BY <2>1 DEF IsBorrow
<1> DEFINE Less(b) == v[b] < u[b] + c[b - 1]
           T == {b \in 1..(width + 1) : c[width] = 1 <=> Less(b)}
<1>6. width + 1 \in T
  <2>1. v[width + 1] = 0 /\ u[width + 1] = 0 /\ (width + 1) - 1 = width
    BY <1>3, <1>4 DEF IsValue
  <2>2. Less(width + 1) <=> 0 < c[width]
    BY <1>5, <2>1 DEF Bits
  <2> QED
    BY <1>5, <2>2 DEF Bits
<1>7. \A b \in 1..(width + 1) : b \in T /\ b > 1 => b - 1 \in T
  <2> SUFFICES ASSUME NEW a \in 1..(width + 1), a \in T, a > 1
               PROVE  c[width] = 1 <=> Less(a - 1)
    OBVIOUS
  <2> DEFINE b == a - 1
  <2>1. b \in 1..width /\ b + 1 = a /\ b + 1 \in 1..(width + 1) /\ b \in 0..width /\ b - 1 \in 0..width
    OBVIOUS
  <2>2. c[width] = 1 <=> v[b + 1] < u[b + 1] + c[b]
    BY <2>1
  <2> HIDE DEF b
  <2> DEFINE l == left[b]
             r == right[b]
             vs == v[b + 1]
             us == u[b + 1]
             i == c[b - 1]
             d == c[b]
  <2>3. /\ l \in Bits /\ r \in Bits /\ i \in Bits /\ d \in Bits /\ vs \in Nat /\ us \in Nat
        /\ d = Borrowed(l, r, i)
        /\ v[b] = l + 2 * vs /\ u[b] = r + 2 * us
    BY <1>3, <1>4, <1>5, <2>1 DEF IsValue, IsBorrow
  <2>4. Less(b) <=> l + 2 * vs < r + 2 * us + i
    BY <2>3
  <2> HIDE DEF l, r, vs, us, i, d, Less
  <2>5. (l + 2 * vs < r + 2 * us + i) <=> (vs < us + d)
    BY <2>3, FullComparison
  <2> QED
    BY <2>2, <2>4, <2>5 DEF vs, us, d, b
<1>8. 1..(width + 1) \subseteq T
  <2> HIDE DEF T
  <2>1. width + 1 \in Nat
    OBVIOUS
  <2> QED
    BY <1>6, <1>7, <2>1, InductionDown
<1>9. c[width] = 1 <=> v[1] < u[1]
  <2>1. 1 \in 1..(width + 1) /\ 1 - 1 = 0
    OBVIOUS
  <2>2. v[1] \in Nat /\ u[1] \in Nat
    BY <1>3, <1>4, <2>1 DEF IsValue
  <2>3. c[width] = 1 <=> v[1] < u[1] + c[0]
    BY <1>8, <2>1
  <2> QED
    BY <1>5, <2>2, <2>3
<1> QED
  BY <1>2, <1>3, <1>4, <1>5, <1>9 DEF Bits

-----------------------------------------------------------------------------
(* The life of a circuit: it begins without answers, each gate's product    *)
(* is the next answer, and with the last one the circuit has its result.    *)

\* The first n of these answers are those the adder, or the comparison, needs.
AddsSoFar(outs, n, left, right) ==
  \E c : IsCarry(c, left, right, Len(left)) /\ SumAnswered(outs, n, c, left, right)

ComparesSoFar(outs, n, left, right) ==
  \E c : IsBorrow(c, left, right, Len(left)) /\ LessAnswered(outs, n, c, left, right)

\* Answers that begin with the first n of these.
Begins(outs, n, more) ==
  more \in Seq(Int) /\ n <= Len(more) /\ \A k \in 1..n : more[k] = outs[k]

LEMMA CircuitsBegin ==
  ASSUME NEW width \in Nat, NEW left \in [1..width -> Bits], NEW right \in [1..width -> Bits],
         NEW outs \in Seq(Int)
  PROVE  AddsSoFar(outs, 0, left, right) /\ ComparesSoFar(outs, 0, left, right)
<1>1. Len(left) = width
  OBVIOUS
<1>2. PICK c : IsCarry(c, left, right, width)
  BY CarriesExist
<1>3. PICK d : IsBorrow(d, left, right, width)
  BY BorrowsExist
<1>4. SumAnswered(outs, 0, c, left, right) /\ LessAnswered(outs, 0, d, left, right)
  BY DEF SumAnswered, LessAnswered
<1> QED
  BY <1>1, <1>2, <1>3, <1>4 DEF AddsSoFar, ComparesSoFar

LEMMA AnswersSoFar ==
  ASSUME NEW outs, NEW n, NEW left, NEW right,
         AddsSoFar(outs, n, left, right) \/ ComparesSoFar(outs, n, left, right)
  PROVE  outs \in Seq(Int) /\ n \in Nat /\ n <= Len(outs)
  BY DEF AddsSoFar, ComparesSoFar, SumAnswered, LessAnswered

\* One more answer, at the end.
LEMMA OneMoreAnswer ==
  ASSUME NEW outs \in Seq(Int), NEW out \in Int
  PROVE  /\ Begins(outs, Len(outs), Append(outs, out))
         /\ Len(Append(outs, out)) = Len(outs) + 1
         /\ Append(outs, out)[Len(outs) + 1] = out
  BY DEF Begins

\* The next gate has a bit for its selector, and its product is what is needed.
LEMMA AdderGoesOn ==
  ASSUME NEW width \in Nat \ {0}, NEW left \in [1..width -> Bits], NEW right \in [1..width -> Bits],
         NEW outs, NEW n \in Nat, AddsSoFar(outs, n, left, right), n < GateCount(width)
  PROVE  LET call == AddBits(left, right, outs).calls[n + 1]
             out == GateOutput(call.x, call.y)
         IN /\ call.y \in Bits /\ out \in Field
            /\ \A more : Begins(outs, n, more) /\ n + 1 <= Len(more) /\ more[n + 1] = out
                           => AddsSoFar(more, n + 1, left, right)
<1> DEFINE call == AddBits(left, right, outs).calls[n + 1]
           out == GateOutput(call.x, call.y)
<1>1. Len(left) = width
  OBVIOUS
<1>2. PICK c : IsCarry(c, left, right, width) /\ SumAnswered(outs, n, c, left, right)
  BY <1>1 DEF AddsSoFar
<1>3. Asks(call, SumAnswer(c, left, right, n + 1))
  BY <1>2, AdderAsks
<1> HIDE DEF call
<1>4. /\ call.y \in Bits /\ out = SumAnswer(c, left, right, n + 1)
      /\ out \in Bits
  BY <1>3, BitWires DEF Asks, Bits
<1>5. Bits \subseteq Field
  BY OddOrder DEF Bits, Field
<1> HIDE DEF out
<1>6. ASSUME NEW more, Begins(outs, n, more), n + 1 <= Len(more), more[n + 1] = out
      PROVE  AddsSoFar(more, n + 1, left, right)
  <2>1. n \in Nat /\ n + 1 \in 0..Len(more)
    BY <1>2, <1>6 DEF SumAnswered, Begins
  <2>2. \A k \in 1..n : more[k] = SumAnswer(c, left, right, k)
    BY <1>2, <1>6 DEF SumAnswered, Begins
  <2>3. \A k \in 1..(n + 1) : more[k] = SumAnswer(c, left, right, k)
    BY <1>4, <1>6, <2>1, <2>2
  <2>4. SumAnswered(more, n + 1, c, left, right)
    BY <1>6, <2>1, <2>3 DEF SumAnswered, Begins
  <2> QED
    BY <1>1, <1>2, <2>4 DEF AddsSoFar
<1> QED
  BY <1>4, <1>5, <1>6 DEF call, out

\* The next gate has a bit for its selector, and its product is what is needed.
LEMMA ComparisonGoesOn ==
  ASSUME NEW width \in Nat \ {0}, NEW left \in [1..width -> Bits], NEW right \in [1..width -> Bits],
         NEW outs, NEW n \in Nat, ComparesSoFar(outs, n, left, right), n < GateCount(width)
  PROVE  LET call == SubLTBits(left, right, outs).calls[n + 1]
             out == GateOutput(call.x, call.y)
         IN /\ call.y \in Bits /\ out \in Field
            /\ \A more : Begins(outs, n, more) /\ n + 1 <= Len(more) /\ more[n + 1] = out
                           => ComparesSoFar(more, n + 1, left, right)
<1> DEFINE call == SubLTBits(left, right, outs).calls[n + 1]
           out == GateOutput(call.x, call.y)
<1>1. Len(left) = width
  OBVIOUS
<1>2. PICK c : IsBorrow(c, left, right, width) /\ LessAnswered(outs, n, c, left, right)
  BY <1>1 DEF ComparesSoFar
<1>3. Asks(call, LessAnswer(c, left, right, n + 1))
  BY <1>2, ComparisonAsks
<1> HIDE DEF call
<1>4. /\ call.y \in Bits /\ out = LessAnswer(c, left, right, n + 1)
      /\ out \in Bits
  BY <1>3, BitWires DEF Asks, Bits
<1>5. Bits \subseteq Field
  BY OddOrder DEF Bits, Field
<1> HIDE DEF out
<1>6. ASSUME NEW more, Begins(outs, n, more), n + 1 <= Len(more), more[n + 1] = out
      PROVE  ComparesSoFar(more, n + 1, left, right)
  <2>1. n \in Nat /\ n + 1 \in 0..Len(more)
    BY <1>2, <1>6 DEF LessAnswered, Begins
  <2>2. \A k \in 1..n : more[k] = LessAnswer(c, left, right, k)
    BY <1>2, <1>6 DEF LessAnswered, Begins
  <2>3. \A k \in 1..(n + 1) : more[k] = LessAnswer(c, left, right, k)
    BY <1>4, <1>6, <2>1, <2>2
  <2>4. LessAnswered(more, n + 1, c, left, right)
    BY <1>6, <2>1, <2>3 DEF LessAnswered, Begins
  <2> QED
    BY <1>1, <1>2, <2>4 DEF ComparesSoFar
<1> QED
  BY <1>4, <1>5, <1>6 DEF call, out

\* Each of the first n answers is the product of the call it answers.
Answers(outs, n, calls) ==
  /\ outs \in Seq(Int) /\ n <= Len(outs)
  /\ \A k \in 1..n : outs[k] = GateOutput(calls[k].x, calls[k].y)

\* Those who replay an adder know no more of the answers than this.
LEMMA AdderReplayed ==
  ASSUME NEW width \in Nat \ {0}, NEW left \in [1..width -> Bits], NEW right \in [1..width -> Bits],
         NEW outs, Answers(outs, GateCount(width), AddBits(left, right, outs).calls)
  PROVE  AddsSoFar(outs, GateCount(width), left, right)
<1> DEFINE g == GateCount(width)
           T == {n \in Nat : n <= g => AddsSoFar(outs, n, left, right)}
<1>1. g \in Nat
  BY DEF GateCount
<1> HIDE DEF g
<1>2. /\ outs \in Seq(Int) /\ Len(outs) \in Nat /\ g <= Len(outs)
      /\ \A k \in 1..g : outs[k] = GateOutput(AddBits(left, right, outs).calls[k].x,
                                              AddBits(left, right, outs).calls[k].y)
  BY DEF Answers, g
<1>3. 0 \in T
  BY <1>2, CircuitsBegin
<1>4. \A n \in Nat : n \in T => n + 1 \in T
  <2> SUFFICES ASSUME NEW n \in Nat, n \in T, n + 1 <= g PROVE AddsSoFar(outs, n + 1, left, right)
    OBVIOUS
  <2>1. AddsSoFar(outs, n, left, right) /\ n < GateCount(width) /\ n + 1 \in 1..g /\ n + 1 <= Len(outs)
    BY <1>1, <1>2 DEF g
  <2>2. \A more : /\ Begins(outs, n, more) /\ n + 1 <= Len(more)
                  /\ more[n + 1] = GateOutput(AddBits(left, right, outs).calls[n + 1].x,
                                              AddBits(left, right, outs).calls[n + 1].y)
                  => AddsSoFar(more, n + 1, left, right)
    BY <2>1, AdderGoesOn
  <2>3. Begins(outs, n, outs)
    BY <1>2, <2>1 DEF Begins
  <2>4. outs[n + 1] = GateOutput(AddBits(left, right, outs).calls[n + 1].x,
                                 AddBits(left, right, outs).calls[n + 1].y)
    BY <1>2, <2>1
  <2> QED
    BY <2>1, <2>2, <2>3, <2>4, Zenon
<1>5. Nat \subseteq T
  <2> HIDE DEF T
  <2> QED
    BY <1>3, <1>4, Induction
<1> QED
  BY <1>1, <1>5 DEF g

\* Every call of an adder that was answered is one of bits, and its answer the
\* product.
LEMMA AdderAnswered ==
  ASSUME NEW width \in Nat \ {0}, NEW left \in [1..width -> Bits], NEW right \in [1..width -> Bits],
         NEW outs, AddsSoFar(outs, GateCount(width), left, right),
         NEW k \in 1..GateCount(width)
  PROVE  LET call == AddBits(left, right, outs).calls[k] IN
         call.y \in Bits /\ outs[k] = GateOutput(call.x, call.y) /\ outs[k] \in Bits
<1> DEFINE call == AddBits(left, right, outs).calls[k]
           n == k - 1
<1>1. Len(left) = width /\ GateCount(width) \in Nat
  BY DEF GateCount
<1>2. PICK c : IsCarry(c, left, right, width) /\ SumAnswered(outs, GateCount(width), c, left, right)
  BY <1>1 DEF AddsSoFar
<1>3. n \in Nat /\ n < GateCount(width) /\ n + 1 = k
  BY <1>1
<1> HIDE DEF n
<1>4. SumAnswered(outs, n, c, left, right)
  BY <1>1, <1>2, <1>3 DEF SumAnswered
<1>5. Asks(AddBits(left, right, outs).calls[n + 1], SumAnswer(c, left, right, n + 1))
  BY <1>2, <1>3, <1>4, AdderAsks
<1>6. Asks(call, SumAnswer(c, left, right, k))
  BY <1>3, <1>5
<1>7. outs[k] = SumAnswer(c, left, right, k)
  BY <1>2 DEF SumAnswered
<1> HIDE DEF call
<1>8. call.y \in Bits /\ outs[k] = GateOutput(call.x, call.y) /\ outs[k] \in Bits
  BY <1>6, <1>7, BitWires DEF Asks, Bits
<1> QED
  BY <1>8 DEF call

\* Those who replay a comparison know no more of the answers than this.
LEMMA ComparisonReplayed ==
  ASSUME NEW width \in Nat \ {0}, NEW left \in [1..width -> Bits], NEW right \in [1..width -> Bits],
         NEW outs, Answers(outs, GateCount(width), SubLTBits(left, right, outs).calls)
  PROVE  ComparesSoFar(outs, GateCount(width), left, right)
<1> DEFINE g == GateCount(width)
           T == {n \in Nat : n <= g => ComparesSoFar(outs, n, left, right)}
<1>1. g \in Nat
  BY DEF GateCount
<1> HIDE DEF g
<1>2. /\ outs \in Seq(Int) /\ Len(outs) \in Nat /\ g <= Len(outs)
      /\ \A k \in 1..g : outs[k] = GateOutput(SubLTBits(left, right, outs).calls[k].x,
                                              SubLTBits(left, right, outs).calls[k].y)
  BY DEF Answers, g
<1>3. 0 \in T
  BY <1>2, CircuitsBegin
<1>4. \A n \in Nat : n \in T => n + 1 \in T
  <2> SUFFICES ASSUME NEW n \in Nat, n \in T, n + 1 <= g PROVE ComparesSoFar(outs, n + 1, left, right)
    OBVIOUS
  <2>1. ComparesSoFar(outs, n, left, right) /\ n < GateCount(width) /\ n + 1 \in 1..g /\ n + 1 <= Len(outs)
    BY <1>1, <1>2 DEF g
  <2>2. \A more : /\ Begins(outs, n, more) /\ n + 1 <= Len(more)
                  /\ more[n + 1] = GateOutput(SubLTBits(left, right, outs).calls[n + 1].x,
                                              SubLTBits(left, right, outs).calls[n + 1].y)
                  => ComparesSoFar(more, n + 1, left, right)
    BY <2>1, ComparisonGoesOn
  <2>3. Begins(outs, n, outs)
    BY <1>2, <2>1 DEF Begins
  <2>4. outs[n + 1] = GateOutput(SubLTBits(left, right, outs).calls[n + 1].x,
                                 SubLTBits(left, right, outs).calls[n + 1].y)
    BY <1>2, <2>1
  <2> QED
    BY <2>1, <2>2, <2>3, <2>4, Zenon
<1>5. Nat \subseteq T
  <2> HIDE DEF T
  <2> QED
    BY <1>3, <1>4, Induction
<1> QED
  BY <1>1, <1>5 DEF g

\* Every call of a comparison that was answered is one of bits, and its answer the
\* product.
LEMMA ComparisonAnswered ==
  ASSUME NEW width \in Nat \ {0}, NEW left \in [1..width -> Bits], NEW right \in [1..width -> Bits],
         NEW outs, ComparesSoFar(outs, GateCount(width), left, right),
         NEW k \in 1..GateCount(width)
  PROVE  LET call == SubLTBits(left, right, outs).calls[k] IN
         call.y \in Bits /\ outs[k] = GateOutput(call.x, call.y) /\ outs[k] \in Bits
<1> DEFINE call == SubLTBits(left, right, outs).calls[k]
           n == k - 1
<1>1. Len(left) = width /\ GateCount(width) \in Nat
  BY DEF GateCount
<1>2. PICK c : IsBorrow(c, left, right, width) /\ LessAnswered(outs, GateCount(width), c, left, right)
  BY <1>1 DEF ComparesSoFar
<1>3. n \in Nat /\ n < GateCount(width) /\ n + 1 = k
  BY <1>1
<1> HIDE DEF n
<1>4. LessAnswered(outs, n, c, left, right)
  BY <1>1, <1>2, <1>3 DEF LessAnswered
<1>5. Asks(SubLTBits(left, right, outs).calls[n + 1], LessAnswer(c, left, right, n + 1))
  BY <1>2, <1>3, <1>4, ComparisonAsks
<1>6. Asks(call, LessAnswer(c, left, right, k))
  BY <1>3, <1>5
<1>7. outs[k] = LessAnswer(c, left, right, k)
  BY <1>2 DEF LessAnswered
<1> HIDE DEF call
<1>8. call.y \in Bits /\ outs[k] = GateOutput(call.x, call.y) /\ outs[k] \in Bits
  BY <1>6, <1>7, BitWires DEF Asks, Bits
<1> QED
  BY <1>8 DEF call

\* Answers beyond the last gate do not matter.
LEMMA AdderIgnoresMore ==
  ASSUME NEW width \in Nat \ {0}, NEW left \in [1..width -> Bits], NEW right \in [1..width -> Bits],
         NEW outs, AddsSoFar(outs, GateCount(width), left, right),
         NEW more, Begins(outs, GateCount(width), more)
  PROVE  /\ AddsSoFar(more, GateCount(width), left, right)
         /\ AddBits(left, right, more) = AddBits(left, right, outs)
<1> DEFINE n == GateCount(width)
<1>1. Len(left) = width /\ n \in Nat /\ n = 2 * width - 1
  BY DEF GateCount
<1>2. PICK c : IsCarry(c, left, right, width) /\ SumAnswered(outs, n, c, left, right)
  BY <1>1 DEF AddsSoFar
<1> HIDE DEF n
<1>3. /\ outs \in Seq(Int) /\ n <= Len(outs) /\ more \in Seq(Int) /\ n <= Len(more)
      /\ \A k \in 1..n : more[k] = outs[k]
  BY <1>1, <1>2 DEF SumAnswered, Begins, n
<1>4. SumAnswered(more, n, c, left, right)
  <2>1. \A k \in 1..n : outs[k] = SumAnswer(c, left, right, k)
    BY <1>2 DEF SumAnswered
  <2>2. \A k \in 1..n : more[k] = SumAnswer(c, left, right, k)
    BY <1>3, <2>1
  <2> QED
    BY <1>1, <1>3, <2>2 DEF SumAnswered
<1>5. \A k \in 1..n : Answer(more, k) = Answer(outs, k)
  <2>1. n \in Nat
    BY <1>1
  <2>2. \A k \in 1..n : k \in DOMAIN more /\ k \in DOMAIN outs
    BY ONLY <1>3, <2>1
  <2> QED
    BY ONLY <1>3, <2>2 DEF Answer
<1>6. PICK carry : /\ IsCarryWire(carry, left, right, outs, width)
                   /\ AddBits(left, right, outs) = AdderWithCarry(left, right, outs, carry)
  BY <1>3, AdderHasCarries
<1>7. PICK other : /\ IsCarryWire(other, left, right, more, width)
                   /\ AddBits(left, right, more) = AdderWithCarry(left, right, more, other)
  BY <1>3, AdderHasCarries
<1>8. \A b \in 1..width : carry[b] = other[b]
  <2>1. \A b \in 1..width : 2 * b - 1 <= n
    BY <1>1
  <2>2. \A b \in 1..width : 2 * b - 1 <= n => carry[b] = c[b]
    BY <1>1, <1>2, <1>6, CarriesAreRight
  <2>3. \A b \in 1..width : 2 * b - 1 <= n => other[b] = c[b]
    BY <1>1, <1>4, <1>2, <1>7, CarriesAreRight
  <2> QED
    BY <2>1, <2>2, <2>3
<1>9. AddBits(left, right, more).calls = AddBits(left, right, outs).calls
  <2> DEFINE Call(o, f, k) ==
               IF k = 1 THEN Gate(1, "CARRY", left[1], right[1])
               ELSE IF k % 2 = 0 THEN Gate(k \div 2 + 1, "PAIR_PRODUCT", left[k \div 2 + 1], right[k \div 2 + 1])
               ELSE Gate(k \div 2 + 1, "CARRY_PRODUCT",
                         XorWithProduct(left[k \div 2 + 1], right[k \div 2 + 1],
                                        Answer(o, 2 * (k \div 2 + 1) - 2)), f[(k \div 2 + 1) - 1])
  <2>1. /\ AddBits(left, right, outs).calls = [k \in 1..n |-> Call(outs, carry, k)]
        /\ AddBits(left, right, more).calls = [k \in 1..n |-> Call(more, other, k)]
    BY <1>1, <1>6, <1>7 DEF AdderWithCarry, n
  <2>2. ASSUME NEW k \in 1..n PROVE Call(outs, carry, k) = Call(more, other, k)
    <3>1. CASE k % 2 = 0 \/ k = 1
      BY <3>1
    <3>2. CASE k % 2 # 0 /\ k # 1
      <4>1. (k \div 2 + 1) - 1 \in 1..width /\ 2 * (k \div 2 + 1) - 2 \in 1..n
        BY <1>1, <3>2
      <4>2. /\ Answer(more, 2 * (k \div 2 + 1) - 2) = Answer(outs, 2 * (k \div 2 + 1) - 2)
            /\ carry[(k \div 2 + 1) - 1] = other[(k \div 2 + 1) - 1]
        BY <1>5, <1>8, <4>1
      <4> QED
        BY <4>2, Zenon
    <3> QED
      BY <3>1, <3>2
  <2> HIDE DEF Call
  <2> QED
    BY <2>1, <2>2
<1>10. AddBits(left, right, more).output = AddBits(left, right, outs).output
  <2> DEFINE Out(o, f, b) ==
               IF b = 1 THEN XorWithProduct(left[1], right[1], Answer(o, 1))
               ELSE IF b <= width THEN SumWire(left, right, o, b, f[b - 1])
               ELSE f[width]
  <2>1. /\ AddBits(left, right, outs).output = [b \in 1..(width + 1) |-> Out(outs, carry, b)]
        /\ AddBits(left, right, more).output = [b \in 1..(width + 1) |-> Out(more, other, b)]
    BY <1>1, <1>6, <1>7 DEF AdderWithCarry
  <2>2. ASSUME NEW b \in 1..(width + 1) PROVE Out(outs, carry, b) = Out(more, other, b)
    <3>1. CASE b = 1
      <4>1. 1 \in 1..n
        BY <1>1
      <4>2. Answer(more, 1) = Answer(outs, 1)
        BY <1>5, <4>1
      <4> QED
        BY <3>1, <4>2
    <3>2. CASE b # 1 /\ b <= width
      <4>1. b - 1 \in 1..width /\ 2 * b - 2 \in 1..n /\ 2 * b - 1 \in 1..n
        BY <1>1, <3>2
      <4>2. /\ Answer(more, 2 * b - 2) = Answer(outs, 2 * b - 2)
            /\ Answer(more, 2 * b - 1) = Answer(outs, 2 * b - 1)
            /\ carry[b - 1] = other[b - 1]
        BY <1>5, <1>8, <4>1
      <4>3. SumWire(left, right, outs, b, carry[b - 1]) = SumWire(left, right, more, b, other[b - 1])
        BY <4>2, Zenon DEF SumWire
      <4> QED
        BY <3>2, <4>3
    <3>3. CASE b # 1 /\ ~(b <= width)
      <4>1. width \in 1..width
        OBVIOUS
      <4>2. carry[width] = other[width]
        BY <1>8, <4>1
      <4> QED
        BY <3>3, <4>2
    <3> QED
      BY <3>1, <3>2, <3>3
  <2> HIDE DEF Out
  <2> QED
    BY <2>1, <2>2
<1>11. AddBits(left, right, more) = AddBits(left, right, outs)
  <2>1. /\ AddBits(left, right, more) = [calls |-> AddBits(left, right, more).calls,
                                         output |-> AddBits(left, right, more).output]
        /\ AddBits(left, right, outs) = [calls |-> AddBits(left, right, outs).calls,
                                         output |-> AddBits(left, right, outs).output]
    BY <1>6, <1>7 DEF AdderWithCarry
  <2> QED
    BY <1>9, <1>10, <2>1, Zenon
<1> QED
  BY <1>1, <1>2, <1>4, <1>11 DEF AddsSoFar, n

LEMMA ComparisonIgnoresMore ==
  ASSUME NEW width \in Nat \ {0}, NEW left \in [1..width -> Bits], NEW right \in [1..width -> Bits],
         NEW outs, ComparesSoFar(outs, GateCount(width), left, right),
         NEW more, Begins(outs, GateCount(width), more)
  PROVE  /\ ComparesSoFar(more, GateCount(width), left, right)
         /\ SubLTBits(left, right, more).calls = SubLTBits(left, right, outs).calls
         /\ SubLTBits(left, right, more).borrow = SubLTBits(left, right, outs).borrow
<1> DEFINE n == GateCount(width)
<1>1. Len(left) = width /\ n \in Nat /\ n = 2 * width - 1
  BY DEF GateCount
<1>2. PICK c : IsBorrow(c, left, right, width) /\ LessAnswered(outs, n, c, left, right)
  BY <1>1 DEF ComparesSoFar
<1> HIDE DEF n
<1>3. /\ outs \in Seq(Int) /\ n <= Len(outs) /\ more \in Seq(Int) /\ n <= Len(more)
      /\ \A k \in 1..n : more[k] = outs[k]
  BY <1>1, <1>2 DEF LessAnswered, Begins, n
<1>4. LessAnswered(more, n, c, left, right)
  <2>1. \A k \in 1..n : outs[k] = LessAnswer(c, left, right, k)
    BY <1>2 DEF LessAnswered
  <2>2. \A k \in 1..n : more[k] = LessAnswer(c, left, right, k)
    BY <1>3, <2>1
  <2> QED
    BY <1>1, <1>3, <2>2 DEF LessAnswered
<1>5. \A k \in 1..n : Answer(more, k) = Answer(outs, k)
  <2>1. n \in Nat
    BY <1>1
  <2>2. \A k \in 1..n : k \in DOMAIN more /\ k \in DOMAIN outs
    BY ONLY <1>3, <2>1
  <2> QED
    BY ONLY <1>3, <2>2 DEF Answer
<1>6. PICK borrow :
        /\ IsBorrowWire(borrow, right, outs, width)
        /\ ComparisonWithBorrow(SubLTBits(left, right, outs), left, right, outs, borrow)
  BY <1>3, ComparisonHasBorrows
<1>7. PICK other :
        /\ IsBorrowWire(other, right, more, width)
        /\ ComparisonWithBorrow(SubLTBits(left, right, more), left, right, more, other)
  BY <1>3, ComparisonHasBorrows
<1>8. \A b \in 1..width : borrow[b] = other[b]
  <2>1. \A b \in 1..width : 2 * b - 1 <= n
    BY <1>1
  <2>4. IsBorrowWire(borrow, right, outs, width) /\ IsBorrowWire(other, right, more, width)
    BY <1>6, <1>7
  <2>2. \A b \in 1..width : 2 * b - 1 <= n => borrow[b] = c[b]
    BY <1>1, <1>2, <2>4, BorrowsAreRight
  <2>3. \A b \in 1..width : 2 * b - 1 <= n => other[b] = c[b]
    BY <1>1, <1>2, <1>4, <2>4, BorrowsAreRight
  <2> QED
    BY <2>1, <2>2, <2>3
<1>9. SubLTBits(left, right, more).calls = SubLTBits(left, right, outs).calls
  <2> DEFINE Call(o, f, k) ==
               IF k = 1 THEN Gate(1, "PRODUCT", left[1], right[1])
               ELSE IF k % 2 = 0 THEN Gate(k \div 2 + 1, "Y_BORROW", right[k \div 2 + 1], f[(k \div 2 + 1) - 1])
               ELSE Gate(k \div 2 + 1, "X_PRODUCT", left[k \div 2 + 1],
                         XorWithProduct(right[k \div 2 + 1], f[(k \div 2 + 1) - 1],
                                        Answer(o, 2 * (k \div 2 + 1) - 2)))
  <2>1. /\ SubLTBits(left, right, outs).calls = [k \in 1..n |-> Call(outs, borrow, k)]
        /\ SubLTBits(left, right, more).calls = [k \in 1..n |-> Call(more, other, k)]
    BY <1>1, <1>6, <1>7 DEF ComparisonWithBorrow, n
  <2>2. ASSUME NEW k \in 1..n PROVE Call(outs, borrow, k) = Call(more, other, k)
    <3>1. CASE k = 1
      BY <3>1
    <3>2. CASE k # 1
      <4>1. (k \div 2 + 1) - 1 \in 1..width /\ 2 * (k \div 2 + 1) - 2 \in 1..n
        BY <1>1, <3>2
      <4>2. /\ Answer(more, 2 * (k \div 2 + 1) - 2) = Answer(outs, 2 * (k \div 2 + 1) - 2)
            /\ borrow[(k \div 2 + 1) - 1] = other[(k \div 2 + 1) - 1]
        BY <1>5, <1>8, <4>1
      <4> QED
        BY <4>2, Zenon
    <3> QED
      BY <3>1, <3>2
  <2> HIDE DEF Call
  <2> QED
    BY <2>1, <2>2
<1>10. SubLTBits(left, right, more).borrow = SubLTBits(left, right, outs).borrow
  <2>1. width \in 1..width
    OBVIOUS
  <2> QED
    BY <1>1, <1>6, <1>7, <1>8, <2>1 DEF ComparisonWithBorrow
<1> QED
  BY <1>1, <1>2, <1>4, <1>9, <1>10 DEF ComparesSoFar, n

(* A complete adder (addBits, dag_add_bits): for every width and every odd  *)
(* subgroup order, its output wires are bits, one more than its operands    *)
(* have, and their value is the sum of the operands' values.                *)
THEOREM AdderIsExact ==
  ASSUME NEW width \in Nat \ {0}, NEW left \in [1..width -> Bits], NEW right \in [1..width -> Bits],
         NEW outs, AddsSoFar(outs, GateCount(width), left, right)
  PROVE  Adds(AddBits(left, right, outs).output, left, right, width)
<1>1. PICK c : IsCarry(c, left, right, width) /\ SumAnswered(outs, GateCount(width), c, left, right)
  <2>1. Len(left) = width
    OBVIOUS
  <2> QED
    BY <2>1 DEF AddsSoFar
<1>2. GateCount(width) \in Nat
  BY DEF GateCount
<1> QED
  BY <1>1, <1>2, AdderAdds

(* A complete comparison (subLTBits, dag_sub_lt_bits): for every width and  *)
(* every odd subgroup order, its last borrow is one exactly if the left     *)
(* operand is less than the right one.                                      *)
THEOREM ComparisonIsExact ==
  ASSUME NEW width \in Nat \ {0}, NEW left \in [1..width -> Bits], NEW right \in [1..width -> Bits],
         NEW outs, ComparesSoFar(outs, GateCount(width), left, right)
  PROVE  SubLTBits(left, right, outs).borrow = IF ValueOf(left) < ValueOf(right) THEN 1 ELSE 0
<1>1. PICK c : IsBorrow(c, left, right, width) /\ LessAnswered(outs, GateCount(width), c, left, right)
  <2>1. Len(left) = width
    OBVIOUS
  <2> QED
    BY <2>1 DEF ComparesSoFar
<1>2. GateCount(width) \in Nat
  BY DEF GateCount
<1> QED
  BY <1>1, <1>2, ComparisonDecides

-----------------------------------------------------------------------------
(***************************************************************************)
(* The gate numbers of the parallel tally are unique, whatever the number  *)
(* of voters, the width of their vectors, and the order the workers run in.*)
(*                                                                         *)
(* The argument: the workers of a level number their gates in blocks of    *)
(* one node's gates, so the blocks do not overlap as long as no worker     *)
(* runs more gates than its node has; and the blocks in the order of the   *)
(* nodes are exactly the places their records take in the journal.         *)
(***************************************************************************)

\* A journal that can be appended to, and a level that can run: it has nodes,
\* each has gates, and no worker has more answers than its node has gates.
LevelOK ==
  /\ stage \in Stages
  /\ DOMAIN journal = 1..Len(journal)
  /\ Len(journal) \in Nat
  /\ Running =>
       /\ Len(frontier) \in Nat \ {0}
       /\ stage = "aggregate" => Len(frontier) > 1
       /\ Len(frontier[1]) \in Nat \ {0}
       /\ DOMAIN workers = 1..NodeCount
       /\ \A p \in 1..NodeCount :
            /\ DOMAIN workers[p] = {"outs", "failed"}
            /\ Len(workers[p].outs) \in 0..NodeGates
            /\ DOMAIN workers[p].outs = 1..Len(workers[p].outs)

\* The journal is numbered from 1, and the next number is the one after it.
NumbersOK ==
  stage # "failed" =>
    /\ nextGateId = Len(journal) + 1
    /\ \A i \in 1..Len(journal) : journal[i].gateIndex = i

Inv == LevelOK /\ NumbersOK

-----------------------------------------------------------------------------
\* Where a place of a block lies: its block, and its place in the block.
LEMMA BlockOfPlace ==
  ASSUME NEW size \in Nat \ {0}, NEW count \in Nat, NEW i \in 1..(count * size)
  PROVE  /\ ((i - 1) \div size) + 1 \in 1..count
         /\ ((i - 1) % size) + 1 \in 1..size
         /\ ((i - 1) \div size) * size + ((i - 1) % size) = i - 1
  OBVIOUS

\* Places of different blocks, or different places, are different.
LEMMA BlocksAreDisjoint ==
  ASSUME NEW size \in Nat \ {0}, NEW p \in Nat, NEW q \in Nat,
         NEW k \in 1..size, NEW l \in 1..size,
         p * size + k = q * size + l
  PROVE  p = q /\ k = l
<1>1. ASSUME NEW a \in Nat, NEW b \in Nat, NEW c \in 1..size, NEW d \in 1..size, a < b
      PROVE  a * size + c < b * size + d
  <2>1. a * size + size <= b * size
    <3>1. b = a + 1 + (b - a - 1) /\ b - a - 1 \in Nat
      BY <1>1
    <3>2. b * size = a * size + size + (b - a - 1) * size
      BY <3>1
    <3>3. (b - a - 1) * size \in Nat
      BY <3>1
    <3> QED
      BY <3>2, <3>3
  <2> QED
    BY <2>1
<1>2. p = q
  BY <1>1
<1> QED
  BY <1>2

\* What is appended follows what was there.
LEMMA Appended ==
  ASSUME NEW s, NEW t, DOMAIN s = 1..Len(s), Len(s) \in Nat,
         NEW n \in Nat, DOMAIN t = 1..n, Len(t) = n
  PROVE  /\ DOMAIN (s \o t) = 1..Len(s \o t)
         /\ Len(s \o t) = Len(s) + n
         /\ \A i \in 1..Len(s) : (s \o t)[i] = s[i]
         /\ \A i \in 1..n : (s \o t)[Len(s) + i] = t[i]
  OBVIOUS

\* A level has nodes, a node has gates.
LEMMA LevelHasGates ==
  ASSUME LevelOK, Running
  PROVE  NodeCount \in Nat \ {0} /\ NodeGates \in Nat \ {0}
  BY DEF LevelOK, NodeCount, NodeGates, GateCount, Running

LEMMA InitInv == Init => Inv
  <1> SUFFICES ASSUME Init PROVE Inv
    OBVIOUS
  <1> election \in Elections
    BY DEF Init
  <1>1. /\ Len(frontier) \in Nat \ {0}
        /\ Len(frontier[1]) \in Nat \ {0}
    <2>1. election.inputs \in Seq(Seq(Bits)) /\ Len(election.inputs) > 0 /\ Len(election.inputs[1]) > 0
      BY ElectionsAreRequests
    <2> QED
      BY <2>1 DEF Init
  <1>2. LevelOK
    <2>1. CASE Len(frontier) > 1
      <3>1. stage = "aggregate" /\ workers = [p \in 1..(Len(frontier) \div 2) |-> Idle]
        BY <2>1 DEF Init, StageOf, Launch
      <3>2. NodeCount = Len(frontier) \div 2 /\ NodeCount \in Nat \ {0} /\ NodeGates \in Nat
        BY <1>1, <2>1, <3>1 DEF NodeCount, NodeGates, GateCount
      <3>3. \A p \in 1..NodeCount : workers[p] = Idle
        BY <3>1, <3>2
      <3>4. DOMAIN workers = 1..NodeCount
        BY <3>1, <3>2
      <3>5. ASSUME NEW p \in 1..NodeCount
            PROVE  /\ DOMAIN workers[p] = {"outs", "failed"}
                   /\ Len(workers[p].outs) \in 0..NodeGates
                   /\ DOMAIN workers[p].outs = 1..Len(workers[p].outs)
        BY <3>2, <3>3 DEF Idle
      <3>6. DOMAIN journal = 1..Len(journal) /\ Len(journal) \in Nat
        BY DEF Init
      <3> QED
        BY <1>1, <2>1, <3>1, <3>4, <3>5, <3>6 DEF LevelOK, Stages
    <2>2. CASE ~(Len(frontier) > 1)
      <3>1. stage = "compare" /\ workers = [p \in 1..1 |-> Idle]
        BY <2>2 DEF Init, StageOf, Launch
      <3> QED
        BY <1>1, <3>1 DEF Init, LevelOK, Idle, Stages, NodeCount, NodeGates, GateCount
    <2> QED
      BY <2>1, <2>2
  <1>3. NumbersOK
    BY DEF Init, NumbersOK
  <1> QED
    BY <1>2, <1>3 DEF Inv

-----------------------------------------------------------------------------
LEMMA RunGateInv ==
  ASSUME Inv, Running, NEW p \in 1..NodeCount, RunGate(p)
  PROVE  Inv'
<1>1. /\ UNCHANGED <<stage, frontier, nextGateId, journal, election, depth, result>>
      /\ Running' /\ NodeCount' = NodeCount /\ NodeGates' = NodeGates
  BY DEF RunGate, Running, NodeCount, NodeGates
<1>2. PICK out : workers' = [workers EXCEPT ![p].outs = Append(@, out)]
  BY DEF RunGate
<1>3. NodeGates \in Nat /\ Len(workers[p].outs) \in 0..(NodeGates - 1)
  BY LevelHasGates DEF Inv, LevelOK, RunGate, Done
<1>4. LevelOK'
  <2>1. DOMAIN workers' = 1..NodeCount
    BY <1>2 DEF Inv, LevelOK
  <2>2. ASSUME NEW q \in 1..NodeCount
        PROVE  /\ DOMAIN workers'[q] = {"outs", "failed"}
               /\ Len(workers'[q].outs) \in 0..NodeGates
               /\ DOMAIN workers'[q].outs = 1..Len(workers'[q].outs)
    <3>1. CASE q = p
      <4>1. workers'[q].outs = Append(workers[p].outs, out) /\ workers'[q].failed = workers[p].failed
        BY <1>2, <3>1 DEF Inv, LevelOK
      <4>2. DOMAIN workers'[q] = {"outs", "failed"}
        BY <1>2, <3>1 DEF Inv, LevelOK
      <4> QED
        BY <1>3, <3>1, <4>1, <4>2 DEF Inv, LevelOK
    <3>2. CASE q # p
      BY <1>2, <3>2 DEF Inv, LevelOK
    <3> QED
      BY <3>1, <3>2
  <2> QED
    BY <1>1, <2>1, <2>2 DEF Inv, LevelOK
<1>5. NumbersOK'
  BY <1>1 DEF Inv, NumbersOK
<1> QED
  BY <1>4, <1>5 DEF Inv

LEMMA GateFailsInv ==
  ASSUME Inv, Running, NEW p \in 1..NodeCount, GateFails(p)
  PROVE  Inv'
<1>1. /\ UNCHANGED <<stage, frontier, nextGateId, journal>>
      /\ Running' /\ NodeCount' = NodeCount /\ NodeGates' = NodeGates
  BY DEF GateFails, Running, NodeCount, NodeGates
<1>2. workers' = [workers EXCEPT ![p].failed = TRUE]
  BY DEF GateFails
<1>3. ASSUME NEW q \in 1..NodeCount
      PROVE  /\ DOMAIN workers'[q] = {"outs", "failed"}
             /\ workers'[q].outs = workers[q].outs
  BY <1>2 DEF Inv, LevelOK
<1>4. LevelOK'
  BY <1>1, <1>2, <1>3 DEF Inv, LevelOK
<1>5. NumbersOK'
  BY <1>1 DEF Inv, NumbersOK
<1> QED
  BY <1>4, <1>5 DEF Inv

\* The records of a level, one block per node, continue the numbers.
LEMMA BlocksContinueNumbers ==
  ASSUME Inv, Running, Succeeded,
         NEW blocks, blocks = InNodeOrder([p \in 1..NodeCount |-> Records(p)], NodeGates)
  PROVE  /\ DOMAIN blocks = 1..(NodeCount * NodeGates)
         /\ Len(blocks) = NodeCount * NodeGates
         /\ NodeCount * NodeGates \in Nat
         /\ \A i \in 1..(NodeCount * NodeGates) : blocks[i].gateIndex = nextGateId + i - 1
<1> DEFINE r == [p \in 1..NodeCount |-> Records(p)]
<1>1. NodeCount \in Nat \ {0} /\ NodeGates \in Nat \ {0}
  BY LevelHasGates DEF Inv
<1>2. Len(r) = NodeCount
  BY <1>1
<1>3. NodeCount * NodeGates \in Nat
  BY <1>1
<1>4. DOMAIN blocks = 1..(NodeCount * NodeGates) /\ Len(blocks) = NodeCount * NodeGates
  <2>1. DOMAIN blocks = 1..(NodeCount * NodeGates)
    BY <1>2 DEF InNodeOrder
  <2> QED
    BY <1>3, <2>1
<1>5. ASSUME NEW i \in 1..(NodeCount * NodeGates)
      PROVE  blocks[i].gateIndex = nextGateId + i - 1
  <2> DEFINE p == ((i - 1) \div NodeGates) + 1
             k == ((i - 1) % NodeGates) + 1
  <2>1. p \in 1..NodeCount /\ k \in 1..NodeGates /\ (p - 1) * NodeGates + (k - 1) = i - 1
    BY <1>1, BlockOfPlace
  <2>2. blocks[i] = Records(p)[k]
    <3>1. blocks[i] = r[p][k]
      BY <1>2, <1>3 DEF InNodeOrder
    <3>2. r[p] = Records(p)
      BY <2>1
    <3> QED
      BY <3>1, <3>2
  <2>3. DOMAIN workers[p].outs = 1..NodeGates
    BY <2>1 DEF Inv, LevelOK, Succeeded, Done
  <2>4. Records(p)[k].gateIndex = StartGateId(p) + k - 1
    BY <2>1, <2>3 DEF Records, Record
  <2>5. nextGateId \in Int
    BY DEF Inv, LevelOK, NumbersOK, Running
  <2> HIDE DEF p, k
  <2> QED
    BY <1>1, <2>1, <2>2, <2>4, <2>5 DEF StartGateId
<1> QED
  BY <1>3, <1>4, <1>5

\* The sum of two vectors is one bit wider than they are.
LEMMA SumHasOneMoreBit ==
  ASSUME NEW left, NEW right, NEW outs
  PROVE  DOMAIN AddBits(left, right, outs).output = 1..(Len(left) + 1)
  BY Zenon DEF AddBits

\* A level, or a node, that was launched on vectors with a bit at least.
LEMMA LaunchedLevelOK ==
  ASSUME NEW vectors, Len(vectors) \in Nat \ {0}, Len(vectors[1]) \in Nat \ {0},
         frontier' = vectors, stage' = StageOf(vectors), workers' = Launch(vectors),
         DOMAIN journal' = 1..Len(journal'), Len(journal') \in Nat
  PROVE  LevelOK'
<1>1. NodeGates' \in Nat
  BY DEF NodeGates, GateCount
<1>2. NodeCount' \in Nat \ {0} /\ workers' = [p \in 1..NodeCount' |-> Idle]
  <2>1. CASE Len(vectors) > 1
    BY <2>1 DEF NodeCount, StageOf, Launch
  <2>2. CASE ~(Len(vectors) > 1)
    BY <2>2 DEF NodeCount, StageOf, Launch
  <2> QED
    BY <2>1, <2>2
<1>3. ASSUME NEW p \in 1..NodeCount'
      PROVE  /\ DOMAIN workers'[p] = {"outs", "failed"}
             /\ Len(workers'[p].outs) \in 0..NodeGates'
             /\ DOMAIN workers'[p].outs = 1..Len(workers'[p].outs)
  BY <1>1, <1>2 DEF Idle
<1>4. stage' \in Stages /\ (stage' = "aggregate" => Len(frontier') > 1)
  BY DEF StageOf, Stages
<1>5. DOMAIN workers' = 1..NodeCount'
  BY <1>2
<1> QED
  BY <1>3, <1>4, <1>5 DEF LevelOK

LEMMA CollectLevelInv ==
  ASSUME Inv, CollectLevel
  PROVE  Inv'
<1> DEFINE blocks == InNodeOrder([p \in 1..NodeCount |-> Records(p)], NodeGates)
           next == [p \in 1..NodeCount |-> Circuit(p).output]
<1>1. Running /\ Succeeded /\ stage = "aggregate"
  BY DEF CollectLevel, Running
<1>2. /\ journal' = journal \o blocks /\ nextGateId' = nextGateId + NodeCount * NodeGates
      /\ frontier' = next /\ stage' = StageOf(next) /\ workers' = Launch(next)
  BY DEF CollectLevel
<1>3. /\ DOMAIN blocks = 1..(NodeCount * NodeGates)
      /\ Len(blocks) = NodeCount * NodeGates
      /\ NodeCount * NodeGates \in Nat
      /\ \A i \in 1..(NodeCount * NodeGates) : blocks[i].gateIndex = nextGateId + i - 1
  BY <1>1, BlocksContinueNumbers
<1>4. NodeCount \in Nat \ {0} /\ Len(next) = NodeCount
  BY <1>1, LevelHasGates DEF Inv
<1>5. Len(next[1]) \in Nat \ {0}
  <2>1. next[1] = AddBits(frontier[1], frontier[2], workers[1].outs).output
    BY <1>1, <1>4 DEF Circuit
  <2>2. DOMAIN next[1] = 1..(Len(frontier[1]) + 1)
    BY <2>1, SumHasOneMoreBit
  <2> QED
    BY <1>1, <2>2 DEF Inv, LevelOK
<1> HIDE DEF blocks, next
<1>6. /\ DOMAIN journal' = 1..Len(journal') /\ Len(journal') = Len(journal) + NodeCount * NodeGates
      /\ \A i \in 1..Len(journal) : journal'[i] = journal[i]
      /\ \A i \in 1..(NodeCount * NodeGates) : journal'[Len(journal) + i] = blocks[i]
  <2>1. DOMAIN journal = 1..Len(journal) /\ Len(journal) \in Nat
    BY DEF Inv, LevelOK
  <2> QED
    BY <1>2, <1>3, <2>1, Appended, SMTT(30)
<1>7. LevelOK'
  BY <1>2, <1>3, <1>4, <1>5, <1>6, LaunchedLevelOK DEF Inv, LevelOK
<1>8. NumbersOK'
  <2>1. nextGateId = Len(journal) + 1 /\ Len(journal) \in Nat
    BY <1>1 DEF Inv, NumbersOK, LevelOK
  <2>2. ASSUME NEW i \in 1..Len(journal') PROVE journal'[i].gateIndex = i
    <3>1. CASE i <= Len(journal)
      BY <1>1, <1>3, <1>6, <2>1, <3>1 DEF Inv, NumbersOK
    <3>2. CASE i > Len(journal)
      <4>1. i - Len(journal) \in 1..(NodeCount * NodeGates)
        BY <1>3, <1>6, <2>1, <3>2
      <4>2. journal'[i] = blocks[i - Len(journal)]
        BY <1>6, <2>1, <4>1
      <4> QED
        BY <1>3, <2>1, <4>1, <4>2
    <3> QED
      BY <1>3, <1>6, <2>1, <3>1, <3>2
  <2> QED
    BY <1>2, <1>3, <1>6, <2>1, <2>2 DEF NumbersOK
<1> QED
  BY <1>7, <1>8 DEF Inv

LEMMA ConcludeInv ==
  ASSUME Inv, Conclude
  PROVE  Inv'
<1>1. /\ stage = "compare" /\ Running /\ Succeeded /\ stage' = "done" /\ ~Running'
      /\ journal' = journal \o Records(1) /\ nextGateId' = nextGateId + NodeGates
  BY DEF Conclude, Running
<1>2. NodeGates \in Nat /\ NodeCount = 1
  BY <1>1, LevelHasGates DEF Inv, NodeCount
<1>3. DOMAIN Records(1) = 1..NodeGates /\ Len(Records(1)) = NodeGates
  <2>1. DOMAIN workers[1].outs = 1..NodeGates
    BY <1>1, <1>2 DEF Inv, LevelOK, Succeeded, Done
  <2>2. DOMAIN Records(1) = 1..NodeGates
    BY <2>1 DEF Records
  <2> QED
    BY <1>2, <2>2
<1>4. nextGateId = Len(journal) + 1 /\ Len(journal) \in Nat /\ DOMAIN journal = 1..Len(journal)
  BY <1>1 DEF Inv, NumbersOK, LevelOK
<1>5. ASSUME NEW k \in 1..NodeGates PROVE Records(1)[k].gateIndex = Len(journal) + k
  <2>1. k \in DOMAIN workers[1].outs
    BY <1>3 DEF Records
  <2>2. Records(1)[k].gateIndex = StartGateId(1) + k - 1
    BY <2>1 DEF Records, Record
  <2> QED
    BY <1>2, <1>4, <2>2 DEF StartGateId
<1>6. /\ DOMAIN journal' = 1..Len(journal') /\ Len(journal') = Len(journal) + NodeGates
      /\ \A i \in 1..Len(journal) : journal'[i] = journal[i]
      /\ \A k \in 1..NodeGates : journal'[Len(journal) + k] = Records(1)[k]
  BY <1>1, <1>2, <1>3, <1>4, Appended
<1>7. ASSUME NEW i \in 1..Len(journal') PROVE journal'[i].gateIndex = i
  <2>1. CASE i <= Len(journal)
    BY <1>1, <1>4, <1>6, <2>1 DEF Inv, NumbersOK
  <2>2. CASE i > Len(journal)
    <3>1. i - Len(journal) \in 1..NodeGates
      BY <1>2, <1>4, <1>6, <2>2
    <3>2. journal'[i] = Records(1)[i - Len(journal)]
      BY <1>4, <1>6, <3>1
    <3> QED
      BY <1>4, <1>5, <3>1, <3>2
  <2> QED
    BY <1>2, <1>4, <1>6, <2>1, <2>2
<1>8. Len(journal') \in Nat
  BY <1>2, <1>4, <1>6
<1>9. LevelOK'
  BY <1>1, <1>6, <1>8 DEF LevelOK, Stages
<1>10. nextGateId' = Len(journal') + 1
  BY <1>1, <1>2, <1>4, <1>6
<1>11. NumbersOK'
  BY <1>7, <1>10 DEF NumbersOK
<1> QED
  BY <1>9, <1>11 DEF Inv

LEMMA GiveUpInv ==
  ASSUME Inv, GiveUp
  PROVE  Inv'
<1>1. stage' = "failed" /\ journal' = <<>> /\ ~Running'
  BY DEF GiveUp, Running
<1> QED
  BY <1>1 DEF Inv, LevelOK, NumbersOK, Stages

LEMMA NextInv == Inv /\ [Next]_vars => Inv'
<1> SUFFICES ASSUME Inv, [Next]_vars PROVE Inv'
  OBVIOUS
<1>1. CASE Running /\ \E p \in 1..NodeCount : RunGate(p) \/ GateFails(p)
  BY <1>1, RunGateInv, GateFailsInv
<1>2. CASE CollectLevel
  BY <1>2, CollectLevelInv
<1>3. CASE Conclude
  BY <1>3, ConcludeInv
<1>4. CASE GiveUp
  BY <1>4, GiveUpInv
<1>5. CASE UNCHANGED vars
  BY <1>5 DEF vars, Inv, LevelOK, NumbersOK, Running, NodeCount, NodeGates
<1> QED
  BY <1>1, <1>2, <1>3, <1>4, <1>5 DEF Next

\* The blocks of a level do not overlap, nor do they reach back.
LEMMA InvImpliesUnique == Inv => GateIdsUnique
<1> SUFFICES ASSUME Inv, stage # "failed" PROVE GateIdsUnique
  BY DEF GateIdsUnique
<1>1. nextGateId = Len(journal) + 1 /\ \A i \in 1..Len(journal) : journal[i].gateIndex = i
  BY DEF Inv, NumbersOK
<1>2. ASSUME Running, NEW p \in 1..NodeCount, NEW q \in 1..NodeCount,
             NEW k \in DOMAIN Records(p), NEW l \in DOMAIN Records(q)
      PROVE  /\ Records(p)[k].gateIndex > Len(journal)
             /\ Records(p)[k].gateIndex = Records(q)[l].gateIndex => p = q /\ k = l
  <2>1. NodeCount \in Nat /\ NodeGates \in Nat \ {0} /\ Len(journal) \in Nat
    BY <1>2, LevelHasGates DEF Inv, LevelOK
  <2>2. k \in DOMAIN workers[p].outs /\ l \in DOMAIN workers[q].outs
    BY DEF Records
  <2>3. k \in 1..NodeGates /\ l \in 1..NodeGates
    BY <1>2, <2>1, <2>2 DEF Inv, LevelOK
  <2>4. /\ Records(p)[k].gateIndex = StartGateId(p) + k - 1
        /\ Records(q)[l].gateIndex = StartGateId(q) + l - 1
    BY <2>2 DEF Records, Record
  <2>5. /\ Records(p)[k].gateIndex = Len(journal) + ((p - 1) * NodeGates + k)
        /\ Records(q)[l].gateIndex = Len(journal) + ((q - 1) * NodeGates + l)
        /\ (p - 1) * NodeGates \in Nat /\ (q - 1) * NodeGates \in Nat
    <3>1. (p - 1) * NodeGates \in Nat /\ (q - 1) * NodeGates \in Nat
      BY <2>1
    <3> QED
      BY <1>1, <2>1, <2>3, <2>4, <3>1 DEF StartGateId
  <2>6. Records(p)[k].gateIndex = Records(q)[l].gateIndex => p = q /\ k = l
    <3> SUFFICES ASSUME Records(p)[k].gateIndex = Records(q)[l].gateIndex PROVE p = q /\ k = l
      OBVIOUS
    <3>1. (p - 1) * NodeGates + k = (q - 1) * NodeGates + l
      <4> DEFINE a == (p - 1) * NodeGates
                 b == (q - 1) * NodeGates
      <4>1. Len(journal) + (a + k) = Len(journal) + (b + l) /\ a \in Nat /\ b \in Nat
        BY <2>5
      <4> HIDE DEF a, b
      <4>2. a + k = b + l
        BY <2>1, <2>3, <4>1
      <4> QED
        BY <4>2 DEF a, b
    <3>2. p - 1 = q - 1 /\ k = l
      BY <2>1, <2>3, <3>1, BlocksAreDisjoint
    <3> QED
      BY <2>1, <3>2
  <2> QED
    BY <2>1, <2>3, <2>5, <2>6
<1> QED
  BY <1>1, <1>2 DEF GateIdsUnique

(* In every run of the parallel tally each gate number names one gate, the  *)
(* journal is numbered from 1 in its order, and the number after the last   *)
(* gate, which names the final release's session, is unused.                *)
THEOREM GateNumbering == Spec => []GateIdsUnique
<1>1. Spec => []Inv
  BY InitInv, NextInv, PTL DEF Spec
<1> QED
  BY <1>1, InvImpliesUnique, PTL

-----------------------------------------------------------------------------
(***************************************************************************)
(* The parallel tally decides the weighted vote, for any number of voters  *)
(* that is a power of two, any width of their vectors, any odd subgroup    *)
(* order and any order the workers run in.                                 *)
(*                                                                         *)
(* The argument: while a level runs, the answers of every worker are the   *)
(* products that its circuit needs (AddsSoFar, ComparesSoFar), so that its *)
(* next selector is a bit, and its output, when it has one, the sum of its *)
(* two vectors.  Hence the vectors of every level are bits and sum to what *)
(* the ballots sum to; and the threshold fits the width of every level, as *)
(* it is at most what the vectors of the level can hold.                   *)
(***************************************************************************)

-----------------------------------------------------------------------------
(* Sums of sequences.                                                       *)

\* f[k] is the sum of the first k of s.
IsSum(f, s, n) ==
  /\ f \in [0..n -> Nat]
  /\ f[0] = 0
  /\ \A k \in 1..n : f[k] = f[k - 1] + s[k]

LEMMA SumOfSequence ==
  ASSUME NEW n \in Nat, NEW s \in [1..n -> Nat]
  PROVE  \E f : IsSum(f, s, n) /\ SumSeq(s) = f[n]
<1> DEFINE Equation(f) == f = [k \in 0..Len(s) |-> IF k = 0 THEN 0 ELSE f[k - 1] + s[k]]
    chosen == CHOOSE f : Equation(f)
<1>1. Len(s) = n
  OBVIOUS
<1>2. \E f : Equation(f)
  <2> DEFINE step == [k \in 0..n |-> [x \in Nat |-> IF k \in 1..n THEN x + s[k] ELSE 0]]
  <2>1. step \in [0..n -> [Nat -> Nat]]
    OBVIOUS
  <2>2. SolvableUp(0, n, Nat, 0, step)
    <3> HIDE DEF step
    <3>1. 0 \in Int /\ n \in Int /\ 0 \in Nat
      OBVIOUS
    <3> QED
      BY <2>1, <3>1, RecursionUp
  <2>3. PICK f \in [0..n -> Nat] :
          \A k \in 0..n : f[k] = IF k = 0 THEN 0 ELSE step[k][f[k - 1]]
    BY <2>2, Zenon DEF SolvableUp
  <2>4. ASSUME NEW k \in 0..n, k # 0 PROVE step[k][f[k - 1]] = f[k - 1] + s[k]
    <3>1. k \in 1..n /\ k - 1 \in 0..n
      BY <2>4
    <3> QED
      BY <3>1
  <2> HIDE DEF step
  <2>5. \A k \in 0..n : f[k] = IF k = 0 THEN 0 ELSE f[k - 1] + s[k]
    BY <2>3, <2>4
  <2>6. Equation(f)
    BY <1>1, <2>5
  <2> QED
    BY <2>6
<1>3. Equation(chosen)
  <2> HIDE DEF Equation
  <2> QED
    BY <1>2, Zenon
<1>4. SumSeq(s) = chosen[Len(s)]
  BY Zenon DEF SumSeq
<1> HIDE DEF chosen
<1>5. \A k \in 0..n : chosen[k] = IF k = 0 THEN 0 ELSE chosen[k - 1] + s[k]
  BY <1>1, <1>3
<1>6. chosen[0] = 0
  <2>1. 0 \in 0..n
    OBVIOUS
  <2> QED
    BY <1>5, <2>1
<1>7. \A k \in 1..n : chosen[k] = chosen[k - 1] + s[k]
  <2>1. \A k \in 1..n : k \in 0..n /\ k # 0
    OBVIOUS
  <2> QED
    BY <1>5, <2>1
<1>8. \A k \in 0..n : chosen[k] \in Nat
  <2> DEFINE T == {k \in Nat : k <= n => chosen[k] \in Nat}
  <2>1. 0 \in T
    BY <1>6
  <2>2. \A k \in Nat : k \in T => k + 1 \in T
    <3> SUFFICES ASSUME NEW k \in Nat, k \in T, k + 1 <= n PROVE chosen[k + 1] \in Nat
      OBVIOUS
    <3>1. k + 1 \in 1..n /\ (k + 1) - 1 = k /\ chosen[k] \in Nat
      OBVIOUS
    <3>2. chosen[k + 1] = chosen[k] + s[k + 1]
      BY <1>7, <3>1
    <3> QED
      BY <3>1, <3>2
  <2>3. Nat \subseteq T
    <3> HIDE DEF T
    <3> QED
      BY <2>1, <2>2, Induction
  <2> QED
    BY <2>3
<1>9. chosen \in [0..n -> Nat]
  <2>1. chosen = [k \in 0..n |-> chosen[k]]
    BY <1>1, <1>3
  <2> QED
    BY <1>8, <2>1
<1> QED
  BY <1>1, <1>4, <1>6, <1>7, <1>9 DEF IsSum

\* The sum of a sequence is any function that satisfies the equations.
LEMMA SumIs ==
  ASSUME NEW n \in Nat, NEW s \in [1..n -> Nat], NEW f, IsSum(f, s, n)
  PROVE  SumSeq(s) = f[n] /\ SumSeq(s) \in Nat
<1>1. PICK g : IsSum(g, s, n) /\ SumSeq(s) = g[n]
  BY SumOfSequence
<1> DEFINE T == {k \in Nat : k <= n => g[k] = f[k]}
<1>2. 0 \in T
  BY <1>1 DEF IsSum
<1>3. \A k \in Nat : k \in T => k + 1 \in T
  <2> SUFFICES ASSUME NEW k \in Nat, k \in T, k + 1 <= n PROVE g[k + 1] = f[k + 1]
    OBVIOUS
  <2>1. k + 1 \in 1..n /\ (k + 1) - 1 = k /\ g[k] = f[k]
    OBVIOUS
  <2>2. g[k + 1] = g[k] + s[k + 1] /\ f[k + 1] = f[k] + s[k + 1]
    BY <1>1, <2>1 DEF IsSum
  <2> QED
    BY <2>1, <2>2
<1>4. Nat \subseteq T
  <2> HIDE DEF T
  <2> QED
    BY <1>2, <1>3, Induction
<1>5. g[n] = f[n]
  BY <1>4
<1>6. g[n] \in Nat
  <2>1. n \in 0..n
    OBVIOUS
  <2> QED
    BY <1>1, <2>1 DEF IsSum
<1> QED
  BY <1>1, <1>5, <1>6

\* The sum of one number.
LEMMA SumOfOne ==
  ASSUME NEW s \in [1..1 -> Nat]
  PROVE  SumSeq(s) = s[1]
<1> DEFINE f == [k \in 0..1 |-> IF k = 0 THEN 0 ELSE s[1]]
<1>1. IsSum(f, s, 1)
  BY DEF IsSum
<1>2. f[1] = s[1] /\ 1 \in Nat
  OBVIOUS
<1> HIDE DEF f
<1> QED
  BY <1>1, <1>2, SumIs

\* Adding in pairs first changes nothing.
LEMMA SumOfPairs ==
  ASSUME NEW n \in Nat, NEW s \in [1..(2 * n) -> Nat], NEW t \in [1..n -> Nat],
         \A p \in 1..n : t[p] = s[2 * p - 1] + s[2 * p]
  PROVE  SumSeq(t) = SumSeq(s)
<1>1. 2 * n \in Nat
  OBVIOUS
<1>2. PICK f : IsSum(f, s, 2 * n) /\ SumSeq(s) = f[2 * n]
  BY <1>1, SumOfSequence
<1> DEFINE g == [k \in 0..n |-> f[2 * k]]
<1>3. IsSum(g, t, n)
  <2>1. g \in [0..n -> Nat] /\ g[0] = 0
    BY <1>2 DEF IsSum
  <2>2. ASSUME NEW k \in 1..n PROVE g[k] = g[k - 1] + t[k]
    <3>1. /\ 2 * k \in 1..(2 * n) /\ 2 * k - 1 \in 1..(2 * n) /\ k \in 0..n /\ k - 1 \in 0..n
          /\ (2 * k - 1) - 1 = 2 * (k - 1) /\ 2 * (k - 1) \in 0..(2 * n)
      OBVIOUS
    <3>2. /\ f[2 * k] = f[2 * k - 1] + s[2 * k]
          /\ f[2 * k - 1] = f[2 * (k - 1)] + s[2 * k - 1]
          /\ f[2 * (k - 1)] \in Nat
      BY <1>2, <3>1 DEF IsSum
    <3>3. g[k] = f[2 * k] /\ g[k - 1] = f[2 * (k - 1)]
      BY <3>1
    <3>4. s[2 * k] \in Nat /\ s[2 * k - 1] \in Nat /\ t[k] = s[2 * k - 1] + s[2 * k]
      BY <3>1
    <3> QED
      BY <3>2, <3>3, <3>4
  <2> HIDE DEF g
  <2> QED
    BY <2>1, <2>2 DEF IsSum
<1>4. g[n] = f[2 * n]
  OBVIOUS
<1> HIDE DEF g
<1>5. SumSeq(t) = g[n]
  BY <1>3, SumIs
<1> QED
  BY <1>2, <1>4, <1>5

-----------------------------------------------------------------------------
(* A level of the tree.                                                     *)

\* Vectors that a level may start from: of bits and all of one width, as many
\* as a balanced tree can add, summing to what the ballots sum to, and wide
\* enough for the threshold.
LevelVectors(vectors, count, width) ==
  /\ count \in Nat \ {0} /\ width \in Nat \ {0}
  /\ vectors \in [1..count -> [1..width -> Bits]]
  /\ IsPowerOfTwo(count)
  /\ SumSeq(Weights(vectors)) = TotalWeight
  /\ election.tau <= count * LargestWeight(width)

\* These answers are what the circuit of worker p needs.
HonestWith(outs, p) ==
  IF stage = "aggregate"
  THEN AddsSoFar(outs, Len(outs), frontier[2 * p - 1], frontier[2 * p])
  ELSE ComparesSoFar(outs, Len(outs), frontier[1], PublicBits(election.tau, Len(frontier[1])))

Honest(p) == HonestWith(workers[p].outs, p)

RightDecision == IF TotalWeight >= election.tau THEN 1 ELSE 0

VoteInv ==
  /\ election \in Elections
  /\ Running =>
       /\ LevelVectors(frontier, Len(frontier), Len(frontier[1]))
       /\ stage = "compare" => Len(frontier) = 1
       /\ \A p \in 1..NodeCount : Honest(p)
  /\ stage = "done" => result = <<RightDecision>>
  /\ stage # "done" => result = <<>>

TInv == Inv /\ VoteInv

\* Their lengths are what they are said to be.
LEMMA LevelLengths ==
  ASSUME NEW vectors, NEW count, NEW width, LevelVectors(vectors, count, width)
  PROVE  /\ Len(vectors) = count
         /\ \A v \in 1..count : vectors[v] \in [1..width -> Bits] /\ Len(vectors[v]) = width
         /\ Len(vectors[1]) = width
<1>1. count \in Nat \ {0} /\ width \in Nat \ {0} /\ vectors \in [1..count -> [1..width -> Bits]]
  BY DEF LevelVectors
<1>2. Len(vectors) = count /\ 1 \in 1..count
  BY <1>1
<1>3. ASSUME NEW v \in 1..count PROVE vectors[v] \in [1..width -> Bits] /\ Len(vectors[v]) = width
  <2>1. vectors[v] \in [1..width -> Bits]
    BY <1>1
  <2> QED
    BY <1>1, <2>1
<1> QED
  BY <1>2, <1>3

\* A power of two above one is twice a power of two.
LEMMA HalfIsPowerOfTwo ==
  ASSUME NEW n \in Nat, n > 1, IsPowerOfTwo(n)
  PROVE  n \div 2 \in Nat \ {0} /\ n = 2 * (n \div 2) /\ IsPowerOfTwo(n \div 2)
<1>1. n % 2 = 0
  <2>1. n \in 1..n /\ n % n = 0
    OBVIOUS
  <2> QED
    BY <2>1 DEF IsPowerOfTwo
<1> DEFINE m == n \div 2
<1>2. m \in Nat \ {0} /\ n = 2 * m
  BY <1>1
<1> HIDE DEF m
<1>3. ASSUME NEW d \in 1..m, m % d = 0 PROVE d = 1 \/ d % 2 = 0
  <2>1. n % d = 0 /\ d \in 1..n
    <3>1. m = d * (m \div d) /\ m \div d \in Nat
      BY <1>2, <1>3
    <3> DEFINE q == 2 * (m \div d)
    <3>2. n = d * q /\ q \in Nat
      BY <1>2, <3>1
    <3> HIDE DEF q
    <3>3. (d * q) % d = 0
      BY <3>2
    <3>4. n % d = 0
      BY <3>2, <3>3, Zenon
    <3> QED
      BY <1>2, <3>4
  <2> QED
    BY <2>1 DEF IsPowerOfTwo
<1>4. IsPowerOfTwo(m)
  BY <1>3 DEF IsPowerOfTwo
<1> QED
  BY <1>2, <1>4 DEF m

\* The request's own vectors are a level's.
LEMMA RequestIsLevel ==
  ASSUME election \in Elections
  PROVE  /\ LevelVectors(election.inputs, Len(election.inputs), Len(election.inputs[1]))
         /\ election.tau \in Nat
<1> DEFINE n == Len(election.inputs)
           w == Len(election.inputs[1])
<1>1. /\ election.inputs \in Seq(Seq(Bits)) /\ n > 0 /\ IsPowerOfTwo(n)
      /\ \A v \in 1..n : Len(election.inputs[v]) = w
      /\ w > 0 /\ election.tau \in Nat
  BY ElectionsAreRequests
<1>2. n \in Nat \ {0} /\ w \in Nat \ {0}
  <2>1. election.inputs[1] \in Seq(Bits)
    BY <1>1
  <2> QED
    BY <1>1, <2>1
<1>3. election.inputs \in [1..n -> [1..w -> Bits]]
  <2>1. election.inputs \in [1..n -> Seq(Bits)]
    BY <1>1
  <2>2. ASSUME NEW v \in 1..n PROVE election.inputs[v] \in [1..w -> Bits]
    <3>1. election.inputs[v] \in Seq(Bits) /\ Len(election.inputs[v]) = w
      BY <1>1, <2>1
    <3> QED
      BY <3>1
  <2> QED
    BY <2>1, <2>2
<1>4. election.tau <= n * LargestWeight(w)
  BY ThresholdsAreReachable
<1> QED
  BY <1>1, <1>2, <1>3, <1>4 DEF LevelVectors, TotalWeight

\* The values of a level's vectors are natural numbers.
LEMMA LevelWeights ==
  ASSUME NEW vectors, NEW count, NEW width, LevelVectors(vectors, count, width)
  PROVE  /\ Weights(vectors) \in [1..count -> Nat]
         /\ \A v \in 1..count : Weights(vectors)[v] = ValueOf(vectors[v])
<1>1. /\ width \in Nat /\ Len(vectors) = count
      /\ \A v \in 1..count : vectors[v] \in [1..width -> Bits]
  BY LevelLengths DEF LevelVectors
<1>2. \A v \in 1..count : ValueOf(vectors[v]) \in Nat
  <2> SUFFICES ASSUME NEW v \in 1..count PROVE ValueOf(vectors[v]) \in Nat
    OBVIOUS
  <2>1. PICK u : IsValue(u, vectors[v], width) /\ ValueOf(vectors[v]) = u[1]
    BY <1>1, ValueOfBits
  <2>2. 1 \in 1..(width + 1)
    BY <1>1
  <2> QED
    BY <2>1, <2>2 DEF IsValue
<1> QED
  BY <1>1, <1>2 DEF Weights

\* Where one vector is left, it is the sum.
LEMMA TheSumIsOne ==
  ASSUME NEW vectors, NEW count, NEW width, LevelVectors(vectors, count, width), count = 1
  PROVE  TotalWeight = ValueOf(vectors[1]) /\ ValueOf(vectors[1]) \in Nat
<1> DEFINE s == Weights(vectors)
<1>1. s \in [1..1 -> Nat] /\ s[1] = ValueOf(vectors[1])
  <2>1. s \in [1..count -> Nat] /\ \A v \in 1..count : s[v] = ValueOf(vectors[v])
    BY LevelWeights
  <2>2. 1 \in 1..count
    OBVIOUS
  <2> HIDE DEF s
  <2> QED
    BY <2>1, <2>2
<1>2. SumSeq(s) = TotalWeight
  BY DEF LevelVectors
<1> HIDE DEF s
<1> QED
  BY <1>1, <1>2, SumOfOne

\* The vectors that a finished level leaves are again a level's.
LEMMA NextLevelVectors ==
  ASSUME NEW vectors, NEW count, NEW width, LevelVectors(vectors, 2 * count, width),
         count \in Nat \ {0}, IsPowerOfTwo(count),
         NEW sums, sums = [p \in 1..count |-> sums[p]],
         \A p \in 1..count : Adds(sums[p], vectors[2 * p - 1], vectors[2 * p], width),
         election.tau \in Nat
  PROVE  LevelVectors(sums, count, width + 1)
<1>1. width \in Nat \ {0} /\ width + 1 \in Nat \ {0}
  BY DEF LevelVectors
<1>2. sums \in [1..count -> [1..(width + 1) -> Bits]]
  BY Zenon DEF Adds
<1>3. \A p \in 1..count : 2 * p - 1 \in 1..(2 * count) /\ 2 * p \in 1..(2 * count)
  OBVIOUS
<1>4. SumSeq(Weights(sums)) = TotalWeight
  <2> DEFINE s == Weights(vectors)
             t == Weights(sums)
  <2>1. s \in [1..(2 * count) -> Nat] /\ \A v \in 1..(2 * count) : s[v] = ValueOf(vectors[v])
    BY LevelWeights
  <2>2. Len(sums) = count
    BY <1>2
  <2>3. t = [p \in 1..count |-> ValueOf(sums[p])]
    BY <2>2 DEF Weights
  <2> HIDE DEF s, t
  <2>4. ASSUME NEW p \in 1..count
        PROVE  t[p] = s[2 * p - 1] + s[2 * p] /\ t[p] \in Nat
    <3>1. t[p] = ValueOf(vectors[2 * p - 1]) + ValueOf(vectors[2 * p])
      BY <2>3 DEF Adds
    <3>2. /\ s[2 * p - 1] = ValueOf(vectors[2 * p - 1]) /\ s[2 * p] = ValueOf(vectors[2 * p])
          /\ s[2 * p - 1] \in Nat /\ s[2 * p] \in Nat
      BY <1>3, <2>1
    <3> QED
      BY <3>1, <3>2
  <2>5. t \in [1..count -> Nat]
    BY <2>3, <2>4
  <2>6. SumSeq(t) = SumSeq(s)
    <3>1. count \in Nat /\ \A p \in 1..count : t[p] = s[2 * p - 1] + s[2 * p]
      BY <2>4
    <3> QED
      BY <2>1, <2>5, <3>1, SumOfPairs, Zenon
  <2> QED
    BY <2>6 DEF s, t, LevelVectors
<1>5. election.tau <= count * LargestWeight(width + 1)
  <2>1. /\ LargestWeight(width) \in Nat
        /\ LargestWeight(width + 1) = 1 + 2 * LargestWeight(width)
    BY <1>1, OneMoreOne DEF LargestWeight
  <2>2. election.tau <= (2 * count) * LargestWeight(width)
    BY DEF LevelVectors
  <2>3. \A h \in Nat : count * (1 + 2 * h) = count + (2 * count) * h
    OBVIOUS
  <2>4. \A h \in Nat : (2 * count) * h \in Nat
    OBVIOUS
  <2>5. count * LargestWeight(width + 1) = count + (2 * count) * LargestWeight(width)
    BY <2>1, <2>3
  <2> QED
    BY <2>1, <2>2, <2>4, <2>5
<1> QED
  BY <1>1, <1>2, <1>4, <1>5 DEF LevelVectors

-----------------------------------------------------------------------------
(* A running level.                                                         *)

LEMMA RunningLevel ==
  ASSUME TInv, Running, NEW width, width = Len(frontier[1])
  PROVE  /\ width \in Nat \ {0} /\ NodeGates = GateCount(width)
         /\ NodeCount \in Nat \ {0} /\ election.tau \in Nat
         /\ LevelVectors(frontier, Len(frontier), width)
         /\ stage = "aggregate" =>
              /\ Len(frontier) = 2 * NodeCount /\ IsPowerOfTwo(NodeCount)
              /\ \A p \in 1..NodeCount : /\ frontier[2 * p - 1] \in [1..width -> Bits]
                                         /\ frontier[2 * p] \in [1..width -> Bits]
         /\ stage # "aggregate" =>
              /\ stage = "compare" /\ NodeCount = 1 /\ Len(frontier) = 1
              /\ frontier[1] \in [1..width -> Bits]
              /\ PublicBits(election.tau, width) \in [1..width -> Bits]
              /\ ValueOf(PublicBits(election.tau, width)) = election.tau
<1>1. LevelVectors(frontier, Len(frontier), width)
  BY DEF TInv, VoteInv
<1>2. width \in Nat \ {0} /\ NodeGates = GateCount(width) /\ Len(frontier) \in Nat \ {0}
  BY <1>1 DEF LevelVectors, NodeGates
<1>3. NodeCount \in Nat \ {0} /\ election.tau \in Nat
  BY LevelHasGates, RequestIsLevel DEF TInv, Inv, VoteInv
<1>4. \A v \in 1..Len(frontier) : frontier[v] \in [1..width -> Bits]
  BY <1>1, LevelLengths
<1>5. ASSUME stage = "aggregate"
      PROVE  /\ Len(frontier) = 2 * NodeCount /\ IsPowerOfTwo(NodeCount)
             /\ \A p \in 1..NodeCount : /\ frontier[2 * p - 1] \in [1..width -> Bits]
                                        /\ frontier[2 * p] \in [1..width -> Bits]
  <2>1. Len(frontier) > 1 /\ IsPowerOfTwo(Len(frontier)) /\ NodeCount = Len(frontier) \div 2
    BY <1>1, <1>5 DEF TInv, Inv, LevelOK, LevelVectors, NodeCount
  <2>2. Len(frontier) = 2 * NodeCount /\ IsPowerOfTwo(NodeCount)
    BY <1>2, <2>1, HalfIsPowerOfTwo
  <2>3. \A p \in 1..NodeCount : 2 * p - 1 \in 1..Len(frontier) /\ 2 * p \in 1..Len(frontier)
    BY <1>3, <2>2
  <2> QED
    BY <1>4, <2>2, <2>3
<1>6. ASSUME stage # "aggregate"
      PROVE  /\ stage = "compare" /\ NodeCount = 1 /\ Len(frontier) = 1
             /\ frontier[1] \in [1..width -> Bits]
             /\ PublicBits(election.tau, width) \in [1..width -> Bits]
             /\ ValueOf(PublicBits(election.tau, width)) = election.tau
  <2>1. stage = "compare" /\ NodeCount = 1
    BY <1>6 DEF Running, NodeCount
  <2>2. Len(frontier) = 1
    BY <2>1 DEF TInv, VoteInv
  <2>3. election.tau <= ValueOf([b \in 1..width |-> 1])
    <3>1. election.tau <= 1 * LargestWeight(width)
      BY <1>1, <2>2 DEF LevelVectors
    <3>2. LargestWeight(width) = ValueOf([b \in 1..width |-> 1]) /\ LargestWeight(width) \in Nat
      BY <1>2, OneMoreOne DEF LargestWeight
    <3> QED
      BY <3>1, <3>2
  <2>4. /\ PublicBits(election.tau, width) \in [1..width -> Bits]
        /\ ValueOf(PublicBits(election.tau, width)) = election.tau
    BY <1>2, <1>3, <2>3, PublicBitsValue
  <2> QED
    BY <1>4, <2>1, <2>2, <2>4
<1> QED
  BY <1>1, <1>2, <1>3, <1>5, <1>6

\* The next gate of a worker is called with a bit, and answers what is needed.
LEMMA NextGate ==
  ASSUME TInv, Running, NEW p \in 1..NodeCount, ~Done(p)
  PROVE  LET call == Circuit(p).calls[Len(workers[p].outs) + 1] IN
         /\ call.y \in Bits
         /\ HonestWith(Append(workers[p].outs, GateOutput(call.x, call.y)), p)
<1> DEFINE width == Len(frontier[1])
           outs == workers[p].outs
           call == Circuit(p).calls[Len(outs) + 1]
           out == GateOutput(call.x, call.y)
<1>1. /\ width \in Nat \ {0} /\ NodeGates = GateCount(width)
      /\ stage = "aggregate" => /\ frontier[2 * p - 1] \in [1..width -> Bits]
                                /\ frontier[2 * p] \in [1..width -> Bits]
      /\ stage # "aggregate" => /\ frontier[1] \in [1..width -> Bits]
                                /\ PublicBits(election.tau, width) \in [1..width -> Bits]
  BY RunningLevel
<1>2. Len(outs) < GateCount(width)
  BY <1>1 DEF TInv, Inv, LevelOK, Done, GateCount
<1>3. HonestWith(outs, p)
  BY DEF TInv, VoteInv, Honest
<1>4. CASE stage = "aggregate"
  <2>1. AddsSoFar(outs, Len(outs), frontier[2 * p - 1], frontier[2 * p])
    BY <1>3, <1>4 DEF HonestWith
  <2>2. call = AddBits(frontier[2 * p - 1], frontier[2 * p], outs).calls[Len(outs) + 1]
    BY <1>4 DEF Circuit
  <2> HIDE DEF call, outs, width, out
  <2>3. /\ outs \in Seq(Int) /\ Len(outs) \in Nat
        /\ out \in Int
        /\ call.y \in Bits
        /\ \A more : Begins(outs, Len(outs), more) /\ Len(outs) + 1 <= Len(more)
                      /\ more[Len(outs) + 1] = out
                      => AddsSoFar(more, Len(outs) + 1, frontier[2 * p - 1], frontier[2 * p])
    <3>1. outs \in Seq(Int) /\ Len(outs) \in Nat
      BY <2>1, AnswersSoFar
    <3>2. /\ call.y \in Bits /\ GateOutput(call.x, call.y) \in Field
          /\ \A more : Begins(outs, Len(outs), more) /\ Len(outs) + 1 <= Len(more)
                        /\ more[Len(outs) + 1] = GateOutput(call.x, call.y)
                        => AddsSoFar(more, Len(outs) + 1, frontier[2 * p - 1], frontier[2 * p])
      BY <1>1, <1>2, <1>4, <2>1, <2>2, <3>1, AdderGoesOn
    <3>3. Field \subseteq Int
      BY DEF Field
    <3> QED
      BY <3>1, <3>2, <3>3 DEF out
  <2>4. AddsSoFar(Append(outs, out), Len(Append(outs, out)), frontier[2 * p - 1], frontier[2 * p])
    <3>1. /\ Begins(outs, Len(outs), Append(outs, out)) /\ Len(Append(outs, out)) = Len(outs) + 1
          /\ Append(outs, out)[Len(outs) + 1] = out
      BY <2>3, OneMoreAnswer
    <3> DEFINE more == Append(outs, out)
    <3>2. Len(outs) + 1 <= Len(more)
      BY <2>3, <3>1
    <3> HIDE DEF more
    <3>3. AddsSoFar(more, Len(outs) + 1, frontier[2 * p - 1], frontier[2 * p])
      BY <2>3, <3>1, <3>2, Zenon DEF more
    <3> QED
      BY <3>1, <3>3, Zenon DEF more
  <2> QED
    BY <1>4, <2>3, <2>4 DEF HonestWith, call, outs, out
<1>5. CASE stage # "aggregate"
  <2> DEFINE bits == PublicBits(election.tau, width)
  <2>1. ComparesSoFar(outs, Len(outs), frontier[1], bits)
    BY <1>3, <1>5 DEF HonestWith
  <2>2. call = SubLTBits(frontier[1], bits, outs).calls[Len(outs) + 1]
    BY <1>5 DEF Circuit
  <2> HIDE DEF call, outs, width, out
  <2>3. /\ outs \in Seq(Int) /\ Len(outs) \in Nat
        /\ out \in Int
        /\ call.y \in Bits
        /\ \A more : Begins(outs, Len(outs), more) /\ Len(outs) + 1 <= Len(more)
                      /\ more[Len(outs) + 1] = out
                      => ComparesSoFar(more, Len(outs) + 1, frontier[1], bits)
    <3>1. outs \in Seq(Int) /\ Len(outs) \in Nat
      BY <2>1, AnswersSoFar
    <3>2. /\ call.y \in Bits /\ GateOutput(call.x, call.y) \in Field
          /\ \A more : Begins(outs, Len(outs), more) /\ Len(outs) + 1 <= Len(more)
                        /\ more[Len(outs) + 1] = GateOutput(call.x, call.y)
                        => ComparesSoFar(more, Len(outs) + 1, frontier[1], bits)
      BY <1>1, <1>2, <1>5, <2>1, <2>2, <3>1, ComparisonGoesOn
    <3>3. Field \subseteq Int
      BY DEF Field
    <3> QED
      BY <3>1, <3>2, <3>3 DEF out
  <2>4. ComparesSoFar(Append(outs, out), Len(Append(outs, out)), frontier[1], bits)
    <3>1. /\ Begins(outs, Len(outs), Append(outs, out)) /\ Len(Append(outs, out)) = Len(outs) + 1
          /\ Append(outs, out)[Len(outs) + 1] = out
      BY <2>3, OneMoreAnswer
    <3> DEFINE more == Append(outs, out)
    <3>2. Len(outs) + 1 <= Len(more)
      BY <2>3, <3>1
    <3> HIDE DEF more
    <3>3. ComparesSoFar(more, Len(outs) + 1, frontier[1], bits)
      BY <2>3, <3>1, <3>2, Zenon DEF more
    <3> QED
      BY <3>1, <3>3, Zenon DEF more
  <2> QED
    BY <1>5, <2>3, <2>4 DEF HonestWith, call, outs, width, out
<1> QED
  BY <1>4, <1>5

\* What a worker that is done has found.
LEMMA NodeResult ==
  ASSUME TInv, Running, NEW p \in 1..NodeCount, Done(p)
  PROVE  /\ stage = "aggregate" =>
              Adds(Circuit(p).output, frontier[2 * p - 1], frontier[2 * p], Len(frontier[1]))
         /\ stage # "aggregate" =>
              Circuit(p).borrow = IF ValueOf(frontier[1]) < election.tau THEN 1 ELSE 0
<1> DEFINE width == Len(frontier[1])
           outs == workers[p].outs
<1>1. /\ width \in Nat \ {0} /\ NodeGates = GateCount(width)
      /\ stage = "aggregate" => /\ frontier[2 * p - 1] \in [1..width -> Bits]
                                /\ frontier[2 * p] \in [1..width -> Bits]
      /\ stage # "aggregate" => /\ frontier[1] \in [1..width -> Bits]
                                /\ PublicBits(election.tau, width) \in [1..width -> Bits]
                                /\ ValueOf(PublicBits(election.tau, width)) = election.tau
  BY RunningLevel
<1>2. Len(outs) = GateCount(width)
  BY <1>1 DEF Done
<1>3. HonestWith(outs, p)
  BY DEF TInv, VoteInv, Honest
<1>4. ASSUME stage = "aggregate"
      PROVE  Adds(Circuit(p).output, frontier[2 * p - 1], frontier[2 * p], width)
  <2>1. AddsSoFar(outs, Len(outs), frontier[2 * p - 1], frontier[2 * p])
    BY <1>3, <1>4 DEF HonestWith
  <2>2. Circuit(p) = AddBits(frontier[2 * p - 1], frontier[2 * p], outs)
    BY <1>4 DEF Circuit
  <2> HIDE DEF outs, width
  <2> QED
    BY <1>1, <1>2, <1>4, <2>1, <2>2, AdderIsExact
<1>5. ASSUME stage # "aggregate"
      PROVE  Circuit(p).borrow = IF ValueOf(frontier[1]) < election.tau THEN 1 ELSE 0
  <2> DEFINE bits == PublicBits(election.tau, width)
  <2>1. ComparesSoFar(outs, Len(outs), frontier[1], bits)
    BY <1>3, <1>5 DEF HonestWith
  <2>2. Circuit(p) = SubLTBits(frontier[1], bits, outs)
    BY <1>5 DEF Circuit
  <2> HIDE DEF outs, width, bits
  <2>3. SubLTBits(frontier[1], bits, outs).borrow = IF ValueOf(frontier[1]) < ValueOf(bits) THEN 1 ELSE 0
    BY <1>1, <1>2, <1>5, <2>1, ComparisonIsExact DEF bits
  <2> QED
    BY <1>1, <1>5, <2>2, <2>3 DEF bits
<1> QED
  BY <1>4, <1>5

-----------------------------------------------------------------------------
(* The invariant.                                                           *)

\* A level whose workers are about to start.
Launched ==
  /\ election \in Elections /\ result = <<>>
  /\ LevelVectors(frontier, Len(frontier), Len(frontier[1]))
  /\ stage = StageOf(frontier)
  /\ workers = Launch(frontier)

LEMMA LaunchedLevel == Launched => VoteInv
<1> SUFFICES ASSUME Launched PROVE VoteInv
  OBVIOUS
<1> DEFINE width == Len(frontier[1])
           count == Len(frontier)
<1>1. LevelVectors(frontier, count, width)
  BY DEF Launched
<1>2. count \in Nat \ {0} /\ width \in Nat \ {0} /\ frontier \in [1..count -> [1..width -> Bits]]
  BY <1>1 DEF LevelVectors
<1>3. election.tau \in Nat
  BY RequestIsLevel DEF Launched
<1>4. CASE count > 1
  <2>1. stage = "aggregate" /\ NodeCount = count \div 2 /\ workers = [p \in 1..NodeCount |-> Idle]
    BY <1>4 DEF Launched, StageOf, Launch, NodeCount
  <2>2. ASSUME NEW p \in 1..NodeCount PROVE Honest(p)
    <3>1. 2 * p - 1 \in 1..count /\ 2 * p \in 1..count
      BY <1>2, <2>1
    <3>2. frontier[2 * p - 1] \in [1..width -> Bits] /\ frontier[2 * p] \in [1..width -> Bits]
      BY <1>2, <3>1
    <3>3. workers[p].outs = <<>>
      BY <2>1 DEF Idle
    <3> HIDE DEF width, count
    <3>4. AddsSoFar(<<>>, 0, frontier[2 * p - 1], frontier[2 * p])
      <4>1. <<>> \in Seq(Int)
        OBVIOUS
      <4> QED
        BY <1>2, <3>2, <4>1, CircuitsBegin
    <3> QED
      BY <2>1, <3>3, <3>4 DEF Honest, HonestWith
  <2> QED
    BY <1>1, <2>1, <2>2 DEF Launched, VoteInv
<1>5. CASE ~(count > 1)
  <2>1. stage = "compare" /\ NodeCount = 1 /\ workers = [p \in 1..1 |-> Idle] /\ count = 1
    BY <1>2, <1>5 DEF Launched, StageOf, Launch, NodeCount
  <2> DEFINE bits == PublicBits(election.tau, width)
  <2>2. bits \in [1..width -> Bits]
    <3>1. election.tau <= ValueOf([b \in 1..width |-> 1])
      <4>1. election.tau <= 1 * LargestWeight(width)
        BY <1>1, <2>1 DEF LevelVectors
      <4>2. LargestWeight(width) = ValueOf([b \in 1..width |-> 1]) /\ LargestWeight(width) \in Nat
        BY <1>2, OneMoreOne DEF LargestWeight
      <4> QED
        BY <4>1, <4>2
    <3> QED
      BY <1>2, <1>3, <3>1, PublicBitsValue
  <2>3. Honest(1)
    <3>1. frontier[1] \in [1..width -> Bits]
      BY <1>2, <2>1
    <3>2. workers[1].outs = <<>>
      BY <2>1 DEF Idle
    <3> HIDE DEF bits, width
    <3>3. ComparesSoFar(<<>>, 0, frontier[1], bits)
      <4>1. <<>> \in Seq(Int)
        OBVIOUS
      <4> QED
        BY <1>2, <2>2, <3>1, <4>1, CircuitsBegin
    <3> QED
      BY <2>1, <3>2, <3>3 DEF Honest, HonestWith, bits, width
  <2> QED
    BY <1>1, <2>1, <2>3 DEF Launched, VoteInv
<1> QED
  BY <1>4, <1>5

LEMMA InitVote == Init => VoteInv
<1> SUFFICES ASSUME Init PROVE Launched
  BY LaunchedLevel
<1> QED
  BY RequestIsLevel DEF Init, Launched

LEMMA RunGateVote ==
  ASSUME TInv, Running, NEW p \in 1..NodeCount, RunGate(p)
  PROVE  VoteInv'
<1> DEFINE call == Circuit(p).calls[Len(workers[p].outs) + 1]
           out == GateOutput(call.x, call.y)
<1>1. /\ UNCHANGED <<election, stage, frontier, result>>
      /\ Running' /\ NodeCount' = NodeCount
      /\ ~Done(p) /\ workers' = [workers EXCEPT ![p].outs = Append(@, out)]
  BY DEF RunGate, Running, NodeCount
<1>2. HonestWith(Append(workers[p].outs, out), p)
  BY <1>1, NextGate
<1> HIDE DEF call, out
<1>3. ASSUME NEW q \in 1..NodeCount PROVE Honest(q)'
  <2>1. workers'[q].outs = IF q = p THEN Append(workers[p].outs, out) ELSE workers[q].outs
    BY <1>1 DEF TInv, Inv, LevelOK
  <2>2. Honest(q)
    BY DEF TInv, VoteInv
  <2>3. HonestWith(workers'[q].outs, q)
    BY <1>2, <2>1, <2>2 DEF Honest
  <2> QED
    BY <1>1, <2>3 DEF Honest, HonestWith
<1>4. LevelVectors(frontier, Len(frontier), Len(frontier[1]))'
  BY <1>1 DEF TInv, VoteInv, LevelVectors, TotalWeight
<1>5. /\ election' \in Elections /\ (stage' = "compare" => Len(frontier') = 1)
      /\ stage' # "done" /\ result' = <<>>
  BY <1>1 DEF TInv, VoteInv, Running
<1> QED
  BY <1>1, <1>3, <1>4, <1>5 DEF VoteInv

LEMMA GateFailsVote ==
  ASSUME TInv, Running, NEW p \in 1..NodeCount, GateFails(p)
  PROVE  VoteInv'
<1>1. /\ UNCHANGED <<election, stage, frontier, result>>
      /\ Running' /\ NodeCount' = NodeCount
      /\ workers' = [workers EXCEPT ![p].failed = TRUE]
  BY DEF GateFails, Running, NodeCount
<1>2. ASSUME NEW q \in 1..NodeCount PROVE Honest(q)'
  <2>1. workers'[q].outs = workers[q].outs
    BY <1>1 DEF TInv, Inv, LevelOK
  <2>2. HonestWith(workers[q].outs, q)
    BY DEF TInv, VoteInv, Honest
  <2> QED
    BY <1>1, <2>1, <2>2 DEF Honest, HonestWith
<1>3. LevelVectors(frontier, Len(frontier), Len(frontier[1]))'
  BY <1>1 DEF TInv, VoteInv, LevelVectors, TotalWeight
<1>4. /\ election' \in Elections /\ (stage' = "compare" => Len(frontier') = 1)
      /\ stage' # "done" /\ result' = <<>>
  BY <1>1 DEF TInv, VoteInv, Running
<1> QED
  BY <1>1, <1>2, <1>3, <1>4 DEF VoteInv

\* A level that is finished leaves the vectors of the next.
LEMMA CollectLevelVote ==
  ASSUME TInv, CollectLevel
  PROVE  VoteInv'
<1> DEFINE width == Len(frontier[1])
           next == [p \in 1..NodeCount |-> Circuit(p).output]
<1>1. /\ stage = "aggregate" /\ Running /\ Succeeded
      /\ frontier' = next /\ stage' = StageOf(next) /\ workers' = Launch(next)
      /\ UNCHANGED <<election, result>>
  BY DEF CollectLevel, Running
<1>2. /\ width \in Nat \ {0} /\ NodeCount \in Nat \ {0} /\ election.tau \in Nat
      /\ LevelVectors(frontier, Len(frontier), width)
      /\ Len(frontier) = 2 * NodeCount /\ IsPowerOfTwo(NodeCount)
  BY <1>1, RunningLevel
<1>3. ASSUME NEW p \in 1..NodeCount
      PROVE  Adds(next[p], frontier[2 * p - 1], frontier[2 * p], width)
  BY <1>1, NodeResult DEF Succeeded
<1>4. LevelVectors(next, NodeCount, width + 1)
  <2>1. next = [p \in 1..NodeCount |-> next[p]]
    OBVIOUS
  <2> HIDE DEF next, width
  <2> QED
    BY <1>2, <1>3, <2>1, NextLevelVectors
<1> HIDE DEF next
<1>5. Len(next) = NodeCount /\ Len(next[1]) = width + 1
  BY <1>4, LevelLengths
<1>6. LevelVectors(next, Len(next), Len(next[1]))
  BY <1>4, <1>5
<1>7. LevelVectors(frontier, Len(frontier), Len(frontier[1]))'
  BY <1>1, <1>6 DEF LevelVectors, TotalWeight
<1>8. Launched'
  BY <1>1, <1>7 DEF TInv, VoteInv, Launched
<1> QED
  BY <1>8, LaunchedLevel, PTL

\* What the comparison decides is the vote.
LEMMA ConcludeDecides ==
  ASSUME TInv, Conclude
  PROVE  /\ election' = election /\ stage' = "done" /\ stage = "compare"
         /\ result' = <<RightDecision>>
<1>1. /\ stage = "compare" /\ Running /\ Succeeded /\ election' = election /\ stage' = "done"
      /\ result' = <<DecisionFromBorrow(Circuit(1).borrow)>>
  BY DEF Conclude, Running
<1>2. /\ NodeCount = 1 /\ Len(frontier) = 1 /\ election.tau \in Nat
      /\ LevelVectors(frontier, Len(frontier), Len(frontier[1]))
  BY <1>1, RunningLevel
<1>3. Circuit(1).borrow = IF ValueOf(frontier[1]) < election.tau THEN 1 ELSE 0
  <2>1. 1 \in 1..NodeCount /\ Done(1)
    BY <1>1, <1>2 DEF Succeeded
  <2> QED
    BY <1>1, <2>1, NodeResult
<1>4. TotalWeight = ValueOf(frontier[1]) /\ ValueOf(frontier[1]) \in Nat
  BY <1>2, TheSumIsOne
<1>5. DecisionFromBorrow(1) = 0 /\ DecisionFromBorrow(0) = 1
  BY OddOrder DEF DecisionFromBorrow, AffineSubtract
<1>6. DecisionFromBorrow(Circuit(1).borrow) = RightDecision
  BY <1>2, <1>3, <1>4, <1>5 DEF RightDecision
<1> QED
  BY <1>1, <1>6

LEMMA NextVote == TInv /\ [Next]_vars => VoteInv'
<1> SUFFICES ASSUME TInv, [Next]_vars PROVE VoteInv'
  OBVIOUS
<1>1. CASE Running /\ \E p \in 1..NodeCount : RunGate(p) \/ GateFails(p)
  BY <1>1, RunGateVote, GateFailsVote
<1>2. CASE CollectLevel
  BY <1>2, CollectLevelVote
<1>3. CASE Conclude
  BY <1>3, ConcludeDecides DEF TInv, VoteInv, Running, RightDecision, TotalWeight
<1>4. CASE GiveUp
  BY <1>4 DEF TInv, VoteInv, GiveUp, Running
<1>5. CASE UNCHANGED vars
  BY <1>5 DEF vars, TInv, VoteInv, Running, LevelVectors, TotalWeight, NodeCount, Honest,
              HonestWith, RightDecision
<1> QED
  BY <1>1, <1>2, <1>3, <1>4, <1>5 DEF Next

(* In every run of the parallel tally the answers of the workers are the    *)
(* products that their circuits need, and the vectors of every level are    *)
(* bits that sum to the ballots' weights.                                   *)
THEOREM TallyInvariant == Spec => []TInv
<1>1. Init => TInv
  BY InitInv, InitVote DEF TInv
<1>2. TInv /\ [Next]_vars => TInv'
  BY NextInv, NextVote DEF TInv
<1> QED
  BY <1>1, <1>2, PTL DEF Spec

-----------------------------------------------------------------------------
(* What the run promises.                                                   *)

LEMMA SelectorsFollow == TInv => SelectorsAreBits
  BY NextGate DEF SelectorsAreBits

(* In every run each gate is called with a selector that is a bit: no gate  *)
(* of a tally can fail at its opening for want of a sign.                   *)
THEOREM EverySelectorIsABit == Spec => []SelectorsAreBits
  BY TallyInvariant, SelectorsFollow, PTL

LEMMA SumsFollow == TInv => AggregateConserved
<1> SUFFICES ASSUME TInv, Running
             PROVE  TotalWeight =
                      IF stage = "compare" THEN ValueOf(frontier[1])
                      ELSE SumSeq([p \in 1..NodeCount |->
                             IF Done(p) THEN ValueOf(Circuit(p).output)
                             ELSE ValueOf(frontier[2 * p - 1]) + ValueOf(frontier[2 * p])])
  BY DEF AggregateConserved
<1>1. CASE stage = "compare"
  <2>1. Len(frontier) = 1 /\ LevelVectors(frontier, Len(frontier), Len(frontier[1]))
    BY <1>1, RunningLevel
  <2> QED
    BY <1>1, <2>1, TheSumIsOne
<1>2. CASE stage # "compare"
  <2> DEFINE t == [p \in 1..NodeCount |->
                     IF Done(p) THEN ValueOf(Circuit(p).output)
                     ELSE ValueOf(frontier[2 * p - 1]) + ValueOf(frontier[2 * p])]
             s == Weights(frontier)
  <2>1. /\ stage = "aggregate" /\ NodeCount \in Nat \ {0} /\ Len(frontier) = 2 * NodeCount
        /\ LevelVectors(frontier, 2 * NodeCount, Len(frontier[1]))
    BY <1>2, RunningLevel DEF Running
  <2>2. /\ s \in [1..(2 * NodeCount) -> Nat]
        /\ \A v \in 1..(2 * NodeCount) : s[v] = ValueOf(frontier[v])
    BY <2>1, LevelWeights
  <2>3. ASSUME NEW p \in 1..NodeCount
        PROVE  t[p] = ValueOf(frontier[2 * p - 1]) + ValueOf(frontier[2 * p])
    BY <2>1, NodeResult DEF Adds
  <2>4. SumSeq(s) = TotalWeight
    BY <2>1 DEF LevelVectors
  <2>5. t = [p \in 1..NodeCount |-> t[p]]
    OBVIOUS
  <2> HIDE DEF t, s
  <2>6. ASSUME NEW p \in 1..NodeCount
        PROVE  t[p] = s[2 * p - 1] + s[2 * p] /\ t[p] \in Nat
    <3>1. 2 * p - 1 \in 1..(2 * NodeCount) /\ 2 * p \in 1..(2 * NodeCount)
      BY <2>1
    <3> QED
      BY <2>2, <2>3, <3>1
  <2>7. t \in [1..NodeCount -> Nat]
    BY <2>5, <2>6
  <2>8. SumSeq(t) = SumSeq(s)
    <3>1. NodeCount \in Nat /\ \A p \in 1..NodeCount : t[p] = s[2 * p - 1] + s[2 * p]
      BY <2>1, <2>6
    <3> QED
      BY <2>2, <2>7, <3>1, SumOfPairs, Zenon
  <2> QED
    BY <1>2, <2>4, <2>8 DEF t
<1> QED
  BY <1>1, <1>2

(* In every run the vectors of a level, those that a worker has finished    *)
(* and those that still wait, sum to the weights of the ballots.            *)
THEOREM SumIsConserved == Spec => []AggregateConserved
  BY TallyInvariant, SumsFollow, PTL

(* The tally implements the weighted vote: it decides once, and rightly, or *)
(* fails and decides nothing.                                               *)
THEOREM TallyDecidesTheVote == Spec => ImplementsWeightedVote
<1>1. Init => Vote!Init
  <2> SUFFICES ASSUME Init PROVE Vote!Init
    OBVIOUS
  <2>1. Weights(election.inputs) \in Seq(Nat) /\ election.tau \in Nat
    <3> DEFINE n == Len(election.inputs)
    <3>1. LevelVectors(election.inputs, n, Len(election.inputs[1])) /\ election.tau \in Nat
      BY RequestIsLevel DEF Init
    <3>2. Weights(election.inputs) \in [1..n -> Nat] /\ n \in Nat
      BY <3>1, LevelWeights DEF LevelVectors
    <3> QED
      BY <3>1, <3>2
  <2>2. result = <<>> /\ stage # "done" /\ stage # "failed"
    BY DEF Init, StageOf
  <2> QED
    BY <2>1, <2>2 DEF Vote!Init
<1>2. TInv /\ [Next]_vars => [Vote!Next]_(Vote!vars)
  <2> SUFFICES ASSUME TInv, [Next]_vars PROVE [Vote!Next]_(Vote!vars)
    OBVIOUS
  <2>1. CASE Running /\ \E p \in 1..NodeCount : RunGate(p) \/ GateFails(p)
    BY <2>1 DEF RunGate, GateFails, Vote!vars
  <2>2. CASE CollectLevel
    <3>1. /\ UNCHANGED <<election, result>> /\ stage \notin {"done", "failed"}
          /\ stage' \notin {"done", "failed"}
      BY <2>2 DEF CollectLevel, StageOf
    <3> QED
      BY <3>1 DEF Vote!vars
  <2>3. CASE Conclude
    <3>1. /\ election' = election /\ stage = "compare" /\ stage' = "done"
          /\ result' = <<RightDecision>>
      BY <2>3, ConcludeDecides
    <3>2. Vote!Decide
      <4>1. TotalWeight = SumSeq(Weights(election.inputs)) /\ Vote!TotalWeight = TotalWeight
        BY Zenon DEF TotalWeight, Vote!TotalWeight, SumSeq, Vote!SumSeq
      <4>2. result' = IF Vote!TotalWeight >= election.tau THEN <<1>> ELSE <<0>>
        BY <3>1, <4>1, Zenon DEF RightDecision
      <4> QED
        BY <3>1, <4>2 DEF Vote!Decide
    <3> QED
      BY <3>2 DEF Vote!Next
  <2>4. CASE GiveUp
    <3>1. /\ UNCHANGED <<election, result>> /\ stage \notin {"done", "failed"}
          /\ stage' = "failed"
      BY <2>4 DEF GiveUp, Running
    <3> QED
      BY <3>1 DEF Vote!Next, Vote!Fail
  <2>5. CASE UNCHANGED vars
    BY <2>5 DEF vars, Vote!vars
  <2> QED
    BY <2>1, <2>2, <2>3, <2>4, <2>5 DEF Next
<1> QED
  BY <1>1, <1>2, TallyInvariant, PTL DEF Spec, ImplementsWeightedVote

-----------------------------------------------------------------------------
(***************************************************************************)
(* The public replay of a tally is sound and complete: whatever journal a  *)
(* verifier accepts, its result is the right decision; the journal of the  *)
(* run is accepted; and the verifier that reads in batches says the same   *)
(* as the one that holds the whole journal.                                *)
(*                                                                         *)
(* Soundness: a record that verifies is a product, and one that matches is *)
(* the product of the gate that the walk calls.  So the outputs of an      *)
(* accepted journal are the answers that the circuits need, level by level,*)
(* and the circuits are exact.  Completeness: the walk knows of the journal*)
(* but its outputs, and a circuit depends on no answer beyond its own, so  *)
(* that the walk of any journal that begins with the run's goes the way of *)
(* the run.                                                                *)
(***************************************************************************)

-----------------------------------------------------------------------------
(* Sequences.                                                               *)

IsSequence(s) == Len(s) \in Nat /\ DOMAIN s = 1..Len(s)

\* Places in blocks of one size, and the places after them.
LEMMA PlaceInBlocks ==
  ASSUME NEW size \in Nat \ {0}, NEW count \in Nat, NEW p \in 1..count, NEW k \in 1..size
  PROVE  /\ (p - 1) * size + k \in 1..(count * size)
         /\ (p - 1) * size \in Nat /\ (p - 1) * size + size <= count * size
<1> DEFINE q == p - 1
           r == count - p
<1>1. q \in Nat /\ r \in Nat /\ count = q + 1 + r
  OBVIOUS
<1> HIDE DEF q, r
<1>2. count * size = q * size + size + r * size /\ q * size \in Nat /\ r * size \in Nat
  BY <1>1
<1>3. q * size + k \in 1..(count * size) /\ q * size + size <= count * size
  BY <1>2
<1> QED
  BY <1>2, <1>3 DEF q

\* A sequence of blocks of one size, one after the other.
LEMMA FlatBlocks ==
  ASSUME NEW size \in Nat \ {0}, NEW count \in Nat \ {0},
         NEW blocks, IsSequence(blocks), Len(blocks) = count,
         \A p \in 1..count : IsSequence(blocks[p]) /\ Len(blocks[p]) = size
  PROVE  /\ IsSequence(FlattenSeq(blocks)) /\ Len(FlattenSeq(blocks)) = count * size
         /\ \A p \in 1..count, k \in 1..size :
              FlattenSeq(blocks)[(p - 1) * size + k] = blocks[p][k]
<1> DEFINE Equation(f, n) == f = [i \in 1..n |-> IF i = 1 THEN blocks[1] ELSE f[i - 1] \o blocks[i]]
           T == {n \in Nat : \E f : Equation(f, n)}
           chosen == CHOOSE f : Equation(f, Len(blocks))
<1>1. 0 \in T
  <2> DEFINE f == [i \in 1..0 |-> blocks[1]]
  <2>1. Equation(f, 0)
    OBVIOUS
  <2> HIDE DEF f, Equation
  <2> QED
    BY <2>1
<1>2. \A n \in Nat : n \in T => n + 1 \in T
  <2> HIDE DEF Equation
  <2> SUFFICES ASSUME NEW n \in Nat, n \in T PROVE \E f : Equation(f, n + 1)
    OBVIOUS
  <2> USE DEF Equation
  <2>1. PICK f : f = [i \in 1..n |-> IF i = 1 THEN blocks[1] ELSE f[i - 1] \o blocks[i]]
    OBVIOUS
  <2> DEFINE g == [i \in 1..(n + 1) |-> IF i = n + 1 THEN IF i = 1 THEN blocks[1] ELSE f[n] \o blocks[i]
                                        ELSE f[i]]
  <2>2. ASSUME NEW i \in 1..(n + 1)
        PROVE  g[i] = IF i = 1 THEN blocks[1] ELSE g[i - 1] \o blocks[i]
    <3>1. CASE i = 1
      <4>1. n = 0 \/ 1 \in 1..n
        OBVIOUS
      <4> QED
        BY <2>1, <3>1, <4>1
    <3>2. CASE i # 1 /\ i = n + 1
      <4>1. i - 1 \in 1..(n + 1) /\ i - 1 = n /\ i - 1 # n + 1
        BY <3>2
      <4> QED
        BY <3>2, <4>1
    <3>3. CASE i # 1 /\ i # n + 1
      <4>1. i \in 1..n /\ i - 1 \in 1..(n + 1) /\ i - 1 # n + 1
        BY <3>3
      <4>2. f[i] = f[i - 1] \o blocks[i]
        BY <2>1, <3>3, <4>1
      <4> QED
        BY <3>3, <4>1, <4>2
    <3> QED
      BY <3>1, <3>2, <3>3
  <2>3. g = [i \in 1..(n + 1) |-> g[i]]
    OBVIOUS
  <2> HIDE DEF g
  <2>4. Equation(g, n + 1)
    BY <2>2, <2>3
  <2> HIDE DEF Equation
  <2> QED
    BY <2>4
<1>3. Nat \subseteq T
  <2> HIDE DEF T
  <2> QED
    BY <1>1, <1>2, Induction
<1>4. Equation(chosen, Len(blocks))
  <2>1. \E f : Equation(f, Len(blocks))
    BY <1>3
  <2> HIDE DEF Equation
  <2> QED
    BY <2>1, Zenon
<1>5. FlattenSeq(blocks) = chosen[Len(blocks)]
  <2>1. Len(blocks) # 0 /\ 1 \in 1..Len(blocks)
    OBVIOUS
  <2> QED
    BY <2>1, Zenon DEF FlattenSeq
<1> HIDE DEF chosen
<1>6. /\ chosen[1] = blocks[1]
      /\ \A i \in 1..count : i # 1 => chosen[i] = chosen[i - 1] \o blocks[i]
  <2>1. chosen = [i \in 1..count |-> IF i = 1 THEN blocks[1] ELSE chosen[i - 1] \o blocks[i]]
    BY <1>4
  <2>2. ASSUME NEW i \in 1..count
        PROVE  chosen[i] = IF i = 1 THEN blocks[1] ELSE chosen[i - 1] \o blocks[i]
    BY <2>1, Zenon
  <2>3. 1 \in 1..count
    OBVIOUS
  <2> QED
    BY <2>2, <2>3
<1> DEFINE Flat(n) ==
             /\ IsSequence(chosen[n]) /\ Len(chosen[n]) = n * size
             /\ \A p \in 1..n, k \in 1..size : chosen[n][(p - 1) * size + k] = blocks[p][k]
           U == {n \in 1..count : Flat(n)}
<1>7. 1 \in U
  <2>1. /\ IsSequence(blocks[1]) /\ Len(blocks[1]) = size /\ 1 * size = size
        /\ \A k \in 1..size : (1 - 1) * size + k = k
    OBVIOUS
  <2>2. \A p \in 1..1 : p = 1
    OBVIOUS
  <2> QED
    BY <1>6, <2>1, <2>2
<1>8. \A n \in 1..count : n \in U /\ n < count => n + 1 \in U
  <2> HIDE DEF Flat
  <2> SUFFICES ASSUME NEW n \in 1..count, Flat(n), n < count PROVE Flat(n + 1)
    OBVIOUS
  <2> USE DEF Flat
  <2> DEFINE s == chosen[n]
             t == blocks[n + 1]
  <2>1. chosen[n + 1] = s \o t
    <3>1. n + 1 \in 1..count /\ n + 1 # 1 /\ (n + 1) - 1 = n
      OBVIOUS
    <3> QED
      BY <1>6, <3>1
  <2>2. /\ DOMAIN s = 1..Len(s) /\ Len(s) \in Nat /\ Len(s) = n * size
        /\ DOMAIN t = 1..size /\ Len(t) = size
    BY DEF IsSequence
  <2> HIDE DEF s, t
  <2>3. /\ DOMAIN (s \o t) = 1..Len(s \o t)
        /\ Len(s \o t) = Len(s) + size
        /\ \A i \in 1..Len(s) : (s \o t)[i] = s[i]
        /\ \A i \in 1..size : (s \o t)[Len(s) + i] = t[i]
    <3>1. size \in Nat /\ DOMAIN s = 1..Len(s) /\ Len(s) \in Nat /\ DOMAIN t = 1..size /\ Len(t) = size
      BY <2>2
    <3> QED
      BY ONLY <3>1
  <2>4. Len(s) + size = (n + 1) * size
    BY <2>2
  <2>5. ASSUME NEW p \in 1..(n + 1), NEW k \in 1..size
        PROVE  (s \o t)[(p - 1) * size + k] = blocks[p][k]
    <3>1. CASE p = n + 1
      <4>1. (p - 1) * size + k = Len(s) + k
        BY <2>2, <3>1
      <4> QED
        BY <2>3, <3>1, <4>1 DEF t
    <3>2. CASE p # n + 1
      <4>1. p \in 1..n
        BY <3>2
      <4>2. (p - 1) * size + k \in 1..(n * size)
        <5>1. n \in Nat
          OBVIOUS
        <5> QED
          BY <4>1, <5>1, PlaceInBlocks
      <4>3. s[(p - 1) * size + k] = blocks[p][k]
        BY <4>1 DEF s
      <4> QED
        BY <2>2, <2>3, <4>2, <4>3
    <3> QED
      BY <3>1, <3>2
  <2>6. Len(s \o t) \in Nat
    BY <2>2, <2>3
  <2> DEFINE u == chosen[n + 1]
  <2>7. u = s \o t
    BY <2>1
  <2> HIDE DEF u
  <2>8. IsSequence(u) /\ Len(u) = (n + 1) * size
    BY ONLY <2>3, <2>4, <2>6, <2>7 DEF IsSequence
  <2>9. \A p \in 1..(n + 1), k \in 1..size : u[(p - 1) * size + k] = blocks[p][k]
    <3> HIDE DEF Flat
    <3> QED
      BY <2>5, <2>7, Zenon
  <2> QED
    BY <2>8, <2>9, Zenon DEF u
<1>9. 1..count \subseteq U
  <2> HIDE DEF U
  <2> QED
    BY <1>7, <1>8, InductionUp
<1> QED
  BY <1>5, <1>9

\* What follows from a place on.
LEMMA FromPlace ==
  ASSUME NEW outs \in Seq(Int), NEW k \in Nat \ {0}, k <= Len(outs) + 1
  PROVE  /\ From(outs, k) \in Seq(Int)
         /\ Len(From(outs, k)) = Len(outs) + 1 - k
         /\ \A i \in 1..(Len(outs) + 1 - k) : From(outs, k)[i] = outs[k + i - 1]
  BY DEF From

-----------------------------------------------------------------------------
(* The tree of a replay.                                                    *)

IsTree(t, request, outs) ==
  /\ t[0] = [frontier |-> request.inputs, calls |-> <<>>, depth |-> 0]
  /\ \A d \in 1..Len(request.inputs) : t[d] = ReplayLevel(t[d - 1], outs)

LEMMA TreeOfReplay ==
  ASSUME NEW request, Len(request.inputs) \in Nat, NEW outs
  PROVE  \E t : IsTree(t, request, outs) /\ ReplayTree(request, outs) = t[Len(request.inputs)]
<1> DEFINE first == [frontier |-> request.inputs, calls |-> <<>>, depth |-> 0]
           top == Len(request.inputs)
           Equation(f, n) == f = [d \in 0..n |-> IF d = 0 THEN first ELSE ReplayLevel(f[d - 1], outs)]
           T == {n \in Nat : \E f : Equation(f, n)}
           chosen == CHOOSE f : Equation(f, top)
<1>1. 0 \in T
  <2> DEFINE f == [d \in 0..0 |-> first]
  <2>1. Equation(f, 0)
    <3> HIDE DEF first
    <3> QED
      OBVIOUS
  <2> HIDE DEF f, Equation
  <2> QED
    BY <2>1
<1>2. \A n \in Nat : n \in T => n + 1 \in T
  <2> HIDE DEF Equation, first
  <2> SUFFICES ASSUME NEW n \in Nat, n \in T PROVE \E f : Equation(f, n + 1)
    OBVIOUS
  <2> USE DEF Equation
  <2>1. PICK f : f = [d \in 0..n |-> IF d = 0 THEN first ELSE ReplayLevel(f[d - 1], outs)]
    OBVIOUS
  <2> DEFINE g == [d \in 0..(n + 1) |-> IF d = n + 1 THEN ReplayLevel(f[n], outs) ELSE f[d]]
  <2>2. ASSUME NEW d \in 0..(n + 1)
        PROVE  g[d] = IF d = 0 THEN first ELSE ReplayLevel(g[d - 1], outs)
    <3>1. CASE d = n + 1
      <4>1. d # 0 /\ d - 1 \in 0..(n + 1) /\ d - 1 = n /\ d - 1 # n + 1
        BY <3>1
      <4> QED
        BY <3>1, <4>1
    <3>2. CASE d # n + 1
      <4>1. d \in 0..n /\ (d # 0 => d - 1 \in 0..(n + 1) /\ d - 1 # n + 1)
        BY <3>2
      <4>2. f[d] = IF d = 0 THEN first ELSE ReplayLevel(f[d - 1], outs)
        BY <2>1, <4>1
      <4> QED
        BY <3>2, <4>1, <4>2
    <3> QED
      BY <3>1, <3>2
  <2>3. g = [d \in 0..(n + 1) |-> g[d]]
    OBVIOUS
  <2> HIDE DEF g
  <2>4. Equation(g, n + 1)
    BY <2>2, <2>3
  <2> HIDE DEF Equation
  <2> QED
    BY <2>4
<1>3. Nat \subseteq T
  <2> HIDE DEF T
  <2> QED
    BY <1>1, <1>2, Induction
<1>4. Equation(chosen, top)
  <2>1. \E f : Equation(f, top)
    BY <1>3
  <2> HIDE DEF Equation
  <2> QED
    BY <2>1, Zenon
<1>5. ReplayTree(request, outs) = chosen[top]
  BY Zenon DEF ReplayTree
<1> HIDE DEF chosen
<1>6. \A d \in 0..top : chosen[d] = IF d = 0 THEN first ELSE ReplayLevel(chosen[d - 1], outs)
  <2> SUFFICES ASSUME NEW d \in 0..top
               PROVE  chosen[d] = IF d = 0 THEN first ELSE ReplayLevel(chosen[d - 1], outs)
    OBVIOUS
  <2>1. chosen = [i \in 0..top |-> IF i = 0 THEN first ELSE ReplayLevel(chosen[i - 1], outs)]
    BY <1>4
  <2> HIDE DEF first, top
  <2> QED
    BY <2>1, Zenon
<1>7. IsTree(chosen, request, outs)
  <2>1. 0 \in 0..top /\ \A d \in 1..top : d \in 0..top /\ d # 0
    OBVIOUS
  <2> HIDE DEF first
  <2>2. chosen[0] = first /\ \A d \in 1..top : chosen[d] = ReplayLevel(chosen[d - 1], outs)
    BY <1>6, <2>1
  <2> QED
    BY <2>2 DEF IsTree, first
<1> QED
  BY <1>5, <1>7

\* A level is full of vectors of one width, and the calls before it are a sequence.
WalkShape(walk) ==
  /\ Len(walk.frontier) \in Nat \ {0}
  /\ Len(walk.frontier[1]) \in Nat \ {0}
  /\ \A v \in 1..Len(walk.frontier) : Len(walk.frontier[v]) = Len(walk.frontier[1])
  /\ IsSequence(walk.calls)

LevelNode(before, outs, p) ==
  AddBits(before.frontier[2 * p - 1], before.frontier[2 * p],
          From(outs, Len(before.calls) + (p - 1) * GateCount(Len(before.frontier[1])) + 1))

LevelCall(before, outs, p, k) ==
  Expected(ReplayLabel("aggregate", before.depth, p, LevelNode(before, outs, p).calls[k]),
           LevelNode(before, outs, p).calls[k])

LEMMA AdderHasCalls ==
  ASSUME NEW left, NEW right, NEW outs
  PROVE  DOMAIN AddBits(left, right, outs).calls = 1..GateCount(Len(left))
  BY Zenon DEF AddBits

\* A level is walked: its nodes' outputs, and their calls after those before.
LevelWalked(before, outs, after, count, gates) ==
  /\ after.frontier = [p \in 1..count |-> LevelNode(before, outs, p).output]
  /\ IsSequence(after.calls) /\ Len(after.calls) = Len(before.calls) + count * gates
  /\ \A i \in 1..Len(before.calls) : after.calls[i] = before.calls[i]
  /\ \A p \in 1..count, k \in 1..gates :
       after.calls[Len(before.calls) + ((p - 1) * gates + k)] = LevelCall(before, outs, p, k)
  /\ after.depth = before.depth + 1

LEMMA WalkLevel ==
  ASSUME NEW before, WalkShape(before), Len(before.frontier) # 1, NEW outs,
         NEW count, count = Len(before.frontier) \div 2,
         NEW gates, gates = GateCount(Len(before.frontier[1]))
  PROVE  /\ count \in Nat \ {0} /\ gates \in Nat \ {0}
         /\ LevelWalked(before, outs, ReplayLevel(before, outs), count, gates)
<1> DEFINE nodes == ReplayNodes(before, outs)
           blocks == [p \in DOMAIN nodes |->
                        [k \in DOMAIN nodes[p].calls |->
                           Expected(ReplayLabel("aggregate", before.depth, p, nodes[p].calls[k]),
                                    nodes[p].calls[k])]]
           after == ReplayLevel(before, outs)
<1>0. /\ Len(before.frontier) \in Nat \ {0} /\ Len(before.frontier[1]) \in Nat \ {0}
      /\ \A v \in 1..Len(before.frontier) : Len(before.frontier[v]) = Len(before.frontier[1])
  BY Zenon DEF WalkShape
<1>1. /\ count \in Nat \ {0} /\ gates \in Nat \ {0}
      /\ \A p \in 1..count : 2 * p - 1 \in 1..Len(before.frontier)
  <2> DEFINE c == Len(before.frontier)
             w == Len(before.frontier[1])
  <2>1. c \in Nat \ {0} /\ w \in Nat \ {0} /\ c # 1 /\ count = c \div 2 /\ gates = 2 * w - 1
    BY <1>0, Zenon DEF GateCount
  <2> HIDE DEF c, w
  <2>2. \A p \in 1..count : 2 * p - 1 \in 1..c
    BY ONLY <2>1
  <2>3. count \in Nat \ {0} /\ gates \in Nat \ {0}
    BY ONLY <2>1
  <2> QED
    BY <2>2, <2>3, Zenon DEF c
<1>2. DOMAIN nodes = 1..count /\ \A p \in 1..count : nodes[p] = LevelNode(before, outs, p)
  BY Zenon DEF ReplayNodes, LevelNode
<1>3. /\ after.frontier = [p \in DOMAIN nodes |-> nodes[p].output]
      /\ after.calls = before.calls \o FlattenSeq(blocks)
      /\ after.depth = before.depth + 1
  BY Zenon DEF ReplayLevel, AfterLevel
<1> HIDE DEF nodes, after
<1>4. ASSUME NEW p \in 1..count
      PROVE  /\ IsSequence(blocks[p]) /\ Len(blocks[p]) = gates
             /\ \A k \in 1..gates : blocks[p][k] = LevelCall(before, outs, p, k)
  <2>1. Len(before.frontier[2 * p - 1]) = Len(before.frontier[1])
    BY <1>0, <1>1
  <2>2. DOMAIN nodes[p].calls = 1..gates
    <3>1. DOMAIN LevelNode(before, outs, p).calls = 1..GateCount(Len(before.frontier[2 * p - 1]))
      BY AdderHasCalls, Zenon DEF LevelNode
    <3> QED
      BY <1>2, <2>1, <3>1, Zenon
  <2>3. blocks[p] = [k \in 1..gates |-> LevelCall(before, outs, p, k)]
    BY <1>2, <2>2, Zenon DEF LevelCall
  <2> HIDE DEF blocks
  <2> QED
    BY <1>1, <2>3 DEF IsSequence
<1>5. IsSequence(blocks) /\ Len(blocks) = count
  <2>1. DOMAIN blocks = 1..count
    BY <1>2
  <2> HIDE DEF blocks
  <2> QED
    BY ONLY <1>1, <2>1 DEF IsSequence
<1> HIDE DEF blocks
<1> DEFINE flat == FlattenSeq(blocks)
<1>6. /\ IsSequence(flat) /\ Len(flat) = count * gates
      /\ \A p \in 1..count, k \in 1..gates : flat[(p - 1) * gates + k] = blocks[p][k]
  <2>1. \A p \in 1..count : IsSequence(blocks[p]) /\ Len(blocks[p]) = gates
    BY <1>4
  <2> QED
    BY ONLY <1>1, <1>5, <2>1, FlatBlocks
<1> HIDE DEF flat
<1>7. count * gates \in Nat /\ \A p \in 1..count, k \in 1..gates : (p - 1) * gates + k \in 1..(count * gates)
  <2>1. count \in Nat /\ gates \in Nat
    BY <1>1
  <2>2. count * gates \in Nat
    BY ONLY <2>1
  <2> QED
    BY <1>1, <2>1, <2>2, PlaceInBlocks
<1> DEFINE s == before.calls
           n == count * gates
<1>8. /\ DOMAIN s = 1..Len(s) /\ Len(s) \in Nat
      /\ n \in Nat /\ DOMAIN flat = 1..n /\ Len(flat) = n
  BY <1>6, <1>7 DEF IsSequence, WalkShape
<1>9. after.calls = s \o flat
  BY <1>3 DEF flat
<1> HIDE DEF s, n
<1>10. /\ DOMAIN (s \o flat) = 1..Len(s \o flat)
       /\ Len(s \o flat) = Len(s) + n
       /\ \A i \in 1..Len(s) : (s \o flat)[i] = s[i]
       /\ \A i \in 1..n : (s \o flat)[Len(s) + i] = flat[i]
  BY ONLY <1>8
<1>11. /\ IsSequence(after.calls) /\ Len(after.calls) = Len(s) + count * gates
       /\ \A i \in 1..Len(s) : after.calls[i] = s[i]
       /\ \A p \in 1..count, k \in 1..gates :
            after.calls[Len(s) + ((p - 1) * gates + k)] = LevelCall(before, outs, p, k)
  <2>1. IsSequence(after.calls) /\ Len(after.calls) = Len(s) + count * gates
    <3>1. Len(s) + n \in Nat
      BY <1>8
    <3> QED
      BY <1>8, <1>10, <1>9, <3>1, Zenon DEF IsSequence, n
  <2>2. \A i \in 1..Len(s) : after.calls[i] = s[i]
    BY <1>10, <1>9, Zenon
  <2>3. ASSUME NEW p \in 1..count, NEW k \in 1..gates
        PROVE  after.calls[Len(s) + ((p - 1) * gates + k)] = LevelCall(before, outs, p, k)
    <3> DEFINE place == (p - 1) * gates + k
    <3>1. p \in 1..count /\ k \in 1..gates
      OBVIOUS
    <3>4. place \in 1..n
      BY ONLY <1>7, <3>1, Zenon DEF n
    <3>5. flat[place] = blocks[p][k]
      BY ONLY <1>6, <3>1, Zenon
    <3>6. blocks[p][k] = LevelCall(before, outs, p, k)
      BY ONLY <1>4, <3>1, Zenon
    <3> HIDE DEF place
    <3>2. \A i \in 1..n : after.calls[Len(s) + i] = flat[i]
      BY <1>9, <1>10, Zenon
    <3> QED
      BY <3>4, <3>5, <3>6, <3>2, Zenon DEF place
  <2> QED
    BY <2>1, <2>2, <2>3
<1>12. after.frontier = [p \in 1..count |-> LevelNode(before, outs, p).output]
  BY <1>2, <1>3, Zenon
<1> QED
  BY <1>1, <1>3, <1>11, <1>12 DEF LevelWalked, s, after

\* And has the shape to walk on from.
LEMMA WalkKeepsShape ==
  ASSUME NEW before, WalkShape(before), NEW outs
  PROVE  WalkShape(ReplayLevel(before, outs))
<1> DEFINE after == ReplayLevel(before, outs)
           count == Len(before.frontier) \div 2
           width == Len(before.frontier[1])
<1>1. CASE Len(before.frontier) = 1
  BY <1>1 DEF ReplayLevel
<1>2. CASE Len(before.frontier) # 1
  <2>1. count \in Nat \ {0} /\ width \in Nat /\ LevelWalked(before, outs, after, count, GateCount(width))
    BY <1>2, WalkLevel DEF WalkShape
  <2>2. ASSUME NEW p \in 1..count PROVE Len(after.frontier[p]) = width + 1
    <3>1. 2 * p - 1 \in 1..Len(before.frontier)
      <4> DEFINE c == Len(before.frontier)
      <4>1. c \in Nat /\ p \in 1..(c \div 2)
        BY DEF WalkShape
      <4> HIDE DEF c
      <4>2. 2 * p - 1 \in 1..c
        BY ONLY <4>1
      <4> QED
        BY <4>2 DEF c
    <3>2. Len(before.frontier[2 * p - 1]) = width
      BY <3>1 DEF WalkShape
    <3>3. after.frontier[p] = LevelNode(before, outs, p).output
      <4>1. after.frontier = [q \in 1..count |-> LevelNode(before, outs, q).output]
        BY <2>1, Zenon DEF LevelWalked
      <4> QED
        BY <4>1, Zenon
    <3>4. DOMAIN after.frontier[p] = 1..(width + 1)
      BY <3>2, <3>3, SumHasOneMoreBit, Zenon DEF LevelNode
    <3> HIDE DEF after, width
    <3> QED
      BY <2>1, <3>4
  <2> HIDE DEF after, width, count
  <2>3. 1 \in 1..count /\ width + 1 \in Nat \ {0}
    BY <2>1
  <2>4. Len(after.frontier) = count
    <3>1. DOMAIN after.frontier = 1..count
      BY <2>1, Zenon DEF LevelWalked
    <3> DEFINE f == after.frontier
    <3>2. count \in Nat /\ DOMAIN f = 1..count
      BY <2>1, <3>1
    <3> HIDE DEF f
    <3>3. Len(f) = count
      BY ONLY <3>2
    <3> QED
      BY <3>3 DEF f
  <2> QED
    BY <2>1, <2>2, <2>3, <2>4 DEF LevelWalked, WalkShape, after
<1> QED
  BY <1>1, <1>2

\* The comparison is walked: its calls follow those of the tree.
LastCircuit(request, sum, outs) ==
  SubLTBits(sum.frontier[1], PublicBits(request.tau, Len(sum.frontier[1])),
            From(outs, Len(sum.calls) + 1))

LastCall(request, sum, outs, k) ==
  Expected(ReplayLabel("compare", sum.depth, 1, LastCircuit(request, sum, outs).calls[k]),
           LastCircuit(request, sum, outs).calls[k])

ComparisonWalked(request, sum, outs, walk, gates) ==
  /\ IsSequence(walk.calls) /\ Len(walk.calls) = Len(sum.calls) + gates
  /\ \A i \in 1..Len(sum.calls) : walk.calls[i] = sum.calls[i]
  /\ \A k \in 1..gates : walk.calls[Len(sum.calls) + k] = LastCall(request, sum, outs, k)
  /\ walk.widthOK = (Len(sum.frontier[1]) = Len(request.inputs[1]) + sum.depth)
  /\ walk.result = DecisionFromBorrow(LastCircuit(request, sum, outs).borrow)

LEMMA ComparisonHasCalls ==
  ASSUME NEW left, NEW right, NEW outs
  PROVE  DOMAIN SubLTBits(left, right, outs).calls = 1..GateCount(Len(left))
  BY Zenon DEF SubLTBits

LEMMA WalkComparison ==
  ASSUME NEW request, NEW sum, WalkShape(sum), NEW outs,
         NEW gates, gates = GateCount(Len(sum.frontier[1]))
  PROVE  /\ gates \in Nat \ {0}
         /\ ComparisonWalked(request, sum, outs, ReplayComparison(request, sum, outs), gates)
<1> DEFINE walk == ReplayComparison(request, sum, outs)
           last == LastCircuit(request, sum, outs)
           calls == [k \in DOMAIN last.calls |->
                       Expected(ReplayLabel("compare", sum.depth, 1, last.calls[k]), last.calls[k])]
           s == sum.calls
<1>1. gates \in Nat \ {0}
  <2> DEFINE w == Len(sum.frontier[1])
  <2>1. w \in Nat \ {0} /\ gates = 2 * w - 1
    BY DEF WalkShape, GateCount
  <2> HIDE DEF w
  <2> QED
    BY <2>1
<1>2. /\ walk.calls = s \o calls
      /\ walk.widthOK = (Len(sum.frontier[1]) = Len(request.inputs[1]) + sum.depth)
      /\ walk.result = DecisionFromBorrow(last.borrow)
  BY DEF ReplayComparison, AfterComparison, LastCircuit
<1>3. DOMAIN calls = 1..gates /\ \A k \in 1..gates : calls[k] = LastCall(request, sum, outs, k)
  <2>1. DOMAIN last.calls = 1..gates
    BY ComparisonHasCalls, Zenon DEF LastCircuit
  <2> QED
    BY <2>1, Zenon DEF LastCall
<1> HIDE DEF calls, walk, last
<1>4. DOMAIN s = 1..Len(s) /\ Len(s) \in Nat
  BY DEF WalkShape, IsSequence
<1>5. Len(calls) = gates
  BY ONLY <1>1, <1>3
<1> HIDE DEF s
<1>6. /\ DOMAIN (s \o calls) = 1..Len(s \o calls)
      /\ Len(s \o calls) = Len(s) + gates
      /\ Len(s \o calls) \in Nat
      /\ \A i \in 1..Len(s) : (s \o calls)[i] = s[i]
      /\ \A k \in 1..gates : (s \o calls)[Len(s) + k] = calls[k]
  <2>1. gates \in Nat /\ DOMAIN calls = 1..gates
    BY <1>1, <1>3
  <2> QED
    BY ONLY <1>4, <1>5, <2>1
<1>7. /\ IsSequence(walk.calls) /\ Len(walk.calls) = Len(s) + gates
      /\ \A i \in 1..Len(s) : walk.calls[i] = s[i]
  BY <1>2, <1>6, Zenon DEF IsSequence
<1>8. \A k \in 1..gates : walk.calls[Len(s) + k] = LastCall(request, sum, outs, k)
  BY <1>2, <1>3, <1>6, Zenon
<1> QED
  BY <1>1, <1>2, <1>7, <1>8 DEF ComparisonWalked, s, walk, last

\* The tree keeps its shape at every depth.
LEMMA TreeShape ==
  ASSUME NEW request \in Elections, NEW outs, NEW t, IsTree(t, request, outs)
  PROVE  \A d \in 0..Len(request.inputs) : WalkShape(t[d])
<1> DEFINE n == Len(request.inputs)
           T == {d \in Nat : d <= n => WalkShape(t[d])}
<1>1. n \in Nat /\ n # 0 /\ Len(request.inputs[1]) \in Nat \ {0}
      /\ \A v \in 1..n : Len(request.inputs[v]) = Len(request.inputs[1])
  <2>1. /\ request.inputs \in Seq(Seq(Bits)) /\ n > 0 /\ Len(request.inputs[1]) > 0
        /\ \A v \in 1..n : Len(request.inputs[v]) = Len(request.inputs[1])
    BY ElectionsAreRequests
  <2>2. request.inputs[1] \in Seq(Bits)
    BY <2>1
  <2> QED
    BY <2>1, <2>2
<1>2. 0 \in T
  <2>1. t[0].frontier = request.inputs /\ t[0].calls = <<>>
    BY DEF IsTree
  <2>2. IsSequence(<<>>)
    BY DEF IsSequence
  <2> QED
    BY <1>1, <2>1, <2>2 DEF WalkShape
<1>3. \A d \in Nat : d \in T => d + 1 \in T
  <2> SUFFICES ASSUME NEW d \in Nat, d \in T, d + 1 <= n PROVE WalkShape(t[d + 1])
    OBVIOUS
  <2>1. d + 1 \in 1..n /\ (d + 1) - 1 = d /\ WalkShape(t[d])
    BY <1>1
  <2>2. t[d + 1] = ReplayLevel(t[d], outs)
    BY <2>1 DEF IsTree
  <2> QED
    BY <2>1, <2>2, WalkKeepsShape
<1>4. Nat \subseteq T
  <2> HIDE DEF T
  <2> QED
    BY <1>2, <1>3, Induction
<1> QED
  BY <1>1, <1>4

\* So the calls of every replay are a sequence.
LEMMA ReplayShape ==
  ASSUME NEW request \in Elections, NEW outs
  PROVE  /\ Len(request.inputs) \in Nat
         /\ WalkShape(ReplayTree(request, outs))
         /\ IsSequence(Replay(request, outs).calls)
<1>1. Len(request.inputs) \in Nat
  BY ElectionsAreRequests
<1>2. PICK t : IsTree(t, request, outs) /\ ReplayTree(request, outs) = t[Len(request.inputs)]
  BY <1>1, TreeOfReplay
<1>3. WalkShape(ReplayTree(request, outs))
  <2>1. Len(request.inputs) \in 0..Len(request.inputs)
    BY <1>1
  <2> QED
    BY <1>2, <2>1, TreeShape
<1> QED
  BY <1>1, <1>3, WalkComparison DEF Replay, ComparisonWalked

-----------------------------------------------------------------------------
(* The two verifiers.                                                       *)

\* The batches that the stream loads hold all calls, and a rest only if there is
\* one.
LEMMA LoadedLines ==
  ASSUME NEW calls \in Nat, NEW lines \in Nat, lines >= calls
  PROVE  /\ NothingTrails(calls, lines) <=> lines = calls
         /\ lines = calls => Loaded(calls, lines) = lines
<1> DEFINE batches == (calls + BatchSize - 1) \div BatchSize
           room == batches * BatchSize
<1>1. room \in Nat /\ calls <= room
  <2>1. BatchSize \in Nat \ {0}
    BY BatchSizeAssumption
  <2>2. \A x \in Nat, b \in Nat \ {0} : x \div b \in Nat /\ (x \div b) * b \in Nat /\ x < (x \div b) * b + b
    OBVIOUS
  <2>3. calls + BatchSize - 1 \in Nat
    BY <2>1
  <2> DEFINE x == calls + BatchSize - 1
  <2>4. room \in Nat /\ x < room + BatchSize
    BY <2>1, <2>2, <2>3
  <2> HIDE DEF room
  <2> QED
    BY <2>1, <2>4
<1>2. Loaded(calls, lines) = IF room < lines THEN room ELSE lines
  BY DEF Loaded
<1> HIDE DEF room
<1> QED
  BY <1>1, <1>2 DEF NothingTrails

(* The verifier that reads the journal in batches (verify_dag_file_request) *)
(* accepts a journal if and only if the one that holds it as a whole        *)
(* (verify_dag_request) does, for every size of the batches, whatever the   *)
(* walk and wherever the journal ends.                                      *)
THEOREM StreamAgrees ==
  ASSUME NEW walk, IsSequence(walk.calls), NEW entries, IsSequence(entries)
  PROVE  VerifyDag(walk, entries) <=> VerifyDagFile(walk, entries)
<1> DEFINE calls == Len(walk.calls)
           lines == Len(entries)
<1>1. calls \in Nat /\ lines \in Nat /\ DOMAIN entries = 1..lines
  BY DEF IsSequence
<1>2. CASE ~WalkMatches(walk, entries)
  BY <1>2 DEF VerifyDag, VerifyDagFile
<1>3. CASE WalkMatches(walk, entries)
  <2>1. lines >= calls
    BY <1>3 DEF WalkMatches
  <2>2. /\ NothingTrails(calls, lines) <=> lines = calls
        /\ lines = calls => Loaded(calls, lines) = lines
    BY <1>1, <2>1, LoadedLines
  <2>3. CASE lines = calls
    BY <1>1, <1>3, <2>2, <2>3 DEF VerifyDag, VerifyDagFile
  <2>4. CASE lines # calls
    BY <2>2, <2>4 DEF VerifyDag, VerifyDagFile
  <2> QED
    BY <2>3, <2>4
<1> QED
  BY <1>2, <1>3

-----------------------------------------------------------------------------
(* Soundness.                                                               *)

\* The outputs of a journal are the products that these calls ask for.
WalkBacked(outs, calls) ==
  /\ outs \in Seq(Int) /\ Len(calls) <= Len(outs)
  /\ \A i \in 1..Len(calls) : outs[i] = GateOutput(calls[i].x, calls[i].y)

\* A level of the tree whose vectors sum to the right sum, and which is the last or
\* has as many vectors as depths are left.
WalkSound(walk, d, top) ==
  /\ LevelVectors(walk.frontier, Len(walk.frontier), Len(walk.frontier[1]))
  /\ Len(walk.frontier) = 1 \/ Len(walk.frontier) + d <= top

LEMMA SoundNode ==
  ASSUME NEW width \in Nat \ {0}, NEW left \in [1..width -> Bits], NEW right \in [1..width -> Bits],
         NEW outs \in Seq(Int), NEW place \in Nat, place + GateCount(width) <= Len(outs),
         NEW own, own = From(outs, place + 1),
         \A k \in 1..GateCount(width) :
           outs[place + k] = GateOutput(AddBits(left, right, own).calls[k].x,
                                        AddBits(left, right, own).calls[k].y)
  PROVE  Adds(AddBits(left, right, own).output, left, right, width)
<1> DEFINE g == GateCount(width)
<1>1. g \in Nat
  BY DEF GateCount
<1> HIDE DEF g
<1>2. place + 1 \in Nat \ {0} /\ place + 1 <= Len(outs) + 1 /\ Len(outs) \in Nat /\ place + g <= Len(outs)
  BY <1>1 DEF g
<1>3. /\ own \in Seq(Int) /\ Len(own) = Len(outs) + 1 - (place + 1)
      /\ \A i \in 1..(Len(outs) + 1 - (place + 1)) : own[i] = outs[(place + 1) + i - 1]
  BY <1>2, FromPlace
<1>4. g <= Len(own) /\ \A k \in 1..g : own[k] = outs[place + k]
  <2>1. Len(outs) + 1 - (place + 1) = Len(outs) - place
    BY ONLY <1>2, place \in Nat
  <2>2. \A k \in 1..g : k \in 1..(Len(outs) - place) /\ (place + 1) + k - 1 = place + k
    BY ONLY <1>1, <1>2, place \in Nat
  <2>3. g <= Len(outs) - place
    BY ONLY <1>1, <1>2, place \in Nat
  <2> QED
    BY <1>3, <2>1, <2>2, <2>3
<1>5. Answers(own, g, AddBits(left, right, own).calls)
  BY <1>3, <1>4 DEF Answers, g
<1>6. AddsSoFar(own, GateCount(width), left, right)
  BY <1>5, AdderReplayed DEF g
<1> QED
  BY <1>6, AdderIsExact

LEMMA SoundLevel ==
  ASSUME NEW before, WalkShape(before), NEW outs, NEW d \in Nat, NEW top \in Nat,
         WalkSound(before, d, top), WalkBacked(outs, ReplayLevel(before, outs).calls),
         election.tau \in Nat
  PROVE  WalkSound(ReplayLevel(before, outs), d + 1, top)
<1> DEFINE after == ReplayLevel(before, outs)
           vectors == before.frontier
           n == Len(before.frontier)
           width == Len(before.frontier[1])
           count == n \div 2
           g == GateCount(width)
           m == Len(before.calls)
<1>1. CASE n = 1
  BY <1>1 DEF ReplayLevel, WalkSound
<1>2. CASE n # 1
  <2>1. /\ count \in Nat \ {0} /\ g \in Nat \ {0}
        /\ LevelWalked(before, outs, after, count, g)
    BY <1>2, WalkLevel
  <2>2. LevelVectors(vectors, n, width) /\ (n = 1 \/ n + d <= top)
    BY DEF WalkSound
  <2>3. n \in Nat \ {0} /\ width \in Nat \ {0} /\ IsPowerOfTwo(n)
    BY <2>2 DEF LevelVectors
  <2>4. n = 2 * count /\ IsPowerOfTwo(count)
    <3> HIDE DEF n
    <3>1. n \in Nat /\ n > 1
      BY ONLY <1>2, <2>3
    <3> QED
      BY <2>3, <3>1, HalfIsPowerOfTwo
  <2>5. m \in Nat
    BY DEF WalkShape, IsSequence
  <2>6. /\ outs \in Seq(Int) /\ Len(after.calls) = m + count * g /\ m + count * g <= Len(outs)
        /\ \A i \in 1..(m + count * g) : outs[i] = GateOutput(after.calls[i].x, after.calls[i].y)
    BY <2>1 DEF WalkBacked, LevelWalked
  <2> HIDE DEF after, vectors, n, width, g, m, count
  <2>7. ASSUME NEW p \in 1..count
        PROVE  Adds(LevelNode(before, outs, p).output, vectors[2 * p - 1], vectors[2 * p], width)
    <3> DEFINE place == m + (p - 1) * g
               own == From(outs, place + 1)
               left == vectors[2 * p - 1]
               right == vectors[2 * p]
    <3>1. left \in [1..width -> Bits] /\ right \in [1..width -> Bits]
      <4>1. 2 * p - 1 \in 1..n /\ 2 * p \in 1..n
        BY ONLY <2>1, <2>4, p \in 1..count
      <4> QED
        BY <2>2, <4>1, LevelLengths
    <3>2. /\ (p - 1) * g \in Nat /\ (p - 1) * g + g <= count * g
          /\ \A k \in 1..g : (p - 1) * g + k \in 1..(count * g)
      <4>1. count \in Nat /\ 1 \in 1..g
        BY <2>1
      <4> QED
        BY <2>1, <4>1, PlaceInBlocks
    <3>3. LevelNode(before, outs, p) = AddBits(left, right, own)
      BY DEF LevelNode, m, g, width, vectors
    <3>4. count * g \in Nat
      BY ONLY <2>1
    <3>5. place \in Nat /\ place + g <= Len(outs)
      <4> DEFINE a == (p - 1) * g
                 b == count * g
      <4>1. a \in Nat /\ b \in Nat /\ a + g <= b /\ m + b <= Len(outs) /\ Len(outs) \in Nat
        BY <2>6, <3>2, <3>4
      <4> HIDE DEF a, b
      <4>2. m + a \in Nat /\ (m + a) + g <= Len(outs)
        BY ONLY <2>1, <2>5, <4>1
      <4> QED
        BY <4>2 DEF a
    <3>6. ASSUME NEW k \in 1..g
          PROVE  outs[place + k] = GateOutput(AddBits(left, right, own).calls[k].x,
                                              AddBits(left, right, own).calls[k].y)
      <4> DEFINE a == (p - 1) * g
                 b == count * g
                 i == m + (a + k)
                 call == AddBits(left, right, own).calls[k]
      <4>1. a \in Nat /\ b \in Nat /\ a + k \in 1..b
        BY <3>2, <3>4
      <4>2. after.calls[i] = LevelCall(before, outs, p, k)
        BY <2>1 DEF LevelWalked, m
      <4>3. LevelCall(before, outs, p, k).x = call.x /\ LevelCall(before, outs, p, k).y = call.y
        BY <3>3, Zenon DEF LevelCall, Expected
      <4> HIDE DEF a, b, call, own, left, right
      <4>4. i \in 1..(m + b) /\ (m + a) + k = i
        BY ONLY <2>1, <2>5, <4>1, k \in 1..g
      <4>5. outs[i] = GateOutput(after.calls[i].x, after.calls[i].y)
        BY <2>6, <4>4 DEF b
      <4>6. outs[place + k] = outs[i]
        BY <4>4 DEF a
      <4> QED
        BY <4>2, <4>3, <4>5, <4>6, Zenon DEF call
    <3> HIDE DEF place, own, left, right
    <3>7. own = From(outs, place + 1)
      BY DEF own
    <3>8. Adds(AddBits(left, right, own).output, left, right, width)
      BY <2>3, <2>6, <3>1, <3>5, <3>6, <3>7, SoundNode DEF g
    <3> QED
      BY <3>3, <3>8 DEF left, right
  <2>8. LevelVectors(after.frontier, count, width + 1)
    <3> DEFINE sums == after.frontier
    <3>1. sums = [p \in 1..count |-> LevelNode(before, outs, p).output]
      BY <2>1, Zenon DEF LevelWalked
    <3>2. sums = [p \in 1..count |-> sums[p]] /\ \A p \in 1..count : sums[p] = LevelNode(before, outs, p).output
      BY <3>1, Zenon
    <3> HIDE DEF sums
    <3>3. \A p \in 1..count : Adds(sums[p], vectors[2 * p - 1], vectors[2 * p], width)
      BY <2>7, <3>2
    <3>4. LevelVectors(vectors, 2 * count, width)
      BY <2>2, <2>4
    <3>5. LevelVectors(sums, count, width + 1)
      BY <2>1, <2>4, <3>2, <3>3, <3>4, NextLevelVectors
    <3> QED
      BY <3>5 DEF sums
  <2>9. Len(after.frontier) = count /\ Len(after.frontier[1]) = width + 1
    BY <2>8, LevelLengths
  <2>10. count + (d + 1) <= top
    BY ONLY <1>2, <2>1, <2>2, <2>4, d \in Nat, top \in Nat
  <2> QED
    BY <2>8, <2>9, <2>10 DEF WalkSound, after
<1> QED
  BY <1>1, <1>2

\* What backs a level's calls backs the calls before it.
LEMMA BackedBefore ==
  ASSUME NEW before, WalkShape(before), NEW outs, WalkBacked(outs, ReplayLevel(before, outs).calls)
  PROVE  WalkBacked(outs, before.calls)
<1> DEFINE after == ReplayLevel(before, outs)
           count == Len(before.frontier) \div 2
           g == GateCount(Len(before.frontier[1]))
           m == Len(before.calls)
<1>1. CASE Len(before.frontier) = 1
  BY <1>1 DEF ReplayLevel
<1>2. CASE Len(before.frontier) # 1
  <2>1. count \in Nat \ {0} /\ g \in Nat \ {0} /\ LevelWalked(before, outs, after, count, g)
    BY <1>2, WalkLevel
  <2>2. m \in Nat
    BY DEF WalkShape, IsSequence
  <2>3. /\ Len(after.calls) = m + count * g /\ Len(after.calls) <= Len(outs) /\ outs \in Seq(Int)
        /\ \A i \in 1..Len(after.calls) : outs[i] = GateOutput(after.calls[i].x, after.calls[i].y)
        /\ \A i \in 1..m : after.calls[i] = before.calls[i]
    BY <2>1 DEF LevelWalked, WalkBacked
  <2> HIDE DEF after, count, g, m
  <2>4. count * g \in Nat
    BY ONLY <2>1
  <2> DEFINE b == count * g
  <2>5. b \in Nat /\ Len(after.calls) = m + b /\ m + b <= Len(outs) /\ Len(outs) \in Nat
    BY <2>3, <2>4
  <2> HIDE DEF b
  <2>6. m <= Len(outs) /\ \A i \in 1..m : i \in 1..Len(after.calls)
    BY ONLY <2>2, <2>5
  <2>7. \A i \in 1..m : outs[i] = GateOutput(before.calls[i].x, before.calls[i].y)
    <3> SUFFICES ASSUME NEW i \in 1..m
                 PROVE  outs[i] = GateOutput(before.calls[i].x, before.calls[i].y)
      OBVIOUS
    <3>1. after.calls[i] = before.calls[i] /\ i \in 1..Len(after.calls)
      BY <2>3, <2>6, Zenon
    <3>2. outs[i] = GateOutput(after.calls[i].x, after.calls[i].y)
      BY <2>3, <3>1, Zenon
    <3> QED
      BY <3>1, <3>2, Zenon
  <2> QED
    BY <2>3, <2>6, <2>7, Zenon DEF WalkBacked, m
<1> QED
  BY <1>1, <1>2

\* Backed to a depth, the tree is sound there; at its end one vector is left.
LEMMA SoundTree ==
  ASSUME election \in Elections, NEW outs, NEW t, IsTree(t, election, outs),
         NEW top, top = Len(election.inputs)
  PROVE  /\ top \in Nat
         /\ \A d \in 0..top : WalkBacked(outs, t[d].calls) => WalkSound(t[d], d, top)
<1> DEFINE T == {d \in Nat : d <= top =>
                   (WalkBacked(outs, t[d].calls) => WalkSound(t[d], d, top))}
<1>1. top \in Nat /\ election.tau \in Nat
  BY ElectionsAreRequests
<1>2. 0 \in T
  <2>1. t[0].frontier = election.inputs
    BY DEF IsTree
  <2>2. LevelVectors(election.inputs, Len(election.inputs), Len(election.inputs[1]))
    BY RequestIsLevel
  <2> QED
    BY <1>1, <2>1, <2>2 DEF WalkSound
<1>3. \A d \in Nat : d \in T => d + 1 \in T
  <2> SUFFICES ASSUME NEW d \in Nat, d \in T, d + 1 <= top, WalkBacked(outs, t[d + 1].calls)
               PROVE  WalkSound(t[d + 1], d + 1, top)
    OBVIOUS
  <2>1. d + 1 \in 1..top /\ (d + 1) - 1 = d /\ d \in 0..top
    BY <1>1
  <2>2. t[d + 1] = ReplayLevel(t[d], outs)
    BY <2>1 DEF IsTree
  <2>3. WalkShape(t[d])
    BY <2>1, TreeShape
  <2>4. WalkBacked(outs, t[d].calls)
    BY <2>2, <2>3, BackedBefore
  <2>5. WalkSound(t[d], d, top)
    BY <1>1, <2>4
  <2> QED
    BY <1>1, <2>2, <2>3, <2>5, SoundLevel
<1>4. Nat \subseteq T
  <2> HIDE DEF T
  <2> QED
    BY <1>2, <1>3, Induction
<1> QED
  BY <1>1, <1>4

\* Records that verify and match back the walk.
LEMMA AcceptedIsBacked ==
  ASSUME NEW walk, IsSequence(walk.calls), NEW entries, IsSequence(entries),
         \A i \in DOMAIN entries : entries[i].out \in Int,
         VerifyDag(walk, entries)
  PROVE  WalkBacked(Outputs(entries), walk.calls)
<1> DEFINE outs == Outputs(entries)
           n == Len(walk.calls)
           m == Len(entries)
<1>1. /\ n \in Nat /\ m \in Nat /\ DOMAIN entries = 1..m /\ DOMAIN walk.calls = 1..n
      /\ m >= n
  BY DEF IsSequence, VerifyDag, WalkMatches
<1>2. outs = [i \in 1..m |-> entries[i].out]
  BY <1>1 DEF Outputs
<1> HIDE DEF outs
<1>3. outs \in Seq(Int) /\ Len(outs) = m
  BY <1>1, <1>2
<1>4. ASSUME NEW i \in 1..n
      PROVE  outs[i] = GateOutput(walk.calls[i].x, walk.calls[i].y)
  <2>1. i \in 1..m
    BY <1>1
  <2>2. GateMatches(entries[i], i, walk.calls[i]) /\ GateVerifies(entries[i])
    BY <1>1, <2>1 DEF VerifyDag, WalkMatches
  <2>3. /\ entries[i].x = walk.calls[i].x /\ entries[i].y = walk.calls[i].y
        /\ entries[i].out = GateOutput(entries[i].x, entries[i].y)
    BY <2>2 DEF GateMatches, GateVerifies
  <2> QED
    BY <1>2, <2>1, <2>3
<1> QED
  BY <1>1, <1>3, <1>4 DEF WalkBacked, outs

(* Whatever journal a verifier accepts, as a whole (verify_dag_request) or  *)
(* in batches (verify_dag_file_request), its result is the right decision   *)
(* of the request: whoever wrote the journal, and in whatever order, since  *)
(* every record must prove its product and be the gate that the walk calls. *)
THEOREM AcceptedIsRight ==
  ASSUME election \in Elections, NEW entries, IsSequence(entries),
         \A i \in DOMAIN entries : entries[i].out \in Int,
         NEW walk, walk = Replay(election, Outputs(entries)),
         VerifyDag(walk, entries) \/ VerifyDagFile(walk, entries)
  PROVE  walk.result = RightDecision
<1> DEFINE outs == Outputs(entries)
           sum == ReplayTree(election, outs)
           top == Len(election.inputs)
           width == Len(sum.frontier[1])
           g == GateCount(width)
           m == Len(sum.calls)
           left == sum.frontier[1]
           right == PublicBits(election.tau, width)
           own == From(outs, m + 1)
<1>1. top \in Nat /\ WalkShape(sum) /\ IsSequence(walk.calls)
  BY ReplayShape
<1>2. WalkBacked(outs, walk.calls)
  <2>1. VerifyDag(walk, entries)
    BY <1>1, StreamAgrees
  <2> QED
    BY <1>1, <2>1, AcceptedIsBacked
<1>3. g \in Nat \ {0} /\ ComparisonWalked(election, sum, outs, walk, g)
  BY <1>1, WalkComparison DEF Replay
<1>4. m \in Nat
  BY <1>1 DEF WalkShape, IsSequence
<1>5. /\ outs \in Seq(Int) /\ Len(walk.calls) = m + g /\ m + g <= Len(outs)
      /\ \A i \in 1..(m + g) : outs[i] = GateOutput(walk.calls[i].x, walk.calls[i].y)
      /\ \A i \in 1..m : walk.calls[i] = sum.calls[i]
      /\ \A k \in 1..g : walk.calls[m + k] = LastCall(election, sum, outs, k)
      /\ walk.result = DecisionFromBorrow(LastCircuit(election, sum, outs).borrow)
  BY <1>2, <1>3 DEF WalkBacked, ComparisonWalked
<1>6. LastCircuit(election, sum, outs) = SubLTBits(left, right, own)
  BY DEF LastCircuit
<1>7. PICK t : IsTree(t, election, outs) /\ sum = t[top]
  BY <1>1, TreeOfReplay
<1> HIDE DEF outs, sum, g, m, own
<1>8. \A i \in 1..m : i \in 1..(m + g) /\ m <= Len(outs)
  BY <1>3, <1>4, <1>5
<1>9. WalkBacked(outs, sum.calls)
  <2>1. \A i \in 1..m : outs[i] = GateOutput(sum.calls[i].x, sum.calls[i].y)
    BY <1>5, <1>8
  <2>2. m <= Len(outs)
    BY <1>3, <1>4, <1>5
  <2> QED
    BY <1>5, <2>1, <2>2 DEF WalkBacked, m
<1>10. WalkSound(sum, top, top)
  <2>1. top \in 0..top /\ WalkBacked(outs, t[top].calls)
    BY <1>1, <1>7, <1>9
  <2> HIDE DEF top
  <2>2. \A d \in 0..top : WalkBacked(outs, t[d].calls) => WalkSound(t[d], d, top)
    BY <1>7, SoundTree DEF top
  <2> QED
    BY <1>7, <2>1, <2>2
<1>11. LevelVectors(sum.frontier, 1, width) /\ Len(sum.frontier) = 1
  <2>1. LevelVectors(sum.frontier, Len(sum.frontier), width)
    BY <1>10 DEF WalkSound
  <2>2. Len(sum.frontier) = 1 \/ Len(sum.frontier) + top <= top
    BY <1>10 DEF WalkSound
  <2>3. Len(sum.frontier) \in Nat \ {0}
    BY <2>1 DEF LevelVectors
  <2> HIDE DEF top
  <2>4. Len(sum.frontier) = 1
    BY ONLY <1>1, <2>2, <2>3
  <2> QED
    BY <2>1, <2>4
<1>12. /\ left \in [1..width -> Bits] /\ width \in Nat \ {0} /\ election.tau \in Nat
       /\ TotalWeight = ValueOf(left) /\ ValueOf(left) \in Nat
       /\ election.tau <= LargestWeight(width)
  <2>1. left \in [1..width -> Bits] /\ TotalWeight = ValueOf(left) /\ ValueOf(left) \in Nat
    <3>1. 1 \in 1..1
      OBVIOUS
    <3> QED
      BY <1>11, <3>1, LevelLengths, TheSumIsOne
  <2>2. width \in Nat \ {0} /\ election.tau <= 1 * LargestWeight(width)
    BY <1>11 DEF LevelVectors
  <2>3. LargestWeight(width) \in Nat
    BY <2>2, OneMoreOne DEF LargestWeight
  <2>4. election.tau \in Nat
    BY RequestIsLevel
  <2> QED
    BY <2>1, <2>2, <2>3, <2>4
<1>13. right \in [1..width -> Bits] /\ ValueOf(right) = election.tau
  BY <1>12, PublicBitsValue DEF LargestWeight
<1> HIDE DEF left, right, width
<1>14. Answers(own, g, SubLTBits(left, right, own).calls)
  <2>1. /\ m + 1 \in Nat \ {0} /\ m + 1 <= Len(outs) + 1
        /\ g <= Len(outs) + 1 - (m + 1)
        /\ \A k \in 1..g : k \in 1..(Len(outs) + 1 - (m + 1)) /\ (m + 1) + k - 1 = m + k
        /\ \A k \in 1..g : m + k \in 1..(m + g)
    <3>1. g \in Nat /\ m \in Nat /\ Len(outs) \in Nat /\ m + g <= Len(outs)
      BY <1>3, <1>4, <1>5
    <3> QED
      BY ONLY <3>1
  <2>2. /\ own \in Seq(Int) /\ Len(own) = Len(outs) + 1 - (m + 1)
        /\ \A i \in 1..(Len(outs) + 1 - (m + 1)) : own[i] = outs[(m + 1) + i - 1]
    BY <1>5, <2>1, FromPlace DEF own
  <2>3. ASSUME NEW k \in 1..g
        PROVE  own[k] = GateOutput(SubLTBits(left, right, own).calls[k].x,
                                   SubLTBits(left, right, own).calls[k].y)
    <3>1. own[k] = outs[m + k]
      BY <2>1, <2>2
    <3>2. outs[m + k] = GateOutput(walk.calls[m + k].x, walk.calls[m + k].y)
      BY <1>5, <2>1
    <3>3. walk.calls[m + k] = LastCall(election, sum, outs, k)
      BY <1>5
    <3>4. /\ LastCall(election, sum, outs, k).x = SubLTBits(left, right, own).calls[k].x
          /\ LastCall(election, sum, outs, k).y = SubLTBits(left, right, own).calls[k].y
      BY <1>6, Zenon DEF LastCall, Expected
    <3> QED
      BY <3>1, <3>2, <3>3, <3>4, Zenon
  <2> QED
    BY <2>1, <2>2, <2>3 DEF Answers
<1>15. SubLTBits(left, right, own).borrow = IF ValueOf(left) < election.tau THEN 1 ELSE 0
  <2>1. ComparesSoFar(own, GateCount(width), left, right)
    BY <1>12, <1>13, <1>14, ComparisonReplayed DEF g
  <2> QED
    BY <1>12, <1>13, <2>1, ComparisonIsExact
<1>16. DecisionFromBorrow(1) = 0 /\ DecisionFromBorrow(0) = 1
  BY OddOrder DEF DecisionFromBorrow, AffineSubtract
<1> QED
  BY <1>5, <1>6, <1>12, <1>15, <1>16 DEF RightDecision

-----------------------------------------------------------------------------
(* Completeness.                                                            *)

\* A record of the journal: its gate is proved.
IsEntry(entry) ==
  /\ DOMAIN entry = {"gateIndex", "label", "x", "y", "out"}
  /\ entry.out \in Int
  /\ GateVerifies(entry)

\* The walk so far called the gates of the journal, and stands where the run does.
WalkedSoFar(walk) ==
  /\ walk.frontier = frontier /\ walk.depth = depth
  /\ Len(walk.calls) = Len(journal)
  /\ \A i \in 1..Len(journal) : GateMatches(journal[i], i, walk.calls[i])

ReplayInv ==
  /\ \A i \in 1..Len(journal) : IsEntry(journal[i])
  /\ Running =>
       /\ depth \in 0..Len(election.inputs)
       /\ Len(frontier) = 1 \/ Len(frontier) + depth <= Len(election.inputs)
       /\ \A later, t :
            Begins(Outputs(journal), Len(journal), later) /\ IsTree(t, election, later)
            => WalkedSoFar(t[depth])
  /\ stage = "done" => VerifyDag(Replay(election, Outputs(journal)), journal)

RInv == TInv /\ ReplayInv

\* With one vector left, the tree stays as it is.
LEMMA TreeStays ==
  ASSUME NEW request, NEW outs, NEW t, IsTree(t, request, outs),
         NEW top \in Nat, top = Len(request.inputs),
         NEW d \in 0..top, Len(t[d].frontier) = 1
  PROVE  t[top] = t[d]
<1> DEFINE T == {e \in Nat : d + e <= top => t[d + e] = t[d]}
<1>1. 0 \in T
  OBVIOUS
<1>2. \A e \in Nat : e \in T => e + 1 \in T
  <2> SUFFICES ASSUME NEW e \in Nat, e \in T, d + (e + 1) <= top PROVE t[d + (e + 1)] = t[d]
    OBVIOUS
  <2>1. d + (e + 1) \in 1..top /\ (d + (e + 1)) - 1 = d + e /\ t[d + e] = t[d]
    OBVIOUS
  <2>2. t[d + (e + 1)] = ReplayLevel(t[d + e], outs)
    BY <2>1 DEF IsTree
  <2> QED
    BY <2>1, <2>2 DEF ReplayLevel
<1>3. Nat \subseteq T
  <2> HIDE DEF T
  <2> QED
    BY <1>1, <1>2, Induction
<1>4. top - d \in T /\ d + (top - d) = top
  BY <1>3
<1> QED
  BY <1>4

\* What the workers of a level answered, and what they recorded of it.
LEMMA NodeReplayed ==
  ASSUME TInv, Running, NEW p \in 1..NodeCount, Done(p),
         NEW own, Begins(workers[p].outs, NodeGates, own)
  PROVE  /\ stage = "aggregate" => AddBits(frontier[2 * p - 1], frontier[2 * p], own) = Circuit(p)
         /\ stage # "aggregate" =>
              SubLTBits(frontier[1], PublicBits(election.tau, Len(frontier[1])), own).calls
              = Circuit(p).calls
<1> DEFINE width == Len(frontier[1])
           outs == workers[p].outs
<1>1. /\ width \in Nat \ {0} /\ NodeGates = GateCount(width)
      /\ stage = "aggregate" => /\ frontier[2 * p - 1] \in [1..width -> Bits]
                                /\ frontier[2 * p] \in [1..width -> Bits]
      /\ stage # "aggregate" => /\ frontier[1] \in [1..width -> Bits]
                                /\ PublicBits(election.tau, width) \in [1..width -> Bits]
  BY RunningLevel
<1>2. Len(outs) = GateCount(width) /\ Begins(outs, GateCount(width), own)
  BY <1>1 DEF Done
<1>3. HonestWith(outs, p)
  BY DEF TInv, VoteInv, Honest
<1>4. ASSUME stage = "aggregate"
      PROVE  AddBits(frontier[2 * p - 1], frontier[2 * p], own) = Circuit(p)
  <2>1. AddsSoFar(outs, GateCount(width), frontier[2 * p - 1], frontier[2 * p])
    BY <1>2, <1>3, <1>4 DEF HonestWith
  <2>2. Circuit(p) = AddBits(frontier[2 * p - 1], frontier[2 * p], outs)
    BY <1>4 DEF Circuit
  <2> HIDE DEF outs, width
  <2>3. AddBits(frontier[2 * p - 1], frontier[2 * p], own) = AddBits(frontier[2 * p - 1], frontier[2 * p], outs)
    BY <1>1, <1>2, <1>4, <2>1, AdderIgnoresMore
  <2> QED
    BY <2>2, <2>3, Zenon
<1>5. ASSUME stage # "aggregate"
      PROVE  SubLTBits(frontier[1], PublicBits(election.tau, width), own).calls = Circuit(p).calls
  <2> DEFINE bits == PublicBits(election.tau, width)
  <2>1. ComparesSoFar(outs, GateCount(width), frontier[1], bits)
    BY <1>2, <1>3, <1>5 DEF HonestWith
  <2>2. Circuit(p) = SubLTBits(frontier[1], bits, outs)
    BY <1>5 DEF Circuit
  <2>3. frontier[1] \in [1..width -> Bits] /\ bits \in [1..width -> Bits] /\ width \in Nat \ {0}
    BY <1>1, <1>5
  <2> HIDE DEF outs, width, bits
  <2>4. SubLTBits(frontier[1], bits, own).calls = SubLTBits(frontier[1], bits, outs).calls
    BY <1>2, <2>1, <2>3, ComparisonIgnoresMore
  <2> QED
    BY <2>2, <2>4, Zenon DEF bits
<1> QED
  BY <1>4, <1>5

\* Every record of a worker that is done proves its product.
LEMMA RecordsVerify ==
  ASSUME TInv, Running, NEW p \in 1..NodeCount, Done(p), NEW k \in 1..NodeGates
  PROVE  /\ IsEntry(Records(p)[k])
         /\ Records(p)[k].out = workers[p].outs[k] /\ workers[p].outs[k] \in Int
         /\ Records(p)[k].label = Label(p, Circuit(p).calls[k])
         /\ Records(p)[k].x = Circuit(p).calls[k].x /\ Records(p)[k].y = Circuit(p).calls[k].y
<1> DEFINE width == Len(frontier[1])
           outs == workers[p].outs
           call == Circuit(p).calls[k]
<1>1. /\ width \in Nat \ {0} /\ NodeGates = GateCount(width)
      /\ stage = "aggregate" => /\ frontier[2 * p - 1] \in [1..width -> Bits]
                                /\ frontier[2 * p] \in [1..width -> Bits]
      /\ stage # "aggregate" => /\ frontier[1] \in [1..width -> Bits]
                                /\ PublicBits(election.tau, width) \in [1..width -> Bits]
  BY RunningLevel
<1>2. Len(outs) = GateCount(width) /\ k \in 1..GateCount(width)
  BY <1>1 DEF Done
<1>3. HonestWith(outs, p)
  BY DEF TInv, VoteInv, Honest
<1>4. call.y \in Bits /\ outs[k] = GateOutput(call.x, call.y) /\ outs[k] \in Bits
  <2>1. CASE stage = "aggregate"
    <3>1. AddsSoFar(outs, GateCount(width), frontier[2 * p - 1], frontier[2 * p])
      BY <1>2, <1>3, <2>1 DEF HonestWith
    <3>2. call = AddBits(frontier[2 * p - 1], frontier[2 * p], outs).calls[k]
      BY <2>1 DEF Circuit
    <3>3. frontier[2 * p - 1] \in [1..width -> Bits] /\ frontier[2 * p] \in [1..width -> Bits]
      BY <1>1, <2>1
    <3>4. width \in Nat \ {0}
      BY <1>1
    <3> DEFINE left == frontier[2 * p - 1]
               right == frontier[2 * p]
               sum == AddBits(left, right, outs).calls[k]
    <3> HIDE DEF outs, width, call, left, right
    <3>5. left \in [1..width -> Bits] /\ right \in [1..width -> Bits]
      BY <3>3 DEF left, right
    <3>6. AddsSoFar(outs, GateCount(width), left, right)
      BY <3>1 DEF left, right
    <3>7. sum.y \in Bits /\ outs[k] = GateOutput(sum.x, sum.y) /\ outs[k] \in Bits
      BY ONLY <1>2, <3>4, <3>5, <3>6, AdderAnswered
    <3>8. call = sum
      BY <3>2 DEF left, right
    <3> QED
      BY <3>7, <3>8
  <2>2. CASE stage # "aggregate"
    <3> DEFINE bits == PublicBits(election.tau, width)
    <3>1. ComparesSoFar(outs, GateCount(width), frontier[1], bits)
      BY <1>2, <1>3, <2>2 DEF HonestWith
    <3>2. call = SubLTBits(frontier[1], bits, outs).calls[k]
      BY <2>2 DEF Circuit
    <3>3. frontier[1] \in [1..width -> Bits] /\ bits \in [1..width -> Bits] /\ width \in Nat \ {0}
      BY <1>1, <2>2
    <3> HIDE DEF outs, width, bits, call
    <3> QED
      BY ONLY <1>2, <3>1, <3>2, <3>3, ComparisonAnswered
  <2> QED
    BY <2>1, <2>2
<1>5. k \in DOMAIN outs
  BY <1>1, <1>2 DEF TInv, Inv, LevelOK
<1>6. Records(p)[k] = Record(StartGateId(p) + k - 1, Label(p, call), call, outs[k])
  BY <1>5, Zenon DEF Records
<1> HIDE DEF call, outs
<1> DEFINE r == Records(p)[k]
<1>7. /\ DOMAIN r = {"gateIndex", "label", "x", "y", "out"}
      /\ r.out = outs[k] /\ r.label = Label(p, call) /\ r.x = call.x /\ r.y = call.y
  BY <1>6 DEF Record
<1> HIDE DEF r
<1>8. outs[k] \in Int /\ GateVerifies(r)
  BY <1>4, <1>7 DEF GateVerifies, Bits
<1> QED
  BY <1>7, <1>8 DEF IsEntry, r, call, outs

\* The blocks of a level hold the records of its nodes, and nothing else.
LEMMA BlocksHold ==
  ASSUME Inv, Running, Succeeded, NEW blocks,
         blocks = InNodeOrder([p \in 1..NodeCount |-> Records(p)], NodeGates)
  PROVE  /\ \A p \in 1..NodeCount, k \in 1..NodeGates :
              blocks[(p - 1) * NodeGates + k] = Records(p)[k]
         /\ \A i \in 1..(NodeCount * NodeGates) :
              \E p \in 1..NodeCount, k \in 1..NodeGates : i = (p - 1) * NodeGates + k
<1> DEFINE n == NodeCount
           g == NodeGates
           r == [p \in 1..n |-> Records(p)]
<1>1. n \in Nat \ {0} /\ g \in Nat \ {0} /\ n \in Nat
  BY LevelHasGates DEF Inv
<1>2. blocks = [i \in 1..(n * g) |-> r[((i - 1) \div g) + 1][((i - 1) % g) + 1]]
  <2>1. Len(r) = n
    BY <1>1
  <2> QED
    BY <2>1 DEF InNodeOrder
<1> HIDE DEF n, g
<1>3. ASSUME NEW p \in 1..n, NEW k \in 1..g
      PROVE  blocks[(p - 1) * g + k] = Records(p)[k]
  <2> DEFINE i == (p - 1) * g + k
  <2>1. i \in 1..(n * g)
    BY <1>1, PlaceInBlocks
  <2> DEFINE q == ((i - 1) \div g) + 1
             l == ((i - 1) % g) + 1
  <2>2. q \in 1..n /\ l \in 1..g /\ ((i - 1) \div g) * g + ((i - 1) % g) = i - 1
    BY <1>1, <2>1, BlockOfPlace
  <2>3. q = p /\ l = k
    <3> DEFINE a == (i - 1) \div g
               b == (i - 1) % g
    <3>1. a \in Nat /\ b + 1 \in 1..g /\ a * g + b = i - 1 /\ p - 1 \in Nat /\ b \in Int
      <4>1. a + 1 \in 1..n /\ b + 1 \in 1..g /\ a * g + b = i - 1 /\ a \in Int /\ b \in Int
        <5>1. i - 1 \in Int
          BY <1>1, <2>1
        <5> QED
          BY <1>1, <2>2, <5>1
      <4> HIDE DEF a, b, i
      <4> QED
        BY ONLY <1>1, <4>1, p \in 1..n
    <3> HIDE DEF a, b
    <3>2. a * g + (b + 1) = (p - 1) * g + k
      <4> DEFINE x == a * g
                 y == (p - 1) * g
      <4>1. x \in Int /\ y \in Int /\ x + b = (y + k) - 1
        <5>1. x \in Int /\ y \in Int
          BY ONLY <1>1, <3>1, p \in 1..n
        <5> QED
          BY <3>1, <5>1
      <4> HIDE DEF x, y
      <4>2. x + (b + 1) = y + k
        BY ONLY <3>1, <4>1, k \in 1..g, <1>1
      <4> QED
        BY <4>2 DEF x, y
    <3>3. a = p - 1 /\ b + 1 = k
      BY <1>1, <3>1, <3>2, BlocksAreDisjoint
    <3>4. a + 1 = p
      BY ONLY <3>3, p \in 1..n, <1>1
    <3> QED
      BY <3>3, <3>4 DEF a, b
  <2>4. blocks[i] = r[q][l]
    BY <1>2, <2>1, Zenon
  <2> HIDE DEF q, l, i
  <2>5. blocks[i] = r[p][k]
    BY <2>3, <2>4
  <2> QED
    BY <2>5 DEF i
<1>4. ASSUME NEW i \in 1..(n * g)
      PROVE  \E p \in 1..n, k \in 1..g : i = (p - 1) * g + k
  <2> DEFINE a == (i - 1) \div g
             b == (i - 1) % g
  <2>1. a + 1 \in 1..n /\ b + 1 \in 1..g /\ a * g + b = i - 1
    BY <1>1, BlockOfPlace
  <2>2. a \in Int /\ b \in Int /\ i \in Int
    BY <1>1
  <2> HIDE DEF a, b
  <2>3. i = ((a + 1) - 1) * g + (b + 1)
    <3> DEFINE x == a * g
    <3>1. x \in Int /\ x + b = i - 1 /\ (a + 1) - 1 = a
      BY <1>1, <2>1, <2>2
    <3> HIDE DEF x
    <3>2. i = x + (b + 1)
      BY ONLY <2>2, <3>1
    <3> QED
      BY <3>1, <3>2 DEF x
  <2> QED
    BY <2>1, <2>3
<1> QED
  BY <1>3, <1>4 DEF n, g

\* Records appended to the journal: where they are, and what a walk with all the
\* outputs knows of them.
Grown(longer, records, n) ==
  /\ Len(journal) \in Nat /\ Len(longer) = Len(journal) + n
  /\ DOMAIN longer = 1..Len(longer)
  /\ \A i \in 1..Len(journal) : longer[i] = journal[i]
  /\ \A k \in 1..n : longer[Len(journal) + k] = records[k]
  /\ \A i \in 1..Len(longer) : IsEntry(longer[i])
  /\ Outputs(longer) \in Seq(Int) /\ Len(Outputs(longer)) = Len(longer)
  /\ \A later : Begins(Outputs(longer), Len(longer), later) =>
       /\ Begins(Outputs(journal), Len(journal), later)
       /\ \A k \in 1..n : later[Len(journal) + k] = records[k].out

LEMMA JournalGrows ==
  ASSUME Inv, \A i \in 1..Len(journal) : IsEntry(journal[i]),
         NEW n \in Nat, NEW records, DOMAIN records = 1..n, Len(records) = n,
         \A k \in 1..n : IsEntry(records[k]),
         NEW longer, longer = journal \o records
  PROVE  Grown(longer, records, n)
<1> DEFINE m == Len(journal)
<1>1. DOMAIN journal = 1..m /\ m \in Nat
  BY DEF Inv, LevelOK
<1> HIDE DEF m
<1>2. /\ DOMAIN longer = 1..Len(longer) /\ Len(longer) = m + n
      /\ \A i \in 1..m : longer[i] = journal[i]
      /\ \A k \in 1..n : longer[m + k] = records[k]
  <2>1. /\ DOMAIN (journal \o records) = 1..Len(journal \o records)
        /\ Len(journal \o records) = m + n
        /\ \A i \in 1..m : (journal \o records)[i] = journal[i]
        /\ \A k \in 1..n : (journal \o records)[m + k] = records[k]
    <3>1. DOMAIN journal = 1..Len(journal) /\ Len(journal) \in Nat /\ n \in Nat
          /\ DOMAIN records = 1..n /\ Len(records) = n
      BY <1>1 DEF m
    <3> QED
      BY ONLY <3>1 DEF m
  <2> QED
    BY <2>1, Zenon
<1>3. ASSUME NEW i \in 1..Len(longer) PROVE IsEntry(longer[i])
  <2>1. CASE i \in 1..m
    BY <1>2, <2>1 DEF m
  <2>2. CASE i \notin 1..m
    <3>1. i - m \in 1..n /\ m + (i - m) = i
      BY <1>1, <1>2, <2>2
    <3>2. longer[m + (i - m)] = records[i - m]
      BY <1>2, <3>1
    <3> QED
      BY <3>1, <3>2
  <2> QED
    BY <2>1, <2>2
<1>4. /\ DOMAIN Outputs(longer) = 1..(m + n)
      /\ \A i \in 1..(m + n) : Outputs(longer)[i] = longer[i].out /\ Outputs(longer)[i] \in Int
  BY <1>2, <1>3 DEF Outputs, IsEntry
<1>5. Outputs(longer) \in Seq(Int) /\ Len(Outputs(longer)) = m + n
  <2> DEFINE f == Outputs(longer)
  <2>1. f = [i \in 1..(m + n) |-> f[i]] /\ m + n \in Nat
    BY <1>1, <1>2 DEF Outputs
  <2> HIDE DEF f
  <2>2. f \in [1..(m + n) -> Int]
    BY <1>4, <2>1 DEF f
  <2>3. f \in Seq(Int) /\ Len(f) = m + n
    BY ONLY <2>1, <2>2
  <2> QED
    BY <2>3 DEF f
<1>6. ASSUME NEW later, Begins(Outputs(longer), Len(longer), later)
      PROVE  /\ Begins(Outputs(journal), m, later)
             /\ \A k \in 1..n : later[m + k] = records[k].out
  <2>1. /\ later \in Seq(Int) /\ m + n <= Len(later) /\ Len(later) \in Nat
        /\ \A i \in 1..(m + n) : later[i] = longer[i].out
    BY <1>2, <1>4, <1>6 DEF Begins
  <2>2. ASSUME NEW i \in 1..m PROVE later[i] = Outputs(journal)[i]
    <3>1. i \in 1..(m + n) /\ longer[i] = journal[i] /\ i \in DOMAIN journal
      BY <1>1, <1>2
    <3>2. Outputs(journal)[i] = journal[i].out
      BY <3>1 DEF Outputs
    <3> QED
      BY <2>1, <3>1, <3>2
  <2>3. \A k \in 1..n : later[m + k] = records[k].out
    <3>1. \A k \in 1..n : m + k \in 1..(m + n)
      BY <1>1
    <3> QED
      BY <1>2, <2>1, <3>1
  <2>4. m <= Len(later)
    BY <1>1, <2>1
  <2> QED
    BY <2>1, <2>2, <2>3, <2>4 DEF Begins
<1> QED
  BY <1>1, <1>2, <1>3, <1>5, <1>6 DEF m, Grown

\* The answers of a worker, as those that replay its node see them.
LEMMA OwnAnswers ==
  ASSUME TInv, Running, NEW p \in 1..NodeCount, Done(p),
         NEW later \in Seq(Int), NEW place \in Nat, place + NodeGates <= Len(later),
         \A k \in 1..NodeGates : later[place + k] = workers[p].outs[k]
  PROVE  Begins(workers[p].outs, NodeGates, From(later, place + 1))
<1> DEFINE g == NodeGates
           own == From(later, place + 1)
<1>1. g \in Nat
  BY LevelHasGates DEF TInv, Inv
<1> HIDE DEF g
<1>2. place + 1 \in Nat \ {0} /\ place + 1 <= Len(later) + 1 /\ Len(later) \in Nat /\ place + g <= Len(later)
  BY <1>1 DEF g
<1>3. /\ own \in Seq(Int) /\ Len(own) = Len(later) + 1 - (place + 1)
      /\ \A i \in 1..(Len(later) + 1 - (place + 1)) : own[i] = later[(place + 1) + i - 1]
  BY <1>2, FromPlace
<1> HIDE DEF own
<1>4. /\ Len(later) + 1 - (place + 1) = Len(later) - place
      /\ \A k \in 1..g : k \in 1..(Len(later) - place) /\ (place + 1) + k - 1 = place + k
      /\ g <= Len(later) - place
  BY ONLY <1>1, <1>2, place \in Nat
<1>5. g <= Len(own) /\ \A k \in 1..g : own[k] = later[place + k]
  BY <1>3, <1>4
<1> QED
  BY <1>3, <1>5 DEF Begins, g, own

\* A walk that matches a journal.
Walked(walk, sums, at, entries) ==
  /\ walk.frontier = sums /\ walk.depth = at
  /\ Len(walk.calls) = Len(entries)
  /\ \A i \in 1..Len(entries) : GateMatches(entries[i], i, walk.calls[i])

\* The walk of a finished level.
LEMMA LevelReplayed ==
  ASSUME RInv, stage = "aggregate", Running, Succeeded,
         NEW blocks, blocks = InNodeOrder([p \in 1..NodeCount |-> Records(p)], NodeGates),
         NEW longer, longer = journal \o blocks,
         NEW later, Begins(Outputs(longer), Len(longer), later),
         NEW t, IsTree(t, election, later)
  PROVE  Walked(t[depth + 1], [p \in 1..NodeCount |-> Circuit(p).output], depth + 1, longer)
<1> DEFINE n == NodeCount
           g == NodeGates
           m == Len(journal)
           before == t[depth]
           after == t[depth + 1]
<1>1. /\ n \in Nat \ {0} /\ g \in Nat \ {0} /\ n * g \in Nat
      /\ DOMAIN blocks = 1..(n * g) /\ Len(blocks) = n * g
      /\ \A i \in 1..(n * g) : blocks[i].gateIndex = nextGateId + i - 1
  BY LevelHasGates, BlocksContinueNumbers DEF RInv, TInv, Inv
<1>2. /\ \A p \in 1..n, k \in 1..g : blocks[(p - 1) * g + k] = Records(p)[k]
      /\ \A i \in 1..(n * g) : \E p \in 1..n, k \in 1..g : i = (p - 1) * g + k
  BY BlocksHold DEF RInv, TInv
<1>3. /\ \A p \in 1..n : Done(p)
      /\ \A p \in 1..n, k \in 1..g :
           /\ IsEntry(Records(p)[k])
           /\ Records(p)[k].out = workers[p].outs[k]
           /\ Records(p)[k].label = Label(p, Circuit(p).calls[k])
           /\ Records(p)[k].x = Circuit(p).calls[k].x /\ Records(p)[k].y = Circuit(p).calls[k].y
  BY RecordsVerify DEF RInv, Succeeded
<1>4. \A i \in 1..(n * g) : IsEntry(blocks[i])
  <2> SUFFICES ASSUME NEW i \in 1..(n * g) PROVE IsEntry(blocks[i])
    OBVIOUS
  <2>1. PICK p \in 1..n, k \in 1..g : i = (p - 1) * g + k
    BY <1>2
  <2> QED
    BY <1>2, <1>3, <2>1
<1>5. /\ m \in Nat /\ Len(longer) = m + n * g
      /\ \A i \in 1..m : longer[i] = journal[i]
      /\ \A k \in 1..(n * g) : longer[m + k] = blocks[k]
      /\ Begins(Outputs(journal), m, later)
      /\ \A k \in 1..(n * g) : later[m + k] = blocks[k].out
  <2>1. Inv /\ \A i \in 1..Len(journal) : IsEntry(journal[i])
    BY DEF RInv, TInv, ReplayInv
  <2> HIDE DEF n, g
  <2> DEFINE b == n * g
  <2>2. b \in Nat /\ DOMAIN blocks = 1..b /\ Len(blocks) = b /\ \A i \in 1..b : IsEntry(blocks[i])
    BY <1>1, <1>4
  <2> HIDE DEF b
  <2>3. Grown(longer, blocks, b)
    BY <2>1, <2>2, JournalGrows
  <2>4. /\ Begins(Outputs(journal), m, later)
        /\ \A k \in 1..b : later[m + k] = blocks[k].out
    BY <2>3, Zenon DEF Grown
  <2>5. /\ m \in Nat /\ Len(longer) = m + b
        /\ \A i \in 1..m : longer[i] = journal[i]
        /\ \A k \in 1..b : longer[m + k] = blocks[k]
    BY <2>3, Zenon DEF Grown
  <2> QED
    BY <2>4, <2>5 DEF b
<1>6. /\ later \in Seq(Int) /\ Len(later) \in Nat /\ m + n * g <= Len(later)
  BY <1>5 DEF Begins
<1>7. /\ before.frontier = frontier /\ before.depth = depth /\ Len(before.calls) = m
      /\ \A i \in 1..m : GateMatches(journal[i], i, before.calls[i])
  BY <1>5 DEF RInv, ReplayInv, WalkedSoFar
<1>8. /\ depth \in 0..Len(election.inputs) /\ election \in Elections /\ Len(election.inputs) \in Nat
      /\ Len(frontier) = 1 \/ Len(frontier) + depth <= Len(election.inputs)
      /\ Len(frontier) \in Nat /\ Len(frontier) > 1
      /\ nextGateId = m + 1
  BY ElectionsAreRequests DEF RInv, TInv, VoteInv, Inv, LevelOK, NumbersOK, ReplayInv
<1>9. after = ReplayLevel(before, later)
  <2> DEFINE top == Len(election.inputs)
             c == Len(frontier)
  <2>1. depth \in 0..top /\ top \in Nat /\ (c = 1 \/ c + depth <= top) /\ c \in Nat /\ c > 1
    BY <1>8
  <2> HIDE DEF top, c
  <2>2. depth + 1 \in 1..top /\ (depth + 1) - 1 = depth
    BY ONLY <2>1
  <2> QED
    BY <2>2 DEF IsTree, top
<1>10. /\ WalkShape(before) /\ Len(before.frontier) # 1
       /\ n = Len(before.frontier) \div 2 /\ g = GateCount(Len(before.frontier[1]))
  <2>1. WalkShape(before)
    BY <1>8, TreeShape
  <2> QED
    <3>1. n = Len(frontier) \div 2 /\ g = GateCount(Len(frontier[1]))
      BY Zenon DEF NodeCount, NodeGates
    <3>2. Len(frontier) # 1
      <4> DEFINE c == Len(frontier)
      <4>1. c \in Nat /\ c > 1
        BY <1>8
      <4> HIDE DEF c
      <4>2. c # 1
        BY ONLY <4>1
      <4> QED
        BY <4>2 DEF c
    <3> QED
      BY <1>7, <2>1, <3>1, <3>2, Zenon
<1>11. LevelWalked(before, later, after, n, g)
  <2> HIDE DEF n, g, before, after
  <2>1. LevelWalked(before, later, ReplayLevel(before, later), n, g)
    BY <1>10, WalkLevel
  <2> QED
    BY <1>9, <2>1
<1>12. ASSUME NEW p \in 1..n PROVE LevelNode(before, later, p) = Circuit(p)
  <2> DEFINE place == m + (p - 1) * g
             a == (p - 1) * g
             b == n * g
  <2>1. a \in Nat /\ a + g <= b /\ \A k \in 1..g : a + k \in 1..b
    <3>1. n \in Nat /\ 1 \in 1..g
      BY <1>1
    <3> HIDE DEF n, g
    <3> QED
      BY <1>1, <3>1, PlaceInBlocks
  <2>2. \A k \in 1..g : later[m + (a + k)] = workers[p].outs[k]
    <3> SUFFICES ASSUME NEW k \in 1..g PROVE later[m + (a + k)] = workers[p].outs[k]
      OBVIOUS
    <3>1. later[m + (a + k)] = blocks[a + k].out
      BY <1>5, <2>1
    <3> QED
      BY <1>2, <1>3, <3>1
  <2> HIDE DEF a, b, n, g, m
  <2>3. m + a \in Nat /\ (m + a) + g <= Len(later) /\ \A k \in 1..g : (m + a) + k = m + (a + k)
    <3>1. b \in Nat /\ m \in Nat /\ m + b <= Len(later) /\ Len(later) \in Nat /\ g \in Nat
      BY <1>1, <1>5, <1>6 DEF b
    <3> QED
      BY ONLY <2>1, <3>1
  <2>4. \A k \in 1..g : later[(m + a) + k] = workers[p].outs[k]
    BY <2>2, <2>3
  <2>5. Begins(workers[p].outs, NodeGates, From(later, (m + a) + 1))
    BY <1>3, <1>6, <2>3, <2>4, OwnAnswers DEF RInv, n, g
  <2>6. AddBits(frontier[2 * p - 1], frontier[2 * p], From(later, (m + a) + 1)) = Circuit(p)
    BY <1>3, <2>5, NodeReplayed DEF RInv, n
  <2>7. LevelNode(before, later, p)
        = AddBits(frontier[2 * p - 1], frontier[2 * p], From(later, (m + (p - 1) * g) + 1))
    BY <1>7, <1>10, Zenon DEF LevelNode
  <2> QED
    BY <2>6, <2>7, Zenon DEF a
<1>13. after.frontier = [p \in 1..n |-> Circuit(p).output] /\ after.depth = depth + 1
  <2>1. after.frontier = [p \in 1..n |-> LevelNode(before, later, p).output]
    BY <1>11, Zenon DEF LevelWalked
  <2>2. after.depth = depth + 1
    BY <1>7, <1>11, Zenon DEF LevelWalked
  <2> QED
    BY <1>12, <2>1, <2>2, Zenon
<1>14. Len(after.calls) = Len(longer)
  BY <1>5, <1>7, <1>11, Zenon DEF LevelWalked
<1>15. ASSUME NEW i \in 1..Len(longer) PROVE GateMatches(longer[i], i, after.calls[i])
  <2> HIDE DEF n, g, m, before, after
  <2> DEFINE b == n * g
  <2>1. b \in Nat /\ m \in Nat /\ Len(longer) = m + b
    BY <1>1, <1>5
  <2> HIDE DEF b
  <2>2. CASE i \in 1..m
    <3>1. after.calls[i] = before.calls[i]
      BY <1>7, <1>11, <2>2 DEF LevelWalked
    <3>2. longer[i] = journal[i] /\ GateMatches(journal[i], i, before.calls[i])
      BY <1>5, <1>7, <2>2
    <3> QED
      BY <3>1, <3>2, Zenon
  <2>3. CASE i \notin 1..m
    <3>1. i - m \in 1..b /\ m + (i - m) = i
      BY ONLY <2>1, <2>3, i \in 1..Len(longer)
    <3> DEFINE j == i - m
    <3>2. PICK p \in 1..n, k \in 1..g : j = (p - 1) * g + k
      BY <1>2, <3>1 DEF b
    <3>3. longer[i] = Records(p)[k]
      <4>1. longer[m + j] = blocks[j] /\ blocks[j] = Records(p)[k]
        BY <1>2, <1>5, <3>1, <3>2 DEF b
      <4> QED
        BY <3>1, <4>1
    <3>4. after.calls[i] = LevelCall(before, later, p, k)
      <4>1. after.calls[m + ((p - 1) * g + k)] = LevelCall(before, later, p, k)
        BY <1>7, <1>11 DEF LevelWalked
      <4> QED
        BY <3>1, <3>2, <4>1
    <3>5. longer[i].gateIndex = i
      <4>1. blocks[j].gateIndex = nextGateId + j - 1 /\ longer[i] = blocks[j]
        <5>1. longer[m + j] = blocks[j] /\ blocks[j].gateIndex = nextGateId + j - 1
          BY <1>1, <1>5, <3>1 DEF b
        <5> QED
          BY <3>1, <5>1
      <4>2. nextGateId = m + 1
        BY <1>8 DEF m
      <4>3. nextGateId + j - 1 = i
        BY ONLY <2>1, <3>1, <4>2, i \in 1..Len(longer)
      <4> QED
        BY <4>1, <4>3
    <3> HIDE DEF j
    <3>6. /\ Records(p)[k].label = Label(p, Circuit(p).calls[k])
          /\ Records(p)[k].x = Circuit(p).calls[k].x /\ Records(p)[k].y = Circuit(p).calls[k].y
      BY <1>3, Zenon
    <3>7. LevelNode(before, later, p).calls[k] = Circuit(p).calls[k]
      BY <1>12, Zenon
    <3>8. Label(p, Circuit(p).calls[k]) = ReplayLabel("aggregate", before.depth, p, Circuit(p).calls[k])
      BY <1>7, Zenon DEF Label, ReplayLabel
    <3>9. LevelCall(before, later, p, k)
          = Expected(ReplayLabel("aggregate", before.depth, p, Circuit(p).calls[k]), Circuit(p).calls[k])
      BY <3>7, Zenon DEF LevelCall
    <3> DEFINE call == Circuit(p).calls[k]
               label == Label(p, call)
    <3>10. after.calls[i] = Expected(label, call)
      BY <3>4, <3>8, <3>9, Zenon
    <3>11. longer[i].label = label /\ longer[i].x = call.x /\ longer[i].y = call.y
      BY <3>3, <3>6, Zenon
    <3> HIDE DEF call, label
    <3> QED
      BY ONLY <3>5, <3>10, <3>11 DEF GateMatches, Expected
  <2> QED
    BY <2>2, <2>3
<1> QED
  BY <1>13, <1>14, <1>15 DEF Walked

\* The walk of the whole run: the verifier accepts its journal.
LEMMA RunReplayed ==
  ASSUME RInv, stage = "compare", Running, Succeeded,
         NEW longer, longer = journal \o Records(1)
  PROVE  /\ VerifyDag(Replay(election, Outputs(longer)), longer)
         /\ \A i \in 1..Len(longer) : IsEntry(longer[i])
<1> DEFINE g == NodeGates
           m == Len(journal)
           later == Outputs(longer)
           sum == ReplayTree(election, later)
           walk == Replay(election, later)
           top == Len(election.inputs)
<1>1. /\ NodeCount = 1 /\ 1 \in 1..NodeCount /\ g \in Nat \ {0} /\ g = GateCount(Len(frontier[1]))
      /\ Len(frontier) = 1 /\ Done(1)
  BY LevelHasGates, RunningLevel DEF RInv, TInv, Inv, NodeCount, NodeGates, Succeeded
<1>2. \A k \in 1..g :
           /\ IsEntry(Records(1)[k])
           /\ Records(1)[k].out = workers[1].outs[k]
           /\ Records(1)[k].label = Label(1, Circuit(1).calls[k])
           /\ Records(1)[k].x = Circuit(1).calls[k].x /\ Records(1)[k].y = Circuit(1).calls[k].y
  BY <1>1, RecordsVerify DEF RInv
<1>3. DOMAIN Records(1) = 1..g /\ Len(Records(1)) = g
  <2>1. DOMAIN workers[1].outs = 1..g
    BY <1>1 DEF RInv, TInv, Inv, LevelOK, Done
  <2>2. DOMAIN Records(1) = 1..g
    BY <2>1 DEF Records
  <2> DEFINE r == Records(1)
  <2> HIDE DEF r, g
  <2>3. g \in Nat /\ DOMAIN r = 1..g
    BY <1>1, <2>2 DEF r
  <2>4. Len(r) = g
    BY ONLY <2>3
  <2> QED
    BY <2>2, <2>4 DEF r
<1>4. Grown(longer, Records(1), g)
  <2>1. Inv /\ \A i \in 1..Len(journal) : IsEntry(journal[i])
    BY DEF RInv, TInv, ReplayInv
  <2>2. g \in Nat /\ \A k \in 1..g : IsEntry(Records(1)[k])
    BY <1>1, <1>2
  <2> HIDE DEF g
  <2> QED
    BY <1>3, <2>1, <2>2, JournalGrows
<1>5. /\ m \in Nat /\ Len(longer) = m + g /\ DOMAIN longer = 1..(m + g)
      /\ \A i \in 1..m : longer[i] = journal[i]
      /\ \A k \in 1..g : longer[m + k] = Records(1)[k]
      /\ \A i \in 1..Len(longer) : IsEntry(longer[i])
      /\ later \in Seq(Int) /\ Len(later) = m + g
  BY <1>4, Zenon DEF Grown
<1>6. Begins(Outputs(journal), m, later) /\ \A k \in 1..g : later[m + k] = workers[1].outs[k]
  <2>1. Begins(Outputs(longer), Len(longer), later)
    <3>1. Len(later) = Len(longer) /\ Len(longer) <= Len(longer)
      <4> HIDE DEF g, m, later
      <4> QED
        BY <1>1, <1>5
    <3> QED
      BY <1>5, <3>1, Zenon DEF Begins
  <2>2. /\ Begins(Outputs(journal), m, later)
        /\ \A k \in 1..g : later[m + k] = Records(1)[k].out
    BY <1>4, <2>1, Zenon DEF Grown
  <2> QED
    BY <1>2, <2>2
<1>7. PICK t : IsTree(t, election, later) /\ sum = t[top]
  <2>1. top \in Nat
    BY ElectionsAreRequests DEF RInv, TInv, VoteInv
  <2> HIDE DEF later
  <2> QED
    BY <2>1, TreeOfReplay
<1> HIDE DEF later
<1>8. /\ t[depth].frontier = frontier /\ t[depth].depth = depth /\ Len(t[depth].calls) = m
      /\ \A i \in 1..m : GateMatches(journal[i], i, t[depth].calls[i])
  BY <1>6, <1>7 DEF RInv, ReplayInv, WalkedSoFar
<1>9. sum = t[depth]
  <2>1. top \in Nat /\ depth \in 0..top
    BY ElectionsAreRequests DEF RInv, TInv, VoteInv, ReplayInv
  <2>2. Len(t[depth].frontier) = 1
    BY <1>1, <1>8, Zenon
  <2>3. t[top] = t[depth]
    BY <1>7, <2>1, <2>2, TreeStays
  <2> QED
    BY <1>7, <2>3, Zenon
<1>10. WalkShape(sum)
  BY ReplayShape DEF RInv, TInv, VoteInv
<1> HIDE DEF sum
<1>11. ComparisonWalked(election, sum, later, walk, g)
  <2>1. g = GateCount(Len(sum.frontier[1]))
    BY <1>1, <1>8, <1>9, Zenon
  <2>2. walk = ReplayComparison(election, sum, later)
    BY Zenon DEF Replay, sum
  <2> HIDE DEF g, walk
  <2>3. ComparisonWalked(election, sum, later, ReplayComparison(election, sum, later), g)
    BY <1>10, <2>1, WalkComparison
  <2> QED
    BY <2>2, <2>3, Zenon
<1> HIDE DEF walk
<1>12. LastCircuit(election, sum, later).calls = Circuit(1).calls
  <2> DEFINE own == From(later, m + 1)
  <2>1. Begins(workers[1].outs, NodeGates, own)
    <3>1. m + NodeGates <= Len(later)
      <4>1. m + g <= m + g
        <5> HIDE DEF m, g
        <5> QED
          BY ONLY <1>1, <1>5
      <4> QED
        BY <1>5, <4>1, Zenon
    <3>2. m \in Nat
      BY <1>5
    <3>3. \A k \in 1..NodeGates : later[m + k] = workers[1].outs[k]
      BY <1>6
    <3> HIDE DEF m
    <3> QED
      BY <1>1, <1>5, <3>1, <3>2, <3>3, OwnAnswers DEF RInv
  <2>2. SubLTBits(frontier[1], PublicBits(election.tau, Len(frontier[1])), own).calls = Circuit(1).calls
    <3> HIDE DEF own
    <3>1. stage # "aggregate"
      OBVIOUS
    <3> QED
      BY <1>1, <2>1, <3>1, NodeReplayed DEF RInv
  <2>3. LastCircuit(election, sum, later)
        = SubLTBits(frontier[1], PublicBits(election.tau, Len(frontier[1])), own)
    BY <1>8, <1>9, Zenon DEF LastCircuit
  <2> QED
    BY <2>2, <2>3, Zenon
<1>13. /\ IsSequence(walk.calls) /\ Len(walk.calls) = m + g
       /\ \A i \in 1..m : walk.calls[i] = t[depth].calls[i]
       /\ \A k \in 1..g : walk.calls[m + k] = LastCall(election, sum, later, k)
       /\ walk.widthOK = (Len(frontier[1]) = Len(election.inputs[1]) + depth)
  BY <1>8, <1>9, <1>11, Zenon DEF ComparisonWalked
<1>14. walk.widthOK
  BY <1>13 DEF Succeeded, WidthOK
<1>15. ASSUME NEW i \in 1..(m + g) PROVE GateMatches(longer[i], i, walk.calls[i])
  <2>1. CASE i \in 1..m
    <3>1. longer[i] = journal[i] /\ walk.calls[i] = t[depth].calls[i]
      BY <1>5, <1>13, <2>1, Zenon
    <3>2. GateMatches(journal[i], i, t[depth].calls[i])
      BY <1>8, <2>1, Zenon
    <3> QED
      BY <3>1, <3>2, Zenon
  <2>2. CASE i \notin 1..m
    <3> DEFINE k == i - m
               call == Circuit(1).calls[k]
               label == Label(1, call)
    <3>1. k \in 1..g /\ m + k = i
      <4> HIDE DEF m, g
      <4> QED
        BY ONLY <1>1, <1>5, <2>2, i \in 1..(m + g)
    <3> HIDE DEF k
    <3>2. longer[i] = Records(1)[k]
      BY <1>5, <3>1, Zenon
    <3>3. walk.calls[i] = Expected(label, call)
      <4>1. walk.calls[i] = LastCall(election, sum, later, k)
        BY <1>13, <3>1, Zenon
      <4>2. LastCall(election, sum, later, k) = Expected(ReplayLabel("compare", depth, 1, call), call)
        BY <1>8, <1>9, <1>12, Zenon DEF LastCall
      <4>3. ReplayLabel("compare", depth, 1, call) = label
        BY Zenon DEF ReplayLabel, Label
      <4> QED
        BY <4>1, <4>2, <4>3, Zenon
    <3>4. longer[i].gateIndex = i
      <4>1. k \in DOMAIN workers[1].outs
        BY <1>3, <3>1 DEF Records
      <4>2. Records(1)[k].gateIndex = StartGateId(1) + k - 1
        BY <4>1 DEF Records, Record
      <4>3. nextGateId = m + 1
        BY DEF RInv, TInv, Inv, NumbersOK
      <4>4. StartGateId(1) = m + 1
        BY <1>1, <1>5, <4>3 DEF StartGateId
      <4> HIDE DEF m, g
      <4>5. (m + 1) + k - 1 = i
        BY ONLY <1>1, <1>5, <3>1, i \in 1..(m + g)
      <4> QED
        BY <3>2, <4>2, <4>4, <4>5
    <3>5. longer[i].label = label /\ longer[i].x = call.x /\ longer[i].y = call.y
      BY <1>2, <3>1, <3>2, Zenon
    <3> HIDE DEF call, label
    <3> QED
      BY ONLY <3>3, <3>4, <3>5 DEF GateMatches, Expected
  <2> QED
    BY <2>1, <2>2
<1>16. VerifyDag(walk, longer)
  <2>1. \A i \in DOMAIN longer : GateVerifies(longer[i])
    BY <1>5 DEF IsEntry
  <2>2. DOMAIN walk.calls = 1..(m + g) /\ Len(longer) = Len(walk.calls) /\ Len(walk.calls) \in Nat
    BY <1>5, <1>13, Zenon DEF IsSequence
  <2>3. Len(longer) >= Len(walk.calls)
    <3> DEFINE a == Len(longer)
               b == Len(walk.calls)
    <3>1. a = b /\ b \in Nat
      BY <2>2
    <3> HIDE DEF a, b
    <3>2. a >= b
      BY ONLY <3>1
    <3> QED
      BY <3>2 DEF a, b
  <2> QED
    BY <1>14, <1>15, <2>1, <2>2, <2>3, Zenon DEF VerifyDag, WalkMatches
<1> QED
  BY <1>5, <1>16 DEF walk, later

LEMMA InitReplay == Init => ReplayInv
<1> SUFFICES ASSUME Init PROVE ReplayInv
  OBVIOUS
<1>1. /\ election \in Elections /\ frontier = election.inputs /\ depth = 0 /\ journal = <<>>
      /\ stage # "done"
  BY DEF Init, StageOf
<1>2. Len(journal) = 0 /\ Len(election.inputs) \in Nat
  BY <1>1, ElectionsAreRequests
<1>3. ASSUME NEW later, NEW t, IsTree(t, election, later) PROVE WalkedSoFar(t[depth])
  <2>1. t[0].frontier = election.inputs /\ t[0].calls = <<>> /\ t[0].depth = 0
    BY <1>3 DEF IsTree
  <2> QED
    BY <1>1, <1>2, <2>1 DEF WalkedSoFar
<1>4. depth \in 0..Len(election.inputs) /\ Len(frontier) + depth <= Len(election.inputs)
  BY <1>1, <1>2
<1> QED
  BY <1>1, <1>2, <1>3, <1>4 DEF ReplayInv

\* Workers touch neither the journal nor the level.
LEMMA WorkersKeepReplay ==
  ASSUME ReplayInv, UNCHANGED <<election, stage, frontier, depth, journal>>
  PROVE  ReplayInv'
<1>1. Running' = Running
  BY DEF Running
<1> QED
  BY <1>1 DEF ReplayInv, WalkedSoFar

LEMMA CollectLevelReplay ==
  ASSUME RInv, CollectLevel
  PROVE  ReplayInv'
<1> DEFINE blocks == InNodeOrder([p \in 1..NodeCount |-> Records(p)], NodeGates)
           next == [p \in 1..NodeCount |-> Circuit(p).output]
           n == NodeCount * NodeGates
           top == Len(election.inputs)
<1>1. /\ stage = "aggregate" /\ Running /\ Succeeded
      /\ journal' = journal \o blocks /\ frontier' = next /\ depth' = depth + 1
      /\ stage' = StageOf(next) /\ election' = election
  BY DEF CollectLevel, Running
<1>2. DOMAIN blocks = 1..n /\ Len(blocks) = n /\ n \in Nat
  BY <1>1, BlocksContinueNumbers DEF RInv, TInv
<1>3. \A i \in 1..n : IsEntry(blocks[i])
  <2> SUFFICES ASSUME NEW i \in 1..n PROVE IsEntry(blocks[i])
    OBVIOUS
  <2>1. /\ \A p \in 1..NodeCount, k \in 1..NodeGates :
              blocks[(p - 1) * NodeGates + k] = Records(p)[k]
        /\ \A j \in 1..(NodeCount * NodeGates) :
              \E p \in 1..NodeCount, k \in 1..NodeGates : j = (p - 1) * NodeGates + k
    <3> HIDE DEF n
    <3> QED
      BY <1>1, BlocksHold DEF RInv, TInv
  <2>2. PICK p \in 1..NodeCount, k \in 1..NodeGates : i = (p - 1) * NodeGates + k
    BY <2>1
  <2>3. IsEntry(Records(p)[k])
    BY <1>1, RecordsVerify DEF RInv, Succeeded
  <2> HIDE DEF blocks
  <2> QED
    BY <2>1, <2>2, <2>3
<1> HIDE DEF n
<1>4. Grown(journal', blocks, n)
  <2>1. Inv /\ \A i \in 1..Len(journal) : IsEntry(journal[i])
    BY DEF RInv, TInv, ReplayInv
  <2> HIDE DEF blocks
  <2> QED
    BY <1>1, <1>2, <1>3, <2>1, JournalGrows
<1>5. ASSUME NEW later, NEW t, Begins(Outputs(journal'), Len(journal'), later), IsTree(t, election, later)
      PROVE  Walked(t[depth + 1], next, depth + 1, journal')
  BY <1>1, <1>5, LevelReplayed
<1>6. /\ Len(next) = NodeCount /\ NodeCount \in Nat \ {0} /\ Len(frontier) = 2 * NodeCount
      /\ depth \in 0..top /\ top \in Nat
      /\ Len(frontier) = 1 \/ Len(frontier) + depth <= top
  <2>1. NodeCount \in Nat \ {0} /\ Len(frontier) = 2 * NodeCount
    BY <1>1, RunningLevel DEF RInv
  <2>2. Len(next) = NodeCount
    BY <2>1
  <2>3. top \in Nat /\ depth \in 0..top /\ (Len(frontier) = 1 \/ Len(frontier) + depth <= top)
    BY <1>1, ElectionsAreRequests DEF RInv, TInv, VoteInv, ReplayInv
  <2> QED
    BY <2>1, <2>2, <2>3
<1>7. depth + 1 \in 0..top /\ Len(next) + (depth + 1) <= top
  <2> HIDE DEF next, top
  <2> QED
    BY ONLY <1>6
<1>8. \A i \in 1..Len(journal') : IsEntry(journal'[i])
  BY <1>4, Zenon DEF Grown
<1>9. stage' # "done"
  BY <1>1 DEF StageOf
<1>10. ASSUME NEW later, NEW t, Begins(Outputs(journal'), Len(journal'), later), IsTree(t, election', later)
       PROVE  WalkedSoFar(t[depth])'
  <2>1. IsTree(t, election, later)
    BY <1>1, <1>10, Zenon
  <2>2. Walked(t[depth + 1], next, depth + 1, journal')
    BY <1>5, <1>10, <2>1
  <2> HIDE DEF next
  <2>3. Walked(t[depth'], frontier', depth', journal')
    BY <1>1, <2>2, Zenon
  <2> QED
    BY <2>3, Zenon DEF Walked, WalkedSoFar
<1>11. /\ depth' \in 0..Len(election.inputs)'
       /\ Len(frontier)' + depth' <= Len(election.inputs)'
  BY <1>1, <1>7, Zenon DEF top
<1> QED
  <2> HIDE DEF blocks, next, top
  <2> QED
    BY <1>8, <1>9, <1>10, <1>11 DEF ReplayInv, Outputs, IsEntry, GateVerifies, Begins

LEMMA ConcludeReplay ==
  ASSUME RInv, Conclude
  PROVE  ReplayInv'
<1>1. /\ stage = "compare" /\ Running /\ Succeeded
      /\ journal' = journal \o Records(1) /\ stage' = "done" /\ election' = election
  BY DEF Conclude, Running
<1>2. /\ VerifyDag(Replay(election, Outputs(journal')), journal')
      /\ \A i \in 1..Len(journal') : IsEntry(journal'[i])
  BY <1>1, RunReplayed
<1>3. ~Running'
  BY <1>1 DEF Running
<1>4. (\A i \in 1..Len(journal) : IsEntry(journal[i]))'
  BY <1>2, Zenon DEF IsEntry, GateVerifies
<1>5. (stage = "done" => VerifyDag(Replay(election, Outputs(journal)), journal))'
  BY <1>1, <1>2 DEF Outputs
<1> QED
  BY <1>3, <1>4, <1>5 DEF ReplayInv

LEMMA GiveUpReplay ==
  ASSUME GiveUp
  PROVE  ReplayInv'
<1>1. stage' = "failed" /\ journal' = <<>>
  BY DEF GiveUp
<1>2. ~Running' /\ stage' # "done" /\ 1..Len(journal') = {}
  BY <1>1 DEF Running
<1> QED
  BY <1>2 DEF ReplayInv

LEMMA NextReplay == RInv /\ [Next]_vars => ReplayInv'
<1> SUFFICES ASSUME RInv, [Next]_vars PROVE ReplayInv'
  OBVIOUS
<1>1. CASE Running /\ \E p \in 1..NodeCount : RunGate(p) \/ GateFails(p)
  BY <1>1, WorkersKeepReplay DEF RInv, RunGate, GateFails
<1>2. CASE CollectLevel
  BY <1>2, CollectLevelReplay
<1>3. CASE Conclude
  BY <1>3, ConcludeReplay
<1>4. CASE GiveUp
  BY <1>4, GiveUpReplay
<1>5. CASE UNCHANGED vars
  BY <1>5, WorkersKeepReplay DEF RInv, vars
<1> QED
  BY <1>1, <1>2, <1>3, <1>4, <1>5 DEF Next

(* In every run the journal is the one that the walk of the request would   *)
(* call, gate by gate, whatever the order the workers finished in, and at   *)
(* the end the verifier accepts it.                                         *)
THEOREM ReplayInvariant == Spec => []RInv
<1>1. Init => RInv
  BY InitInv, InitVote, InitReplay DEF TInv, RInv
<1>2. RInv /\ [Next]_vars => RInv'
  BY NextInv, NextVote, NextReplay DEF TInv, RInv
<1> QED
  BY <1>1, <1>2, PTL DEF Spec

-----------------------------------------------------------------------------
(* The journals that a verifier may be given.                               *)

IsRecord(entry) ==
  DOMAIN entry = {"gateIndex", "label", "x", "y", "out"} /\ entry.out \in Int

IsJournal(entries) == IsSequence(entries) /\ \A i \in 1..Len(entries) : IsRecord(entries[i])

LEMMA WithoutIsJournal ==
  ASSUME NEW e, IsJournal(e), NEW i \in DOMAIN e PROVE IsJournal(Without(e, i))
<1> DEFINE n == Len(e)
           w == Without(e, i)
<1>1. n \in Nat /\ DOMAIN e = 1..n /\ i \in 1..n /\ \A k \in 1..n : IsRecord(e[k])
  BY DEF IsJournal, IsSequence
<1>2. /\ Len(w) = n - 1 /\ DOMAIN w = 1..(n - 1)
      /\ \A k \in 1..(n - 1) : w[k] = IF k < i THEN e[k] ELSE e[k + 1]
  <2> DEFINE a == SubSeq(e, 1, i - 1)
             b == SubSeq(e, i + 1, n)
  <2>1. n \in Nat /\ i \in 1..n
    BY <1>1
  <2>2. /\ Len(a) = i - 1 /\ DOMAIN a = 1..(i - 1) /\ i - 1 \in Nat
        /\ \A k \in 1..(i - 1) : a[k] = e[k]
    <3> HIDE DEF n
    <3> QED
      BY ONLY <2>1
  <2>3. /\ Len(b) = n - i /\ DOMAIN b = 1..(n - i) /\ n - i \in Nat
        /\ \A k \in 1..(n - i) : b[k] = e[k + i]
    <3> HIDE DEF n
    <3> QED
      BY ONLY <2>1
  <2>4. w = a \o b
    BY DEF Without
  <2> HIDE DEF a, b, n, w
  <2>5. Len(w) = (i - 1) + (n - i) /\ DOMAIN w = 1..((i - 1) + (n - i))
    <3> DEFINE p == i - 1
               q == n - i
    <3>1. Len(a) = p /\ DOMAIN a = 1..p /\ p \in Nat /\ Len(b) = q /\ DOMAIN b = 1..q /\ q \in Nat
      BY <2>2, <2>3
    <3> HIDE DEF p, q
    <3>2. Len(a \o b) = p + q /\ DOMAIN (a \o b) = 1..(p + q)
      BY ONLY <3>1
    <3> QED
      BY <2>4, <3>2 DEF p, q
  <2>6. (i - 1) + (n - i) = n - 1
    BY ONLY <2>1
  <2>7. ASSUME NEW k \in 1..(n - 1)
        PROVE  w[k] = IF k < i THEN e[k] ELSE e[k + 1]
    <3>1. CASE k < i
      <4>1. k \in 1..(i - 1)
        BY ONLY <2>1, <3>1, k \in 1..(n - 1)
      <4>2. w[k] = a[k]
        BY ONLY <2>2, <2>3, <2>4, <4>1
      <4> QED
        BY <2>2, <3>1, <4>1, <4>2
    <3>2. CASE ~(k < i)
      <4> DEFINE j == k - (i - 1)
      <4>1. j \in 1..(n - i) /\ (i - 1) + j = k /\ j + i = k + 1
        BY ONLY <2>1, <3>2, k \in 1..(n - 1)
      <4> HIDE DEF j
      <4>2. w[(i - 1) + j] = b[j]
        BY ONLY <2>2, <2>3, <2>4, <4>1
      <4> QED
        BY <2>3, <3>2, <4>1, <4>2
    <3> QED
      BY <3>1, <3>2
  <2> QED
    BY <2>5, <2>6, <2>7
<1> HIDE DEF w, n
<1>3. ASSUME NEW k \in 1..(n - 1) PROVE IsRecord(w[k])
  <2>1. k \in 1..n /\ k + 1 \in 1..n
    BY <1>1
  <2> QED
    BY <1>1, <1>2, <2>1
<1>4. n - 1 \in Nat
  BY <1>1
<1> QED
  BY <1>2, <1>3, <1>4 DEF IsJournal, IsSequence, w

LEMMA InsertedIsJournal ==
  ASSUME NEW e, IsJournal(e), NEW i \in DOMAIN e, NEW r, IsRecord(r)
  PROVE  IsJournal(InsertAt(e, i, r))
<1> DEFINE n == Len(e)
           w == InsertAt(e, i, r)
<1>1. n \in Nat /\ DOMAIN e = 1..n /\ i \in 1..n /\ \A k \in 1..n : IsRecord(e[k])
  BY DEF IsJournal, IsSequence
<1>2. /\ Len(w) = n + 1 /\ DOMAIN w = 1..(n + 1)
      /\ \A k \in 1..(n + 1) : w[k] = IF k < i THEN e[k] ELSE IF k = i THEN r ELSE e[k - 1]
  BY <1>1 DEF InsertAt
<1> HIDE DEF w, n
<1>3. ASSUME NEW k \in 1..(n + 1) PROVE IsRecord(w[k])
  <2>1. (k < i => k \in 1..n) /\ (~(k < i) /\ k # i => k - 1 \in 1..n)
    BY <1>1
  <2> QED
    BY <1>1, <1>2, <2>1
<1>4. n + 1 \in Nat
  BY <1>1
<1> QED
  BY <1>2, <1>3, <1>4 DEF IsJournal, IsSequence, w

LEMMA AppendedIsJournal ==
  ASSUME NEW e, IsJournal(e), NEW r, IsRecord(r)
  PROVE  IsJournal(Append(e, r))
<1> DEFINE n == Len(e)
           w == Append(e, r)
<1>1. n \in Nat /\ DOMAIN e = 1..n /\ \A k \in 1..n : IsRecord(e[k])
  BY DEF IsJournal, IsSequence
<1>2. /\ Len(w) = n + 1 /\ DOMAIN w = 1..(n + 1)
      /\ \A k \in 1..(n + 1) : w[k] = IF k = n + 1 THEN r ELSE e[k]
  BY <1>1
<1> HIDE DEF w, n
<1>3. ASSUME NEW k \in 1..(n + 1) PROVE IsRecord(w[k])
  <2>1. k # n + 1 => k \in 1..n
    BY <1>1
  <2> QED
    BY <1>1, <1>2, <2>1
<1>4. n + 1 \in Nat
  BY <1>1
<1> QED
  BY <1>2, <1>3, <1>4 DEF IsJournal, IsSequence, w

LEMMA ReplacedIsJournal ==
  ASSUME NEW e, IsJournal(e), NEW w, DOMAIN w = DOMAIN e, Len(w) = Len(e),
         \A k \in 1..Len(e) : IsRecord(w[k])
  PROVE  IsJournal(w)
  BY DEF IsJournal, IsSequence

LEMMA ValuesAreNumbers == Values \subseteq Int
  BY OddOrder DEF Values, Bits

LEMMA AlteredIsJournal ==
  ASSUME NEW e, IsJournal(e)
  PROVE  \A other \in Altered(e) : IsJournal(other)
<1> DEFINE lost == { Without(e, i) : i \in DOMAIN e }
           repeated == { InsertAt(e, i, e[i]) : i \in DOMAIN e }
           swapped == { Swapped(e, i) : i \in 1..(Len(e) - 1) }
           added == { Append(e, e[i]) : i \in DOMAIN e }
           moved == lost \cup repeated \cup swapped \cup added
<1>1. Len(e) \in Nat /\ DOMAIN e = 1..Len(e) /\ \A k \in 1..Len(e) : IsRecord(e[k])
  BY DEF IsJournal, IsSequence
<1>2. \A other \in lost : IsJournal(other)
  BY WithoutIsJournal
<1>3. \A other \in repeated : IsJournal(other)
  BY <1>1, InsertedIsJournal
<1>4. \A other \in added : IsJournal(other)
  BY <1>1, AppendedIsJournal
<1>5. \A other \in swapped : IsJournal(other)
  <2> SUFFICES ASSUME NEW i \in 1..(Len(e) - 1) PROVE IsJournal(Swapped(e, i))
    OBVIOUS
  <2> DEFINE w == Swapped(e, i)
  <2>1. DOMAIN w = DOMAIN e /\ Len(w) = Len(e)
    BY <1>1 DEF Swapped
  <2>2. ASSUME NEW k \in 1..Len(e) PROVE IsRecord(w[k])
    <3>1. i \in 1..Len(e) /\ i + 1 \in 1..Len(e)
      BY <1>1
    <3>2. w[k] \in {e[k], e[i], e[i + 1]}
      BY <1>1, <3>1 DEF Swapped
    <3> QED
      BY <1>1, <3>1, <3>2
  <2> HIDE DEF w
  <2> QED
    BY <2>1, <2>2, ReplacedIsJournal DEF w
<1>6. ASSUME NEW f, IsJournal(f) PROVE IsJournal(Renumbered(f))
  <2> DEFINE w == Renumbered(f)
  <2>1. DOMAIN f = 1..Len(f) /\ Len(f) \in Nat /\ \A k \in 1..Len(f) : IsRecord(f[k])
    BY <1>6 DEF IsJournal, IsSequence
  <2>2. DOMAIN w = DOMAIN f /\ Len(w) = Len(f)
    BY <2>1 DEF Renumbered
  <2>3. \A k \in 1..Len(f) : IsRecord(w[k])
    BY <2>1 DEF Renumbered, IsRecord
  <2> HIDE DEF w
  <2> QED
    BY <1>6, <2>2, <2>3, ReplacedIsJournal DEF w
<1>7. ASSUME NEW i \in DOMAIN e, NEW r \in Replacements(e[i])
      PROVE  IsJournal([e EXCEPT ![i] = r])
  <2> DEFINE w == [e EXCEPT ![i] = r]
  <2>1. IsRecord(r)
    <3>1. PICK x \in Values, y \in Values, out \in Values :
            r = Record(e[i].gateIndex, e[i].label, [x |-> x, y |-> y], out)
      BY <1>7 DEF Replacements
    <3>2. out \in Int
      BY ValuesAreNumbers
    <3> QED
      BY <3>1, <3>2 DEF IsRecord, Record
  <2>2. DOMAIN w = DOMAIN e /\ Len(w) = Len(e) /\ \A k \in 1..Len(e) : w[k] \in {e[k], r}
    BY <1>1
  <2>3. \A k \in 1..Len(e) : IsRecord(w[k])
    BY <1>1, <2>1, <2>2
  <2> HIDE DEF w
  <2> QED
    BY <2>2, <2>3, ReplacedIsJournal DEF w
<1>8. \A other \in moved : IsJournal(other)
  BY <1>2, <1>3, <1>4, <1>5
<1> HIDE DEF moved
<1>9. Altered(e) = moved \cup { Renumbered(f) : f \in moved }
                   \cup UNION { { [e EXCEPT ![i] = r] : r \in Replacements(e[i]) } : i \in DOMAIN e }
  BY Zenon DEF Altered, moved
<1> QED
  BY <1>6, <1>7, <1>8, <1>9

\* The journal of a run that is done, and those it may be replaced by.
LEMMA RunIsJournal ==
  ASSUME RInv
  PROVE  \A other \in {journal} \cup Altered(journal) : IsJournal(other)
<1>1. IsJournal(journal)
  BY DEF RInv, TInv, Inv, LevelOK, ReplayInv, IsEntry, IsRecord, IsJournal, IsSequence
<1> QED
  BY <1>1, AlteredIsJournal

LEMMA ReplayHasCalls ==
  ASSUME RInv PROVE \A outs : IsSequence(Replay(election, outs).calls)
  BY ReplayShape DEF RInv, TInv, VoteInv

LEMMA VerifiersFollow == RInv => VerifiersAgree
<1> SUFFICES ASSUME RInv, stage = "done"
             PROVE  /\ VerifyDag(Replay(election, Outputs(journal)), journal)
                    /\ VerifyDagFile(Replay(election, Outputs(journal)), journal)
                    /\ \A other \in Altered(journal) :
                         VerifyDag(Replay(election, Outputs(other)), other)
                         <=> VerifyDagFile(Replay(election, Outputs(other)), other)
  BY DEF VerifiersAgree
<1>1. ASSUME NEW other \in {journal} \cup Altered(journal)
      PROVE  VerifyDag(Replay(election, Outputs(other)), other)
             <=> VerifyDagFile(Replay(election, Outputs(other)), other)
  BY RunIsJournal, ReplayHasCalls, StreamAgrees DEF IsJournal
<1>2. VerifyDag(Replay(election, Outputs(journal)), journal)
  BY DEF RInv, ReplayInv
<1> QED
  BY <1>1, <1>2

(* In every run, for every number of voters, every width and every size of  *)
(* a batch: both verifiers accept the journal of the run, and say the same  *)
(* of every journal that differs from it by a record lost, repeated, moved, *)
(* renumbered, replaced or added.                                           *)
THEOREM ReplaysAgree == Spec => []VerifiersAgree
  BY ReplayInvariant, VerifiersFollow, PTL

LEMMA AcceptedFollow == RInv => AcceptedJournalDecides
<1> SUFFICES ASSUME RInv,
                    NEW other \in {journal} \cup Altered(journal),
                    VerifyDag(Replay(election, Outputs(other)), other)
                    \/ VerifyDagFile(Replay(election, Outputs(other)), other)
             PROVE  Replay(election, Outputs(other)).result
                    = IF TotalWeight >= election.tau THEN 1 ELSE 0
  BY DEF AcceptedJournalDecides
<1>1. IsSequence(other) /\ \A i \in DOMAIN other : other[i].out \in Int
  BY RunIsJournal DEF IsJournal, IsSequence, IsRecord
<1>2. election \in Elections
  BY DEF RInv, TInv, VoteInv
<1>3. Replay(election, Outputs(other)).result = RightDecision
  BY <1>1, <1>2, AcceptedIsRight
<1> QED
  BY <1>3 DEF RightDecision

(* In every run: whatever journal one of the verifiers accepts, the run's   *)
(* own or an altered one, it decides as the ballots' weights demand.        *)
THEOREM AcceptedDecidesRight == Spec => []AcceptedJournalDecides
  BY ReplayInvariant, AcceptedFollow, PTL
=============================================================================

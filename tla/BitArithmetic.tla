--------------------------- MODULE BitArithmetic ----------------------------
(* The circuits of js_protocol/src/arithmetic.js and of gate.rs.  Additions *)
(* and scalings of ciphertexts act on the plaintext exponents, which are    *)
(* integers modulo the subgroup order; a product needs a gate, which a      *)
(* circuit asks of its caller.  An operator below is given `outs`, the      *)
(* answers of the gates so far, and returns every gate call it makes (the   *)
(* k-th depends on the answers before it only) with its output wires.  The  *)
(* same operators serve those who run gates and those who replay them.      *)
(* Bit vectors are least significant bit first, and start at 1.             *)
EXTENDS Integers, Sequences

CONSTANT SubgroupOrder

ASSUME OddOrder == SubgroupOrder \in Nat /\ SubgroupOrder > 2 /\ SubgroupOrder % 2 = 1

Field == 0..(SubgroupOrder - 1)
Bits == {0, 1}

InverseTwo_Floor == SubgroupOrder \div 2    \* Faulty: not the inverse of two
InverseTwo == (SubgroupOrder + 1) \div 2

AffineSubtract(left, right) == (left - right) % SubgroupOrder
XorWithProduct_Or(left, right, product) == (left + right - product) % SubgroupOrder    \* Faulty: an or
XorWithProduct(left, right, product) == (left + right - 2 * product) % SubgroupOrder

(* A gate multiplies when its second input, the selector, is a bit; the     *)
(* opened sign of any other selector decodes to nothing.                    *)
GateOutput(x, y) == (x * y) % SubgroupOrder

Answer(outs, k) == IF k \in DOMAIN outs THEN outs[k] ELSE 0

GateCount(width) == 2 * width - 1

(* Bit b > 1 of either circuit calls gate 2b-2 and then gate 2b-1.          *)
Gate(bit, kind, x, y) == [bit |-> bit, kind |-> kind, x |-> x, y |-> y]

AddBits(left, right, outs) ==
  LET width == Len(left)
      pairXor(b) == XorWithProduct(left[b], right[b], Answer(outs, 2 * b - 2))
      sumBit(b, carry) == XorWithProduct(pairXor(b), carry, Answer(outs, 2 * b - 1))
      carry[b \in 1..width] ==
        IF b = 1 THEN Answer(outs, 1)
        ELSE LET in == carry[b - 1] IN
             (InverseTwo * (left[b] + right[b] + in - sumBit(b, in))) % SubgroupOrder
      call(k) ==
        LET b == k \div 2 + 1 IN
        IF k = 1 THEN Gate(1, "CARRY", left[1], right[1])
        ELSE IF k % 2 = 0 THEN Gate(b, "PAIR_PRODUCT", left[b], right[b])
        ELSE Gate(b, "CARRY_PRODUCT", pairXor(b), carry[b - 1])
  IN [calls  |-> [k \in 1..GateCount(width) |-> call(k)],
      output |-> [b \in 1..(width + 1) |->
                    IF b = 1 THEN XorWithProduct(left[1], right[1], Answer(outs, 1))
                    ELSE IF b <= width THEN sumBit(b, carry[b - 1])
                    ELSE carry[width]]]

SubLTBits(left, right, outs) ==
  LET width == Len(left)
      borrow[b \in 1..width] ==
        IF b = 1 THEN AffineSubtract(right[1], Answer(outs, 1))
        ELSE AffineSubtract(
               AffineSubtract(right[b] + borrow[b - 1], Answer(outs, 2 * b - 2)),
               Answer(outs, 2 * b - 1))
      yXorBorrow(b) == XorWithProduct(right[b], borrow[b - 1], Answer(outs, 2 * b - 2))
      call(k) ==
        LET b == k \div 2 + 1 IN
        IF k = 1 THEN Gate(1, "PRODUCT", left[1], right[1])
        ELSE IF k % 2 = 0 THEN Gate(b, "Y_BORROW", right[b], borrow[b - 1])
        ELSE Gate(b, "X_PRODUCT", left[b], yXorBorrow(b))
  IN [calls      |-> [k \in 1..GateCount(width) |-> call(k)],
      difference |-> [b \in 1..width |->
                        IF b = 1 THEN XorWithProduct(left[1], right[1], Answer(outs, 1))
                        ELSE XorWithProduct(left[b], yXorBorrow(b), Answer(outs, 2 * b - 1))],
      borrow     |-> borrow[width]]

DecisionFromBorrow(borrow) == AffineSubtract(1, borrow)

(* The number that a vector of bits stands for, from its highest bit down.  *)
ValueOf(bits) ==
  LET value[b \in 1..(Len(bits) + 1)] ==
        IF b = Len(bits) + 1 THEN 0 ELSE bits[b] + 2 * value[b + 1]
  IN value[1]

(* The first bits of a public number, which is shifted right bit by bit.    *)
Shifted(n, width) ==
  LET shifted[b \in 1..width] == IF b = 1 THEN n ELSE shifted[b - 1] \div 2
  IN shifted
PublicBits_Short(n, width) ==    \* Faulty: the top bit of the threshold is lost
  [b \in 1..width |-> IF b = width THEN 0 ELSE Shifted(n, width)[b] % 2]
PublicBits(n, width) == [b \in 1..width |-> Shifted(n, width)[b] % 2]
=============================================================================

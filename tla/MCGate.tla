------------------------------- MODULE MCGate -------------------------------
(* Instances of the conditional gate for TLC.                               *)
EXTENDS GateTranscript

(* s(t) = 1 + t modulo 5: two of three trustees, shares 2, 3, 4.            *)
TwoOfThree == <<1, 1>>

(* s(t) = 2 + t modulo 5: both of two trustees, shares 3, 4.                *)
TwoOfTwo == <<2, 1>>

(* A difference of bits, a bit, and (as selector) a value that is no bit.   *)
MinusOneToOne == {0, 1, 4}
BitsAndTwo == {0, 1, 2}

(* Another invocation of the gate, and another gate.                        *)
ThreeGates ==
  << [gate |-> 1, invocation |-> 0], [gate |-> 1, invocation |-> 1], [gate |-> 2, invocation |-> 1] >>
Second == ThreeGates[2]
=============================================================================

----------------------------- MODULE ProductGate -----------------------------
(* What one conditional gate promises: asked for x and a selector y, it     *)
(* answers x * y once if y is a bit, or fails, and never answers again.     *)
EXTENDS Integers

CONSTANT Modulus

VARIABLES x, y, answer

vars == <<x, y, answer>>

Pending == [status |-> "running", value |-> 0]
Failed == [status |-> "failed", value |-> 0]

Init ==
  /\ x \in 0..(Modulus - 1)
  /\ y \in 0..(Modulus - 1)
  /\ answer = Pending

Answer ==
  /\ answer = Pending
  /\ y \in {0, 1}
  /\ answer' = [status |-> "opened", value |-> (x * y) % Modulus]
  /\ UNCHANGED <<x, y>>

Fail ==
  /\ answer = Pending
  /\ answer' = Failed
  /\ UNCHANGED <<x, y>>

Next == Answer \/ Fail

Spec == Init /\ [][Next]_vars
=============================================================================

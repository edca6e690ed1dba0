--------------------------- MODULE DecisionRelease ---------------------------
(* What the final release promises: of all that was tallied, one bit is     *)
(* opened, it is the decision, and it is opened once.                       *)
EXTENDS Integers

CONSTANT Modulus

VARIABLES decision, opened

vars == <<decision, opened>>

Nothing == -1

Init ==
  /\ decision \in 0..(Modulus - 1)
  /\ opened = Nothing

Open ==
  /\ opened = Nothing
  /\ decision \in {0, 1}
  /\ opened' = decision
  /\ UNCHANGED decision

Spec == Init /\ [][Open]_vars
=============================================================================

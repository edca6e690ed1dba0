---------------------------- MODULE WeightedVote ----------------------------
(* What a tally promises: of the weights it was given it decides one bit,   *)
(* once, whether their sum reaches the threshold; or it fails, and then     *)
(* decides nothing.                                                         *)
EXTENDS SequenceSum

VARIABLES
  weights, tau,
  status,       \* "pending", "decided" or "failed"
  outcome       \* <<bit>> once decided, <<>> before and after a failure
vars == <<weights, tau, status, outcome>>

TotalWeight == SumSeq(weights)

Init ==
  /\ weights \in Seq(Nat)
  /\ tau \in Nat
  /\ status = "pending"
  /\ outcome = <<>>

Decide ==
  /\ status = "pending"
  /\ status' = "decided"
  /\ outcome' = IF TotalWeight >= tau THEN <<1>> ELSE <<0>>
  /\ UNCHANGED <<weights, tau>>

Fail ==
  /\ status = "pending"
  /\ status' = "failed"
  /\ UNCHANGED <<weights, tau, outcome>>

Next == Decide \/ Fail

Spec == Init /\ [][Next]_vars
=============================================================================

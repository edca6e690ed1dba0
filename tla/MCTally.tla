------------------------------ MODULE MCTally ------------------------------
(* Requests of the tally for TLC.                                           *)
EXTENDS TallyTranscript

Vectors(width) == [1..width -> Bits]
MaxTau(voters, width) == voters * (2^width - 1)

Requests(voters, width) ==
  [inputs : [1..voters -> Vectors(width)], tau : 0..MaxTau(voters, width)]

(* Thresholds on both sides of the sum, for the larger instances.           *)
Total(inputs) == SumSeq([v \in DOMAIN inputs |-> ValueOf(inputs[v])])
BoundaryRequests(voters, width) ==
  { e \in Requests(voters, width) : e.tau \in {Total(e.inputs), Total(e.inputs) + 1} }

MCReplayed == BoundaryRequests(2, 2) \cup BoundaryRequests(4, 1)
MCElections ==
  Requests(2, 3) \cup BoundaryRequests(4, 2) \cup BoundaryRequests(8, 1) \cup MCReplayed
=============================================================================

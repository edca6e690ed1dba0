SPECIFICATION Spec
CONSTANTS
  SubgroupOrder = 5
  Trustees = 3
  Coefficients <- TwoOfThree
  Comparisons <- Tallied
  Quorums <- AllQuorums
  Nonces = {0, 1, 3}
  Session = 999
INVARIANTS
  OpensOnlyRerandomized
  FailedCallsOpenNothing
  VerifierIsExact
PROPERTY
  ImplementsDecisionRelease
CHECK_DEADLOCK FALSE

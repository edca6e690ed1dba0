SPECIFICATION Spec
CONSTANTS
  SubgroupOrder = 5
  BaseSessions <- ThreeGates
  Base <- Second
  Trustees = 3
  Coefficients <- TwoOfThree
  XPlaintexts <- MinusOneToOne
  YPlaintexts <- BitsAndTwo
  MaskNonces = {0, 2, 3}
  Nonces = {1}
INVARIANTS
  QuorumsAgree
  OpenedIsMasked
  FailsForCause
PROPERTY
  ImplementsProductGate
CHECK_DEADLOCK FALSE

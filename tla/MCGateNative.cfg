SPECIFICATION Spec
CONSTANTS
  SubgroupOrder = 5
  BaseSessions <- ThreeGates
  Base <- Second
  Trustees = 3
  Coefficients <- TwoOfThree
  XPlaintexts = {1}
  YPlaintexts = {0, 1}
  MaskNonces = {2}
  Nonces = {1}
INVARIANT
  NativeGateOpens
CHECK_DEADLOCK FALSE

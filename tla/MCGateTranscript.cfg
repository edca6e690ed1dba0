SPECIFICATION Spec
CONSTANTS
  SubgroupOrder = 5
  BaseSessions <- ThreeGates
  Base <- Second
  Trustees = 2
  Coefficients <- TwoOfTwo
  XPlaintexts = {4}
  YPlaintexts <- BitsAndTwo
  MaskNonces = {0, 2}
  Nonces = {3}
INVARIANTS
  RecordVerifies
  AcceptedRecordMultiplies
  AcceptedRecordIsOwn
CHECK_DEADLOCK FALSE

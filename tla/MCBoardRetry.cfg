SPECIFICATION FairSpec
CONSTANTS
  NumTrustees = 3
  Sessions = {1}
  commit = commit
  reveal = reveal
  partial = partial
  p1 = p1
  p2 = p2
  NoPhase = NoPhase
  EmptyPayload = EmptyPayload
  PhaseNames <- MCPhaseNames
  Payloads <- MCPayloads
  Definitions <- MCDefinitions
  Signs <- MCSigns
  SessionOrder <- MCSessionOrder
  LocaleOrder <- MCNameOrder
  CodeUnitOrder <- MCNameOrder
PROPERTIES
  RetryIsIdempotent

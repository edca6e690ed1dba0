SPECIFICATION FairSpec
CONSTANTS
  NumTrustees = 3
  Sessions = {1}
  commit = AB
  reveal = A_B
  partial = Z
  p1 = p1
  p2 = p2
  NoPhase = NoPhase
  EmptyPayload = EmptyPayload
  PhaseNames <- MCPhaseNames
  Payloads <- MCPayloads
  Definitions <- MCDefinitions
  Signs <- MCSigns
  SessionOrder <- MCSessionOrder
  LocaleOrder <- MCLocaleOrder
  CodeUnitOrder <- MCNameOrder
INVARIANTS
  ExportVerifies

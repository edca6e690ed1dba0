SPECIFICATION FairSpec
CONSTANTS
  p1 = p1
  p2 = p2
  d1 = d1
  d2 = d2
  o1 = o1
  o2 = o2
  Processes = {p1, p2}
  Directories = {d1, d2, o1, o2}
  Jobs <- MCJobs
  Decision <- MCDecision
  N = 2
  Gates = 2
  ProgressFile <- MCProgressFile
  Window = 1
  MaxTime = 2
  Magic = Magic
  None = None
INVARIANTS
  OneRunPerDirectory
  ClaimIsBacked
  ManifestIsEvidence
PROPERTIES
  CompletedRunReplays
  ImplementsPublishedOutcome
CHECK_DEADLOCK FALSE

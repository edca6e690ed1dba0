SPECIFICATION FairSpec
CONSTANTS
  SubgroupOrder = 7
  BatchSize = 4
  Elections <- MCElections
  Replayed <- MCReplayed
INVARIANTS
  GateIdsUnique
  SelectorsAreBits
  AggregateConserved
  VerifiersAgree
  AcceptedJournalDecides
PROPERTIES
  ImplementsWeightedVote
  TallyEnds
CHECK_DEADLOCK FALSE

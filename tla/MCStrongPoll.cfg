SPECIFICATION FairSpec
CONSTANTS
  alice = alice
  bob = bob
  carol = carol
  publisher = publisher
  mallory = mallory
  t1 = t1
  Deployments = {d1, d2}
  Accounts = {publisher, mallory}
  ZeroAddress = ZeroAddress
  ZeroHash = ZeroHash
  Transcripts = {t1}
  N = 2
  MaxTau = 1
  MaxTime = 3
  FieldOrder = 4
  WordBound = 8
  IdentityWord = 0
  Configs <- MCConfigs
  Voters <- MCVoters
  NullifierOf <- MCNullifierOf
INVARIANTS
  OneBallotPerVoter
  BallotsAreHidden
  CommitmentFromLog
  CommitmentsAreDistinct
  SealedPollIsAdmitted
  LocalAdmissionAgrees
PROPERTIES
  OpenPollCloses
  ImplementsBallotBox
CHECK_DEADLOCK FALSE

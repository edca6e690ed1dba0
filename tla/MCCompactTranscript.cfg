SPECIFICATION CodecSpec
CONSTANTS
  Journals <- MCJournals
  PieceLength = 2
  ChunkBytes = 4
  FrameSlack = 1
  HeaderLength = 2
  DeflatedLength <- MCDeflatedLength
INVARIANT
  AcceptedFileIsEncoding
PROPERTY
  PackedJournalReturns
CHECK_DEADLOCK FALSE

CONSTANT Unwritten = unwritten
SPECIFICATION Spec
INVARIANTS
  WellFormed NothingLeaks OnlyTheDrivesDevice ListedAmongOthers StandardDigest
  FrontShows WalkerReadsTheFront QueueIsTheLead VerdictIsRight
  RingKeepsTheMessage LengthsArePromised PaddingIsUndone
  CiphertextIsDefined DecryptionUndoes KeystreamInPlace
  TagIsDefined KeystreamUsedOnce
PROPERTIES Identifies Returns ImplementsDigest ImplementsFifo

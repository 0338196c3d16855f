SPECIFICATION FairSpec
CONSTANTS
  Modulus = 4
  Size = 2
  Kind = "rx"
  Packets <- TwoPackets
  MaxBatch = 3
  OverflowChecks = FALSE
INVARIANTS TypeOK ReadsOnlyPublished PeekedIsReleased
PROPERTIES EmptyMeansEmpty ResultIsHonest IsFifo PublishedIsConsumed

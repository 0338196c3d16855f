SPECIFICATION FairSpec
CONSTANTS
  Modulus = 4
  Size = 2
  Kind = "tx"
  Descs <- TwoDescs
  MaxBatch = 3
  OverflowChecks = FALSE
INVARIANTS WritesOnlyFreeSlots
PROPERTIES ResultIsHonest IsFifo PublishedComesBack

SPECIFICATION FairSpec
CONSTANTS
  Modulus = 4
  Size = 2
  Kind = "fill"
  Descs <- TwoDescs
  MaxBatch = 3
  OverflowChecks = FALSE
INVARIANTS TypeOK WritesOnlyFreeSlots ReservedIsSubmitted
PROPERTIES RefusalIsExact ResultIsHonest IsFifo PublishedComesBack

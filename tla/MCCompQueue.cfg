SPECIFICATION Spec
CONSTANTS
  Modulus = 8
  Size = 4
  Kind = "comp"
  Packets <- TwoPackets
  MaxBatch = 3
  OverflowChecks = FALSE
INVARIANTS ReadsOnlyPublished
PROPERTIES ResultIsHonest IsFifo

SPECIFICATION Spec
CONSTANTS
  Modulus = 8
  Size = 4
  Kind = "fill"
  Descs <- OneDesc
  MaxBatch = 4
  OverflowChecks = TRUE
INVARIANTS ReservedIsSubmitted
CHECK_DEADLOCK FALSE

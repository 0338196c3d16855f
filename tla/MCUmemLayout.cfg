SPECIFICATION Spec
CONSTANTS
  Modulus = 16
  XDP_PACKET_HEADROOM = 1
  MIN_CHUNK_SIZE = 3
  MaxFrameSize = 4
  Headrooms <- AllHeadrooms
  FrameCount = 2
  Bytes = {1}
  MaxWrite = 2
  OverflowChecks = TRUE
CHECK_DEADLOCK FALSE
INVARIANTS LayoutMatchesConfig LengthsFit SegmentsAreIsolated

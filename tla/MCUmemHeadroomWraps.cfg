SPECIFICATION Spec
CONSTANTS
  Modulus = 16
  XDP_PACKET_HEADROOM = 1
  MIN_CHUNK_SIZE = 3
  MaxFrameSize = 4
  Headrooms <- AllHeadrooms
  FrameCount = 1
  Bytes = {1}
  MaxWrite = 2
  OverflowChecks = FALSE
INVARIANTS BuildRejectsExcessHeadroom

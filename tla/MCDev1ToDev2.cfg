SPECIFICATION FairSpec
CONSTANTS
  FqSize = 2
  CqSize = 2
  TxSize = 2
  RxSize = 2
  Batches = {1, 2, 3}
  NumPackets = 3
INVARIANTS TypeOK FrameRuleKept NoForeignDescs InOrder TotalsMatchRings LinkCleanedUp
PROPERTIES WritesOwnFrames WaitsForReceiver SingleNeverLoses Terminates

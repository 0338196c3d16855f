SPECIFICATION FairSpec
CONSTANTS
  Calls = {s1, s2}
  Pairs = {p1, p2}
INVARIANTS TypeOK RegionOutlivesUsers UmemNeverBusy QueuesKeepUmemAlive SavedRingsSurviveSuccess
PROPERTIES EverythingIsReclaimed
CHECK_DEADLOCK FALSE

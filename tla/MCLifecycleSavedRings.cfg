SPECIFICATION Spec
CONSTANTS
  Calls = {s1, s2}
  Pairs = {p1, p2}
SYMMETRY Symmetry
INVARIANTS SavedRingsSurvive
CHECK_DEADLOCK FALSE

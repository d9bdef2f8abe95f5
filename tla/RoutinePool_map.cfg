SPECIFICATION Spec
CONSTANTS
  Threshold = 1
  Keys = {k1, k2}
  Starts = {s1, s2}
  None = None
INVARIANTS
  MapIsProtected

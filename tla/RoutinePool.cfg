SPECIFICATION FairSpec
CONSTANTS
  Threshold = 2
  Keys = {k1, k2}
  Starts = {s1, s2}
  None = None
INVARIANTS
  TypeOK
  OneLoop
  BreakerGuardsLoop
PROPERTIES
  CancelledLoopEnds
  UpdateIsTaken
  Recovers

SPECIFICATION FairSpec
CONSTANTS
  Threshold = 2
  Callers = {c1, c2, c3}
  MaxAttempts = 2
  Manual = {"Allow", "ForceOpen", "ForceClose"}
INVARIANTS
  CountMatchesState
  TestIsRunning
PROPERTIES
  OpensAfterStreak
  HalfOpenEnds

SPECIFICATION Spec
CONSTANTS
  Threshold = 1
  Callers = {c1, c2}
  MaxAttempts = 1
  Manual = {}
INVARIANTS
  SingleAttempt

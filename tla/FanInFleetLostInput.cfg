SPECIFICATION Spec
CONSTANTS
  Workers = {w1, w2}
  Tasks = {t1, t2}
  None = None
  Deployments <- OneCrashes
  MaxClaims = 3
  ScanAttempts = 2
SYMMETRY Symmetry
INVARIANTS DoneIsInput
CHECK_DEADLOCK FALSE

SPECIFICATION Spec
CONSTANTS
  Workers = {w1, w2}
  Tasks = {t1, t2}
  None = None
  Deployments <- AllFleets
  MaxClaims = 3
  ScanAttempts = 2
SYMMETRY Symmetry
INVARIANTS TypeOK InputNeverRepeats DoneIsAccepted DoneIsInputAlive
PROPERTIES TasksCommit
CHECK_DEADLOCK FALSE

SPECIFICATION FairSpec
CONSTANTS
  Requests = {1, 2, 3}
  Malformed = {2}
  Pods = {p1, p2}
  Pids = {1, 2, 3, 4}
  MaxAttempts = 2
  MaxFaults = 2
  None = None
  Serve = Serve
INVARIANTS TypeOK OneTrackedTrainer ServingSurvives
PROPERTIES PublishedIsFinal RequestsEnd
CHECK_DEADLOCK FALSE

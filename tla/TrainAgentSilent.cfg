SPECIFICATION Spec
CONSTANTS
  Requests = {1, 2}
  Malformed = {}
  Pods = {p1}
  Pids = {1, 2, 3}
  MaxAttempts = 1
  MaxFaults = 1
  None = None
  Serve = Serve
INVARIANTS NeverNeither
CHECK_DEADLOCK FALSE

SPECIFICATION Spec
CONSTANTS
  Partitions = {1, 2}
  Shards = 2
  Observations = 2
  MaxFaults = 1
  None = None
INVARIANTS VerifiedIsStopped
CHECK_DEADLOCK FALSE

SPECIFICATION FairSpec
CONSTANTS
  Partitions = {1}
  Shards = 2
  Observations = 2
  MaxFaults = 3
  None = None
INVARIANTS CompleteIsWhole VerifiedIsAsTold OneShardAtATime
PROPERTIES WorkStops
CHECK_DEADLOCK FALSE

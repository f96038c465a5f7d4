SPECIFICATION FairSpec
CONSTANTS
  Claims = {c1, c2}
  NoClaim = NoClaim
  MaxGenerations = 2
  AcquireAttempts = 2
  TraversalAttempts = 2
INVARIANTS AcceptedIsCurrent SuccessionIsSafe CorruptionNeedsContention
PROPERTIES AttemptsEnd ImplementsCommit
CHECK_DEADLOCK FALSE

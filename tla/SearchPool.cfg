SPECIFICATION FairSpec
CONSTANTS
  N = 2
  States = {1, 2}
  Faints <- OneFaint
  Roots = {1, 2}
  b1 = b1
  b2 = b2
  BatchSize = 1
  Loads <- Mixed
  None = None
INVARIANTS TypeOK AnswerCountsEverything NothingCountedTwice ExchangeNeverRefuses NoSimulatorIsLost
PROPERTIES PoolEnds
CHECK_DEADLOCK FALSE

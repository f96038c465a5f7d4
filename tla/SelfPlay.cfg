SPECIFICATION FairSpec
CONSTANTS
  a = a
  b = b
  c = c
  Runs = {a, b, c}
  Operators = {o}
  Base <- SharedBase
  PoolSize = 1
  MaxHistorical = 1
  None = None
  Sites <- AllSites
INVARIANTS
  TypeOK
  ListedIsFinal
  RunIsOneSequence
  GateFindsItsMatchup
  ManifestMatchesRegistry
  ArchivedIsRecoverable
  OpponentsAreThere
PROPERTIES
  KeepsLedger
  RunsEnd
CHECK_DEADLOCK FALSE

SPECIFICATION Spec
CONSTANTS
  Clients = {c1}
  MaxCalls = 2
  Kinds <- Bodies
  Attempts = 2
  MaxBatch = 2
  Reloads = {k1, k2, k3}
  Compatible = {k1, k2}
  None = None
INVARIANTS AnswersOwnCall AnswersAreFresh ToldIsNotOlder
PROPERTIES RefusedForAReason
SYMMETRY ReloadSymmetry
CHECK_DEADLOCK FALSE

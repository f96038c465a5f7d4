SPECIFICATION Spec
CONSTANTS
  Workers = 2
  ManifestTasks <- Unruly
  MaxVersions = 3
  Contract <- ThreeGames
  ReadAttempts = 2
INVARIANTS VerdictIsExact AcceptedIsASnapshot
CHECK_DEADLOCK FALSE

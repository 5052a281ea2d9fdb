CONSTANTS
  Devices = {d1, d2}
  MIN_DEVICES_FOR_AGGREGATION = 2
  MAX_MODEL_VERSIONS_KEPT = 2
  ROLLBACK_F1_DROP = 1
  F1Scores = {0, 2}
  MaxVersion = 4
  MaxRounds = 3
  MaxRestarts = 1
  MaxFaults = 1
SPECIFICATION FairSpec
INVARIANTS
  TypeOK
  RegistryIsWindow
  VersionNamesOneModel
  DeltasMeasuredFromBase
  ScoresBelongToModel
  BudgetCoversReleases
  RowsMissingByFailure
PROPERTIES
  DueRoundRuns
  LatestNeverRegresses
  ImplementsModelService

CONSTANTS
  Devices = {d1}
  Workers = {"worker"}
  WorkerOf <- OneWorker
  MIN_DEVICES_FOR_AGGREGATION = 1
  MAX_MODEL_VERSIONS_KEPT = 4
  ROLLBACK_F1_DROP = 1
  F1Scores = {0, 2}
  MaxVersion = 6
  MaxRounds = 4
  MaxRestarts = 0
  MaxFaults = 0
  MaxTrainings = 1
  MaxInFlight = 1
  MaxWorkerRestarts = 1
SPECIFICATION FairLearningSpec
INVARIANTS
  LastScoredIsNewest
  RolledBackModelWasScored
PROPERTIES
  AggregatorSpec
  DevicesKeepUp
  TrainsFromNewestRead
  SecondRollbackAfterEviction

CONSTANTS
  Devices = {d1}
  Workers = {"worker"}
  WorkerOf <- OneWorker
  MIN_DEVICES_FOR_AGGREGATION = 1
  MAX_MODEL_VERSIONS_KEPT = 2
  ROLLBACK_F1_DROP = 1
  F1Scores = {0, 2}
  MaxVersion = 4
  MaxRounds = 3
  MaxRestarts = 1
  MaxFaults = 0
  MaxTrainings = 2
  MaxInFlight = 2
  MaxWorkerRestarts = 0
SPECIFICATION LearningSpec
PROPERTIES
  ReadModelIsAdopted

CONSTANTS
  MaxWindows = 2
  MaxModels = 3
  MaxSubmissions = 2
  MaxFaults = 1
SPECIFICATION FairSpec
INVARIANTS
  WindowsStoredOnce
  ModelsScoredOncePerJob
PROPERTIES
  NewestModelIsScored
  SilentStreamIsReported
  SnapshotsGoOn
CHECK_DEADLOCK FALSE

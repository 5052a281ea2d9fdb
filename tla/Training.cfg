CONSTANTS
  MIN_TRAIN_SAMPLES = 20
  MODEL_TRAINING_INTERVAL_ROWS = 30
  LOCAL_WINDOW_SIZE = 200
SPECIFICATION FairSpec
INVARIANTS
  TrainsInTime
  StaysStaggered
PROPERTIES
  SlowDevicesTrain

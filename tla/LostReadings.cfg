CONSTANTS
  BATCH_SIZE = 2
  Unattributed = {1}
  MaxOffset = 2
  MaxFaults = 1
  MaxRestarts = 0
SPECIFICATION Spec
INVARIANTS
  EveryReadingStored

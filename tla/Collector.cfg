CONSTANTS
  BATCH_SIZE = 2
  Unattributed = {1}
  MaxOffset = 2
  MaxFaults = 2
  MaxRestarts = 1
SPECIFICATION Spec
INVARIANTS
  TypeOK
  StoredOncePerLife
  LossNeedsLaterFailure
  BatchesStaySmall
CHECK_DEADLOCK FALSE

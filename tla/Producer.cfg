CONSTANTS
  STALL = 2
  MaxRetries = 2
  BUFFER = 2
  MaxOutages = 2
SPECIFICATION FairSpec
PROPERTIES
  ClientsGetTheirTime
  DeadClientsAreReplaced

CONSTANTS
  readings = readings
  CHUNKS = 2
  CHUNK_ROWS = 2
  NUM_DEVICES = 2
  FLUSH_EVERY_CHUNKS = 1
  STREAM_ROWS = 1
  TOPICS = {readings}
  PARTITIONS = 4
  MAX_RETRIES = 2
  MAX_ATTEMPTS = 2
  MaxStarts = 2
  MaxFaults = 1
SPECIFICATION FairSpec
INVARIANTS
  HeldOutNeverStreamed
  CompletedRunIsWhole
  OneFlinkJob
  JobsFindTopics
  NoDropUnderWriters
PROPERTIES
  NoConversionUnderReaders
  StartEnds
CHECK_DEADLOCK FALSE

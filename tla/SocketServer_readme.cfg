SPECIFICATION FairSpec
CONSTANTS
  MAX_LOG_ENTRY = 2
  MAX_ENTRIES_PER_LOG_BUFF = 2
  RCVBUF = 2
  MaxLost = 1
  MaxDup = 1
PROPERTY
  ExportsAfterClient
CHECK_DEADLOCK FALSE

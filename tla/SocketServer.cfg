SPECIFICATION FairSpec
CONSTANTS
  MAX_LOG_ENTRY = 3
  MAX_ENTRIES_PER_LOG_BUFF = 1
  RCVBUF = 2
  MaxLost = 1
  MaxDup = 1
INVARIANTS
  OrderedExportComplete
  AtMostOneLate
PROPERTY
  ExportsUnlessLastLost
CHECK_DEADLOCK FALSE

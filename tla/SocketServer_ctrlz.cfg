SPECIFICATION FairSpec
CONSTANTS
  MAX_LOG_ENTRY = 2
  MAX_ENTRIES_PER_LOG_BUFF = 2
  RCVBUF = 2
  MaxLost = 0
  MaxDup = 1
PROPERTY
  CtrlZBreaksLoop
CHECK_DEADLOCK FALSE

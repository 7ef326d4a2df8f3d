SPECIFICATION FairSpec
CONSTANTS
  MAX_LOG_ENTRY = 2
  MAX_ENTRIES_PER_LOG_BUFF = 1
  Processes = {p1}
  MaxLoads = 2
  MaxNetdevOps = 1
INVARIANTS NoUseAfterFree CleanUnload ExportFaithful
PROPERTY LoadAndUnloadEnd
CHECK_DEADLOCK FALSE

SPECIFICATION FairSpec
CONSTANTS
  NPackets = 5
  Packets <- MCPackets
  Accepted <- MCAccepted
  DataPackets <- MCDataPackets
  Uid <- MCUid
  NoPacket = NoPacket
  Cpus = {cpu0, cpu1}
  MAX_LOG_ENTRY = 2
  MAX_ENTRIES_PER_LOG_BUFF = 1
PROPERTY StoredPrefixFetched
CHECK_DEADLOCK FALSE
INVARIANTS
  TypeOK
  FetchInv
  LoggedPrefixArrived
  ExportNested

SPECIFICATION FairSpec
CONSTANTS
  NPackets = 3
  Packets <- MCPackets
  Intercepted <- MCPackets
  DataPackets <- MCDataPackets
  Uid <- MCUid
  NoPacket = NoPacket
  Cpus = {cpu0}
  MAX_PKT = 2
  PKTS_PER_BUFFER = 2
  KM_FIND_BUFF_SLOT_MAX_TRY = 2
  Span = 2
  MaxFaults = 1
  MAX_LOG_ENTRY = 3
  MAX_ENTRIES_PER_LOG_BUFF = 1
INVARIANTS
  IInv
  Conservation
  NoDuplicate
  DropOnlyIfFull
  Accounting
  UserLogWithinKernelLog
  DrainedLogComplete
PROPERTY EveryPacketSettled
CHECK_DEADLOCK FALSE

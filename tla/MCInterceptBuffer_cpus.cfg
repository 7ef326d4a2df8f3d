SPECIFICATION Spec
CONSTANTS
  NPackets = 3
  Packets <- MCPackets
  Intercepted <- MCPackets
  DataPackets <- MCDataPackets
  Uid <- MCUid
  NoPacket = NoPacket
  Cpus = {cpu0, cpu1}
  MAX_PKT = 2
  PKTS_PER_BUFFER = 2
  KM_FIND_BUFF_SLOT_MAX_TRY = 2
  Span = 1
  MaxFaults = 1
  MAX_LOG_ENTRY = 3
  MAX_ENTRIES_PER_LOG_BUFF = 1
INVARIANT
  Conservation
CHECK_DEADLOCK FALSE

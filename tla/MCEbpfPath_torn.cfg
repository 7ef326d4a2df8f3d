SPECIFICATION Spec
CONSTANTS
  NPackets = 2
  Packets <- MCPackets
  Accepted <- MCAccepted
  DataPackets <- MCDataPackets
  Uid <- MCUid
  NoPacket = NoPacket
  Cpus = {cpu0}
  MAX_LOG_ENTRY = 3
  MAX_ENTRIES_PER_LOG_BUFF = 3
CHECK_DEADLOCK FALSE
INVARIANT
  NoGapBelowNext

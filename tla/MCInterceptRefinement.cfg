SPECIFICATION Spec
CONSTANTS
  NPackets = 4
  Packets = {p1, p2, p3, p4, other}
  Intercepted = {p1, p2, p3, p4}
  DataPackets = {p1, p2, p3, p4}
  Uid <- SameUid
  NoPacket = NoPacket
  Cpus = {cpu0}
  MAX_PKT = 3
  PKTS_PER_BUFFER = 2
  KM_FIND_BUFF_SLOT_MAX_TRY = 3
  Span = 1
  MaxFaults = 1
  MAX_LOG_ENTRY = 2
  MAX_ENTRIES_PER_LOG_BUFF = 2
SYMMETRY PacketSymmetry
INVARIANTS
  TypeOK
  NoDataRace
  NothingOverwritten
PROPERTY
  ImplementsPacketBuffer
CHECK_DEADLOCK FALSE

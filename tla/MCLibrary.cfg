SPECIFICATION Spec
CONSTANTS
  UintMax = 255
  MaxMapOps = 4
  IndexRange = 4
  RingSize = 2
  MaxBatch = 2
  XskSockets = {1, 2}
  MaxLost = 1
  PerfCpus = 2
  RingWords = 4
  MaxRecords = 4
  MaxLinks = 2
PROPERTIES
  MapRelocations
  LoadedIfAcceptable
  DebugInfo
  DedupLossless
  DumpFaithful
  CoreConsistent
  PacketsParsed
INVARIANTS
  HashMapExact
  FramesConserved
  XskExact
  PerfExact
CHECK_DEADLOCK FALSE

SPECIFICATION Spec
CONSTANTS
  Mtu = 4
  Threshold = 2
  ChunkBytes = 2
  MaxFragments = 3
  DegradeLag = 2
  PathCount = 3
  Payloads <- MixedPayloads
  Reports <- MixedReports
  Modes = {"auto", "redundant", "split", "roundrobin"}
  MaxPayloads = 2
  MaxEvents = 2
INVARIANTS
  EveryByteOnce
  NothingDropped
  RescueCovers
PROPERTIES
  AutoSettles
CHECK_DEADLOCK FALSE

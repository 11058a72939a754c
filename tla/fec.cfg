SPECIFICATION FecSpec
CONSTANTS
  MaxMediaSequence = 5
  MaxFragments = 2
  MaxReorderDelay = 1
  AgeBound = 1
  Repair = FALSE
  RepairInterval = 1
  MaxRepairRequestsPerTick = 1
  SkippedTrackLimit = 2
  FecPayload <- Protected
  LengthOf <- PacketLengths
  FrameLimit = 1
  PayloadLimit = 3
  First = 4
  Mtu = 18
  GroupSizes = {2, 3}
  MaxFecGroupPackets = 3
  Paths = 2
  Invalid = Invalid
INVARIANTS
  CachesAgree
  PayloadsIntact
  NothingLeftToRecover
  ParityFits
PROPERTIES
  RecoversWithinWindow
CHECK_DEADLOCK FALSE

SPECIFICATION StreamSpec
SYMMETRY PathSymmetry
CONSTANTS
  MaxMediaSequence = 3
  MaxFragments = 2
  MaxReorderDelay = 3
  AgeBound = 3
  Repair = TRUE
  RepairInterval = 1
  MaxRepairRequestsPerTick = 1
  SkippedTrackLimit = 2
  FecPayload <- NoRecovery
  c1 = c1
  c2 = c2
  Connections = {c1, c2}
  RemoteOf <- OneClient
  Packets <- StreamPackets
  RestartBackwardGap = 4
  RestartConfirmPackets = 3
  FlowIdleReset = 2
  Paths = {c1, c2}
  Strategies <- RepairStrategies
  FragmentCounts = {2}
  Ttl = 2
  MaxPackets = 2
  RequestsPerPacket = 4
  DedupWindow = 1
  MaxLost = 2
  Latency = 1
  Invalid = Invalid
  RequestLatency = 0
INVARIANTS
  HandedInOrder
  RepairsInTime

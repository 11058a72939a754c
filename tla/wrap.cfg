SPECIFICATION StreamSpec
CONSTANTS
  MaxMediaSequence = 2
  MaxFragments = 2
  MaxReorderDelay = 2
  AgeBound = 2
  Repair = FALSE
  RepairInterval = 1
  MaxRepairRequestsPerTick = 1
  SkippedTrackLimit = 2
  FecPayload <- NoRecovery
  c1 = c1
  c2 = c2
  Connections = {c1, c2}
  RemoteOf <- OneClient
  Packets <- StreamPackets
  RestartBackwardGap = 4
  RestartConfirmPackets = 3
  FlowIdleReset = 2
  Paths = {c1, c2}
  Strategies <- WrapStrategies
  FragmentCounts = {}
  Ttl = 2
  MaxPackets = 2
  RequestsPerPacket = 4
  DedupWindow = 1
  MaxLost = 0
  Latency = 1
  Invalid = Invalid
  RequestLatency = 0
INVARIANTS
  HandedOnce

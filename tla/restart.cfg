SPECIFICATION FairSpec
CONSTANTS
  MaxMediaSequence = 6
  MaxFragments = 1
  MaxReorderDelay = 1
  AgeBound = 1
  Repair = FALSE
  RepairInterval = 1
  MaxRepairRequestsPerTick = 1
  SkippedTrackLimit = 1
  FecPayload <- NoRecovery
  c1 = c1
  c2 = c2
  c3 = c3
  Connections = {c1, c2, c3}
  RemoteOf <- TwoRemotes
  Packets <- RestartPackets
  RestartBackwardGap = 3
  RestartConfirmPackets = 3
  FlowIdleReset = 2
INVARIANTS
  RoutesCoverFlow
PROPERTIES
  RestartIsConfirmed
  QuietStreamEnds

SPECIFICATION Spec
CONSTANTS
  MaxMediaSequence = 7
  MaxFragments = 1
  MaxReorderDelay = 2
  AgeBound = 6
  Repair = FALSE
  RepairInterval = 1
  MaxRepairRequestsPerTick = 1
  SkippedTrackLimit = 1
  FecPayload <- NoRecovery
  c1 = c1
  c2 = c2
  c3 = c3
  Connections = {c1}
  RemoteOf <- OneRemote
  Packets <- GapPackets
  RestartBackwardGap = 8
  RestartConfirmPackets = 2
  FlowIdleReset = 2
INVARIANTS
  GapToleranceHonoured

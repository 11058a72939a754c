SPECIFICATION Spec
CONSTANTS
  MaxMediaSequence = 3
  MaxFragments = 3
  MaxReorderDelay = 2
  AgeBound = 2
  Repair = TRUE
  RepairInterval = 1
  MaxRepairRequestsPerTick = 2
  SkippedTrackLimit = 1
  FecPayload <- WindowRecovery
  Connections = {c1}
  c1 = c1
  c2 = c2
  c3 = c3
  RemoteOf <- OneRemote
  Packets <- WindowPackets
  RestartBackwardGap = 4
  RestartConfirmPackets = 2
  FlowIdleReset = 1
INVARIANTS
  TypeOK
  WindowConsistent
  Accounting
  SkipListIsRecent
  RequestsOnlyMissing
PROPERTIES
  ForwardsInOrder
  NoEarlySkip
  OverdueGapExpires

SPECIFICATION FairSpec
CONSTANTS
  main = main
  repair = repair
  reader = reader
  Main = main
  Repairers = {repair}
  Reader = reader
  Addresses = {"a", "b"}
  Modes = {"Auto", "Redundant"}
  Parity = FALSE
  MaxConns = 2
  MaxFaults = 1
INVARIANTS
  TypeOK
  NeverStranded
  AttemptsReplaceNothing
PROPERTIES
  PathRecovers
  FailureIsForgotten

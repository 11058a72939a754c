SPECIFICATION FairSpec
CONSTANTS
  main = main
  repair = repair
  reader = reader
  Main = main
  Repairers = {repair}
  Reader = reader
  Addresses = {"a"}
  Modes = {"Auto", "Split"}
  Parity = FALSE
  MaxConns = 2
  MaxFaults = 2
PROPERTIES
  RecoveredPathIsUsed

SPECIFICATION FairSpec
CONSTANTS
  Remotes = {"r", "s"}
  Data = {1, 2, 3}
  RemoteOf <- TwoRemotes
  Extra = {4}
  Budgets <- Scenarios
INVARIANTS
  TypeOK
  RegisteredWhileOpen
  NoResponseDropped
PROPERTIES
  HealthSettles

SPECIFICATION Spec
CONSTANTS
  Configs = {c1, c2}
  NoConfig = NoConfig
  Unreadable = Unreadable
  Nodes = {n1, n2}
  SharedDaemonSets = FALSE
  MaxChurn = 1
  MaxRetries = 1
  MaxFaults = 1
INVARIANTS
  TypeOK
  CleanupAloneOnNodes
  CleanupJobHasItsRights
  RightsBeforeUse
  FinishedIsClean
  ReleasedIsQuiet
PROPERTIES
  ImplementsLifecycle
  NoBridgeReturns

SPECIFICATION Spec
CONSTANTS
  Configs = {c1}
  NoConfig = NoConfig
  Unreadable = Unreadable
  Nodes = {n1, n2}
  SharedDaemonSets = FALSE
  MaxChurn = 0
  MaxRetries = 0
  MaxFaults = 0
INVARIANT EveryNodeCleaned

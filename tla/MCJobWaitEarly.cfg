SPECIFICATION Spec
CONSTANTS
  Configs = {c1}
  NoConfig = NoConfig
  Unreadable = Unreadable
  Nodes = {n1, n2}
  SharedDaemonSets = FALSE
  MaxChurn = 1
  MaxRetries = 1
  MaxFaults = 0
INVARIANT WaitsForJob

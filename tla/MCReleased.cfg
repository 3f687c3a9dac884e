SPECIFICATION Spec
CONSTANTS
  Configs = {c1}
  NoConfig = NoConfig
  Unreadable = Unreadable
  Nodes = {n1}
  SharedDaemonSets = FALSE
  MaxChurn = 0
  MaxRetries = 0
  MaxFaults = 0
PROPERTY ReleasedIsClean

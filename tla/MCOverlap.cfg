SPECIFICATION AtOnceSpec
CONSTANTS
  Configs = {c1}
  NoConfig = NoConfig
  Unreadable = Unreadable
  Nodes = {n1}
  SharedDaemonSets = TRUE
  MaxChurn = 0
  MaxRetries = 0
  MaxFaults = 0
INVARIANTS
  OverlapTypeOK
  CleanupAloneUnlessCrossed
  RightsUnlessCrossed
  DownUnlessCrossed
  CleanOnceAlone
PROPERTIES
  DrainBeforeTeardownByBoth
  DownStaysDown
  LifecycleUnlessCrossed

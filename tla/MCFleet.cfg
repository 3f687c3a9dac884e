SPECIFICATION StuckSpec
CONSTANTS
  Configs = {c1}
  NoConfig = NoConfig
  Unreadable = Unreadable
  Nodes = {n1}
  SharedDaemonSets = TRUE
  MaxChurn = 0
  MaxRetries = 0
  MaxFaults = 1
  OwnBundle = own
  Bundles = {own, old}
  MaxUpgrades = 1
INVARIANTS
  FleetTypeOK
  EachInOrder
  ForeignUntouched
PROPERTIES
  EachImplementsLifecycle
  NeighbourReleased
  NeighbourConverges

SPECIFICATION FairPassesSpec
CONSTANTS
  Networks = {a}
  Configs = {c1, c2}
  NoConfig = NoConfig
  Hosts = {h1}
  Clients = {w}
  Directory = Directory
  Lease = Lease
  MaxLate = 1
  Network = a
  Worker = w
  MaxRetries = 1
  MaxLosses = 2
  MaxChanges = 1
INVARIANTS
  PassesTypeOK
  ReleasedStaysGone
PROPERTIES
  SuccessIsDesired
  ConfigSettles

SPECIFICATION StoreSpec
CONSTANTS
  Networks = {a, b}
  Configs = {c1, c2}
  NoConfig = NoConfig
  Hosts = {h1}
  Clients = {w1}
  Directory = Directory
  Lease = Lease
  MaxLate = 1
INVARIANTS
  StoreTypeOK
PROPERTIES
  ImplementsRegister
SYMMETRY Symmetry

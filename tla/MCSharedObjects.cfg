SPECIFICATION MCSpec
CONSTANTS
  Ids <- MCIds
  Vni <- MCVni
  MaxObjects = 3
INVARIANTS
  SharedTypeOK
PROPERTIES
  ImplementsPrivate
VIEW
  WithoutCall

SPECIFICATION Spec
CONSTANTS
  c1 = c1
  c2 = c2
  c3 = c3
  Stdin = Stdin
  Nothing = Nothing
  MaxClients = 2
  PoolSize = 2
  Connections = {c1, c2, c3}
INVARIANTS
  TypeOK
  MasterSetExact
  DescriptorsOwned
  RecvNeverBlocks
SYMMETRY Symmetry
CONSTRAINT Orderly
CHECK_DEADLOCK FALSE

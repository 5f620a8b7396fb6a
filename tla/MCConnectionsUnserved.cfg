SPECIFICATION Spec
CONSTANTS
  c1 = c1
  c2 = c2
  c3 = c3
  Stdin = Stdin
  Nothing = Nothing
  MaxClients = 2
  PoolSize = 1
  Connections = {c1, c2}
INVARIANT
  EveryClientServed
CHECK_DEADLOCK FALSE

SPECIFICATION FairSpec
CONSTANTS
  c1 = c1
  c2 = c2
  c3 = c3
  Stdin = Stdin
  Nothing = Nothing
  MaxClients = 2
  PoolSize = 1
  Connections = {c1, c2, c3}
PROPERTIES
  AcceptedEventually
  ClientMutexReleased
  RequestsHeard
CONSTRAINT Orderly
CHECK_DEADLOCK FALSE

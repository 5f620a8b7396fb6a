SPECIFICATION FairSpec
CONSTANTS
  Rooms = {1, 2}
  KeepaliveInterval = 1
  ConnectionTimeout = 3
  MaxThink = 2
  MaxRequests = 2
  MaxPrivate = 1
INVARIANTS
  TypeOK
  AgreeInStep
  AnswersMatch
  GroupFollowsRoom
  KeptAlive
PROPERTIES
  RequestsReturn
  QuitEnds
CONSTRAINT InStep
CHECK_DEADLOCK FALSE

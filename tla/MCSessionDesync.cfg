SPECIFICATION Spec
CONSTANTS
  Rooms = {1, 2}
  KeepaliveInterval = 1
  ConnectionTimeout = 3
  MaxThink = 2
  MaxRequests = 1
  MaxPrivate = 1
INVARIANT
  SessionsAgree
CHECK_DEADLOCK FALSE

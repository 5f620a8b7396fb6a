CONSTANTS
  c1 = c1
  c2 = c2
  c3 = c3
  red = red
  blue = blue
  Main = Main
  NoAgent = NoAgent
  Clients = {c1, c2, c3}
  Threaded = {c1}
  MainRequests = {"join", "leave", "chat", "private", "lost"}
  ThreadRequests = {"create", "join", "leave", "lost", "private"}
  MaxRooms = 2
  RoomNames = {red, blue}
  Limits = {2}
SPECIFICATION FairSpec
INVARIANTS
  TypeOK
  LocksMatchSteps
  NoCircularWait
  CountExact
PROPERTIES
  ImplementsRooms
  RoomMutexReleased
CHECK_DEADLOCK FALSE
